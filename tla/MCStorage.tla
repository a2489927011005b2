------------------------------ MODULE MCStorage ------------------------------
(* An instance of Storage: the constants are in the .cfg file.              *)
EXTENDS Storage
=============================================================================
