------------------------------ MODULE MCIngest ------------------------------
(***************************************************************************)
(* The instance of Ingest that TLC checks.                                 *)
(***************************************************************************)
EXTENDS Ingest

CONSTANTS b1, b2
MCBackends == {b1, b2}
=============================================================================
