---------------------------- MODULE MCWalCapture ----------------------------
(***************************************************************************)
(* The instances of WalCapture that TLC checks: one tagged table beside    *)
(* the forwarder's own, and a poll limit that cuts inside a transaction.   *)
(***************************************************************************)
EXTENDS WalCapture

MCTables == {"cards"}
=============================================================================
