----------------------------- MODULE MCTelemetry -----------------------------
(***************************************************************************)
(* An instance of Telemetry: two transactions at a time. The one that      *)
(* commits first is decoded first; the other's BEGIN has a smaller LSN.    *)
(***************************************************************************)
EXTENDS Telemetry, TLC

MCWalLines == <<[kind |-> "ROW", lsn |-> 2], [kind |-> "BEGIN", lsn |-> 1]>>

Symmetry == Permutations(Handlers)
=============================================================================
