----------------------------- MODULE MCSensitive -----------------------------
(***************************************************************************)
(* Instances of Sensitive: a sensitive column and an ordinary one, and     *)
(* registry rows that name the same column with and without "$.".          *)
(***************************************************************************)
EXTENDS Sensitive

DollarPan == [dollar |-> TRUE, name |-> "pan"]
PlainPan  == [dollar |-> FALSE, name |-> "pan"]
PlainCvv  == [dollar |-> FALSE, name |-> "cvv"]

MCGlobalPaths == {PlainCvv}
MCEntries ==
  {[path |-> DollarPan, redact_in_log |-> TRUE],
   [path |-> PlainPan, redact_in_log |-> TRUE],
   [path |-> PlainPan, redact_in_log |-> FALSE]}
MCInitial == {[path |-> DollarPan, redact_in_log |-> TRUE]}
=============================================================================
