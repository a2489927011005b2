---------------------------- MODULE MCVerifyChain ----------------------------
(***************************************************************************)
(* The instance of VerifyChain that TLC checks: two different events with  *)
(* the same payload because of the separator, a NULL that the payload      *)
(* cannot tell from the empty text, two that differ only in a column       *)
(* outside the payload, and rows whose hash was computed anew.             *)
(***************************************************************************)
EXTENDS VerifyChain

Event(user, query, detail) ==
  [session_user |-> user, query_text |-> query, detail |-> detail]

MCEvents ==
  {Event(<<"a", "|">>, << >>, "d"), Event(<<"a">>, <<"|">>, "e"), Event(Null, Null, "d")}

\* Rows whose hash was computed anew, as the first row of a table or after a row
\* with an empty payload.
MCForgeries ==
  {[session_user |-> e.session_user, query_text |-> e.query_text,
    detail |-> e.detail, prev_hash |-> h, event_hash |-> Digest(h, BuildPayload(e))] :
     e \in {Event(<< >>, << >>, "e"), Event(<<"b">>, <<"a">>, "d")},
     h \in {NoHash, <<Join(Null, Null)>>}}
=============================================================================
