---------------------------- MODULE MCJsonEscape ----------------------------
(***************************************************************************)
(* All texts of up to four characters, among them one of two bytes, and    *)
(* buffers from none to more than two of the longest escapes.              *)
(***************************************************************************)
EXTENDS JsonEscape

Characters ==
  {<<"a">>, <<"quote">>, <<"backslash">>, <<"LF">>, <<"SOH">>, <<"lead", "cont">>}

MCTexts ==
  {FlattenSeq(t) : t \in SeqOf(Characters, 4)} \union {<<"CR", "TAB", "CR">>}
=============================================================================
