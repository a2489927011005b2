----------------------------- MODULE MCWalParser -----------------------------
(***************************************************************************)
(* Lines for the parser: every text of up to three atoms in a first column *)
(* with a few others after it, and updates with old and new images.        *)
(***************************************************************************)
EXTENDS WalParser

Column(n, t, q, text) == [name |-> n, type |-> t, quoted |-> q, text |-> text]

Types == {<<"text">>, <<"character", "varying">>}

\* Quoted texts: all short ones, markers, and what JSON makes of a value.
Texts == SeqOf({"w", " ", "'", "[", ":"}, 3)
Special == {<<"old-key", ":">>, <<"w", " ", "new-tuple", ":", " ", "w">>, <<"null">>,
            <<"{}">>, <<"w", "newline", " ", "w">>, <<"w", "'", "'">>}
FewTexts == {<<"w">>, <<"w", " ", "'">>, <<"'", " ", "w">>, << >>}

\* Values that are printed as they are.
PlainTexts == {<<"1">>, <<"null">>, <<"unchanged-toast-datum">>}

Columns(n, texts) ==
  {Column(n, t, TRUE, text) : t \in Types, text \in texts}
    \union {Column(n, <<"integer">>, FALSE, text) : text \in PlainTexts}

Change(command, table, old, new) ==
  [command |-> command, schema |-> "public", table |-> table, old |-> old, new |-> new]

Users == <<"users">>

MCLines ==
  {Change("INSERT", Users, << >>, <<a, b>>) :
     a \in Columns("name", Texts \union Special), b \in Columns("data", {<<"w">>, <<"'">>})}
  \union
  {Change("DELETE", Users, <<a>>, << >>) : a \in Columns("data", Special)}
  \union
  {Change("UPDATE", Users, <<a>>, <<b, c>>) :
     a \in Columns("name", FewTexts \union Special), b \in Columns("name", FewTexts),
     c \in Columns("data", {<<"w">>, <<"{}">>})}
  \union
  {Change("UPDATE", Users, << >>, <<a>>) : a \in Columns("data", FewTexts)}
  \union
  {Change("INSERT", <<"a", ":", "b">>, << >>, <<a>>) : a \in Columns("name", {<<"w">>})}
  \union
  {Change(command, Users, << >>, << >>) :
     command \in {"BEGIN", "COMMIT", "TRUNCATE", "DELETE"}}
=============================================================================
