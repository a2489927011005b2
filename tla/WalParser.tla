------------------------------ MODULE WalParser ------------------------------
(***************************************************************************)
(* The parser of test_decoding lines in walcapture.rs: parse_change_line() *)
(* reads table and command, parse_column_values() walks over the words of  *)
(* the rest, and parse_test_decoding() makes the old and the new image of  *)
(* what it found.                                                          *)
(*                                                                         *)
(* A text is a sequence of atoms: the characters that the parser looks at, *)
(* and words without any of them. The lines are those that PostgreSQL      *)
(* prints (Decoded): every column is  name[type]:value , a value of a      *)
(* character type is quoted with its quotes doubled, and an UPDATE may     *)
(* begin with the old key.                                                 *)
(***************************************************************************)
EXTENDS Naturals, Sequences, SequencesExt

CONSTANTS
  Lines,   \* the changes that are decoded
  None     \* Option::None

VARIABLES
  line,     \* the change whose text is parsed
  pc,       \* "scan", "quoted", "done"
  head,     \* parse_change_line(): command, schema, table
  parts,    \* data.split_whitespace()
  i,        \* index of the current part
  is_old,   \* the part is after "old-key:"
  name,     \* name of the quoted column being read
  value,    \* its value so far
  columns,  \* the columns read
  event     \* what parse_test_decoding() returns, None at first

vars == <<line, pc, head, parts, i, is_old, name, value, columns, event>>

Quote == "'"
Whitespace == {" ", "newline"}

-----------------------------------------------------------------------------
(***************************************************************************)
(* test_decoding: what PostgreSQL prints for a change.                     *)
(***************************************************************************)

Doubled(text) ==
  FlattenSeq([k \in 1..Len(text) |->
                IF text[k] = Quote THEN <<Quote, Quote>> ELSE <<text[k]>>])

Literal(c) == IF c.quoted THEN <<Quote>> \o Doubled(c.text) \o <<Quote>>
              ELSE c.text

\* The words of a type's name with a space between them.
TypeName(c) ==
  FlattenSeq([k \in 1..Len(c.type) |->
                IF k = 1 THEN <<c.type[k]>> ELSE <<" ", c.type[k]>>])

PrintColumn(c) ==
  <<" ", c.name, "[">> \o TypeName(c) \o <<"]", ":">> \o Literal(c)

PrintColumns(cs) == FlattenSeq([k \in 1..Len(cs) |-> PrintColumn(cs[k])])

Decoded(l) ==
  IF l.command \in {"BEGIN", "COMMIT"} THEN <<l.command, " ", "xid">>
  ELSE <<"table", " ", l.schema, ".">> \o l.table \o <<":", " ", l.command, ":">>
       \o (IF l.old # << >> /\ l.command = "UPDATE"
           THEN <<" ", "old-key", ":">> \o PrintColumns(l.old)
                  \o <<" ", "new-tuple", ":">>
           ELSE PrintColumns(l.old))
       \o PrintColumns(l.new)
       \o (IF l.old = << >> /\ l.new = << >> THEN <<" ", "(no-tuple-data)">> ELSE << >>)

-----------------------------------------------------------------------------
(***************************************************************************)
(* Helpers of the parser.                                                  *)
(***************************************************************************)

\* str::find for one character: 0 if there is none.
Find(text, a) == SelectInSeq(text, LAMBDA x : x = a)
After(text, k) == SubSeq(text, k + 1, Len(text))
Before(text, k) == SubSeq(text, 1, k - 1)

trim(text) ==
  LET first == SelectInSeq(text, LAMBDA x : x \notin Whitespace)
      last  == SelectLastInSeq(text, LAMBDA x : x \notin Whitespace)
  IN  IF first = 0 THEN << >> ELSE SubSeq(text, first, last)

\* The indices of a text that satisfy a condition, in order.
Indices(text, Test(_)) == SelectSeq([k \in 1..Len(text) |-> k], Test)

\* str::split_whitespace: no empty words.
split_whitespace(text) ==
  LET Begins(k) == text[k] \notin Whitespace /\ (k = 1 \/ text[k-1] \in Whitespace)
      Word(k) == LET stop == SelectInSubSeq(text, k, Len(text), LAMBDA x : x \in Whitespace)
                 IN  SubSeq(text, k, IF stop = 0 THEN Len(text) ELSE stop - 1)
      starts == Indices(text, Begins)
  IN  [n \in 1..Len(starts) |-> Word(starts[n])]

\* value.replace("''", "'"), from left to right: of a run of quotes the first
\* of each two stays.
Undoubled(text) ==
  LET Place(k) == k - SelectLastInSubSeq(text, 1, k, LAMBDA x : x # Quote)
      kept == Indices(text, LAMBDA k : text[k] # Quote \/ Place(k) % 2 = 1)
  IN  [n \in 1..Len(kept) |-> text[kept[n]]]

\* value.trim_end_matches('\'')
TrimQuotes(text) ==
  SubSeq(text, 1, SelectLastInSeq(text, LAMBDA x : x # Quote))

\* Position of the '[' of a part, and of the first ':' from there on.
BracketAt(p) == Find(p, "[")
ColonAt(p) == IF BracketAt(p) = 0 THEN 0
              ELSE SelectInSubSeq(p, BracketAt(p), Len(p), LAMBDA x : x = ":")

\* Faulty: any quote at the end of a word ends the value.
EndsAtAnyQuote(v) == v # << >> /\ Last(v) = Quote

\* The value ends in a quote that has no other before it.
Ends(v) ==
  /\ v # << >> /\ Last(v) = Quote
  /\ Len(v) > 1 => v[Len(v) - 1] # Quote

\* Faulty: old and new columns go into one document.
ColumnsOfBoth(cs, old) == cs

\* split_old_new_columns
ColumnsOf(cs, old) == SelectSeq(cs, LAMBDA c : c.is_old = old)

\* serde_json::from_str succeeds; the result is an object or an array.
IsJson(text) == text \in {<<"{}">>, <<"1">>}
IsContainer(text) == text = <<"{}">>

\* insert_column_value
JsonValue(c) ==
  IF c.value = <<"null">> THEN [is |-> "null"]
  ELSE IF IsJson(c.value) /\ (c.name = <<"data">> \/ IsContainer(c.value))
  THEN [is |-> "json", text |-> c.value]
  ELSE [is |-> "string", text |-> c.value]

\* columns_to_jsonb: the last column of a name stays.
Document(cs) ==
  [n \in {cs[k].name : k \in 1..Len(cs)} |->
     JsonValue(cs[SelectLastInSeq(cs, LAMBDA c : c.name = n)])]

-----------------------------------------------------------------------------
\* parse_change_line(): "table schema.table: COMMAND: columns". None for BEGIN,
\* COMMIT and whatever else is no change.
parse_change_line(text) ==
  LET after_table == After(text, 2)
      first       == Find(after_table, ":")
      full_table  == trim(Before(after_table, first))
      after_first == trim(After(after_table, first))
      second      == Find(after_first, ":")
      dot         == Find(full_table, ".")
  IN  IF Head(text) # "table" \/ first = 0 \/ second = 0 THEN None
      ELSE [command |-> trim(Before(after_first, second)),
            schema  |-> IF dot = 0 THEN <<"public">> ELSE Before(full_table, dot),
            table   |-> After(full_table, dot),
            columns |-> trim(After(after_first, second))]

\* parse_test_decoding() up to the loop of parse_column_values().
Init ==
  /\ line \in Lines
  /\ head = parse_change_line(trim(Decoded(line)))
  /\ pc = IF head = None THEN "done" ELSE "scan"
  /\ parts = IF head = None THEN << >> ELSE split_whitespace(head.columns)
  /\ i = 1
  /\ is_old = FALSE
  /\ name = << >>
  /\ value = << >>
  /\ columns = << >>
  /\ event = None

(***************************************************************************)
(* parse_column_values: one action per branch of its loop.                 *)
(***************************************************************************)
Marker(p, old) ==
  /\ pc = "scan" /\ i <= Len(parts)
  /\ parts[i] = p
  /\ is_old' = old
  /\ i' = i + 1
  /\ UNCHANGED <<line, pc, head, parts, name, value, columns, event>>

OldKey == Marker(<<"old-key", ":">>, TRUE)
NewTuple == Marker(<<"new-tuple", ":">>, FALSE)

\* A part that is not one of the two markers.
AtPart ==
  /\ pc = "scan" /\ i <= Len(parts)
  /\ parts[i] \notin {<<"old-key", ":">>, <<"new-tuple", ":">>}

PartName == Before(parts[i], BracketAt(parts[i]))
PartValue == After(parts[i], ColonAt(parts[i]))
IsQuoted == PartValue # << >> /\ Head(PartValue) = Quote

Skipping(step) ==
  /\ AtPart
  /\ ColonAt(parts[i]) = 0
  /\ i' = i + step
  /\ UNCHANGED <<line, pc, head, parts, is_old, name, value, columns, event>>

\* Faulty: the index is not moved, or moved past the next part too.
SkipStays == Skipping(0)
SkipTwo == Skipping(2)

\* No '[' in the part, or no ':' after it.
Skip == Skipping(1)

Push(n, v) == columns' = Append(columns, [name |-> n, value |-> v, is_old |-> is_old])

PlainValue ==
  /\ AtPart
  /\ ColonAt(parts[i]) # 0 /\ ~IsQuoted
  /\ Push(PartName, PartValue)
  /\ i' = i + 1
  /\ UNCHANGED <<line, pc, head, parts, is_old, name, value, event>>

OpenQuote ==
  /\ AtPart
  /\ ColonAt(parts[i]) # 0 /\ IsQuoted
  /\ name' = PartName
  /\ value' = Tail(PartValue)
  /\ pc' = "quoted"
  /\ UNCHANGED <<line, head, parts, i, is_old, columns, event>>

\* The loop inside a quoted value: it ends, the words end, or it goes on
\* with the next word.
QuotedDone(v) ==
  /\ Push(name, Undoubled(v))
  /\ name' = << >>
  /\ value' = << >>
  /\ i' = i + 1
  /\ pc' = "scan"
  /\ UNCHANGED <<line, head, parts, is_old, event>>

CloseQuote ==
  /\ pc = "quoted"
  /\ Ends(value)
  /\ QuotedDone(Front(value))

EndOfParts ==
  /\ pc = "quoted"
  /\ ~Ends(value) /\ i >= Len(parts)
  /\ QuotedDone(TrimQuotes(value))

\* Faulty: the words of a value are put together without a space.
ExtendedNoSpace == value \o parts[i + 1]

Extended == value \o <<" ">> \o parts[i + 1]

NextWord ==
  /\ pc = "quoted"
  /\ ~Ends(value) /\ i < Len(parts)
  /\ value' = Extended
  /\ i' = i + 1
  /\ UNCHANGED <<line, pc, head, parts, is_old, name, columns, event>>

\* The rest of parse_test_decoding(), without the redaction.
MakeEvent ==
  /\ pc = "scan" /\ i > Len(parts)
  /\ LET old == ColumnsOf(columns, TRUE)
         new == ColumnsOf(columns, FALSE)
         Images(o, n) == [schema |-> head.schema, table |-> head.table,
                         old_data |-> o, new_data |-> n]
     IN  event' = CASE head.command = <<"INSERT">> -> Images(None, Document(columns))
                    [] head.command = <<"UPDATE">> ->
                         Images(IF old = << >> THEN None ELSE Document(old), Document(new))
                    [] head.command = <<"DELETE">> -> Images(Document(columns), None)
                    [] OTHER -> None
  /\ pc' = "done"
  /\ UNCHANGED <<line, head, parts, i, is_old, name, value, columns>>

Next ==
  \/ OldKey \/ NewTuple \/ Skip \/ PlainValue \/ OpenQuote
  \/ CloseQuote \/ EndOfParts \/ NextWord
  \/ MakeEvent

\* The function runs to its end.
FairSpec == Init /\ [][Next]_vars /\ WF_vars(Next)

-----------------------------------------------------------------------------
(***************************************************************************)
(* Correctness properties.                                                 *)
(***************************************************************************)

\* The shape of the state; the index never leaves the words by more than one.
TypeOK ==
  /\ pc \in {"scan", "quoted", "done"}
  /\ i \in 1..Len(parts) + 1
  /\ pc = "quoted" => i <= Len(parts)
  /\ is_old \in BOOLEAN
  /\ pc # "quoted" => name = << >> /\ value = << >>
  /\ pc # "done" => event = None

\* A run of whitespace is one space to split_whitespace().
Collapse(text) ==
  FlattenSeq([k \in 1..Len(text) |->
    IF text[k] \notin Whitespace THEN <<text[k]>>
    ELSE IF k > 1 /\ text[k-1] \in Whitespace THEN << >> ELSE <<" ">>])

OneWordType(c) == Len(c.type) = 1

\* The parser finds the end of the column and nothing inside it: a value must
\* not end in a quote, and a column whose type has several words, which is
\* not recorded, must not hold a word that looks like a column or a marker.
Clear(c) ==
  IF OneWordType(c) THEN ~c.quoted \/ c.text = << >> \/ Last(c.text) # Quote
  ELSE ToSet(c.text) \intersect {"[", "old-key", "new-tuple"} = {}

\* The change's columns in printed order, and what is recorded of them; those
\* whose type has several words are not.
Printed ==
  [k \in 1..Len(line.old) |-> [col |-> line.old[k], is_old |-> line.command = "UPDATE"]]
    \o [k \in 1..Len(line.new) |-> [col |-> line.new[k], is_old |-> FALSE]]
Record(p) ==
  [name |-> <<p.col.name>>, value |-> Collapse(p.col.text), is_old |-> p.is_old]
Recorded(ps) ==
  LET kept == SelectSeq(ps, LAMBDA p : OneWordType(p.col))
  IN  [k \in 1..Len(kept) |-> Record(kept[k])]

\* A table's name that is quoted because of a colon is cut at the colon.
PlainTable == ":" \notin ToSet(line.table)

\* Number of columns before the first one that is not Clear.
ClearCount ==
  LET first == SelectInSeq(Printed, LAMBDA p : ~Clear(p.col))
  IN  IF first = 0 THEN Len(Printed) ELSE first - 1

\* parse_column_values records the columns before the first one that is not
\* clear exactly (but for those with a type of several words, which it skips):
\* name, value up to runs of whitespace, and image, whatever quotes, brackets,
\* colons or markers their values hold and whatever follows.
ClearPrefixExact ==
  LET expected == Recorded(SubSeq(Printed, 1, ClearCount))
  IN  PlainTable =>
        /\ IsPrefix(columns, expected) \/ IsPrefix(expected, columns)
        /\ pc = "done" => IsPrefix(expected, columns)

\* In rows without types of several words nothing is invented and nothing is
\* cut: each recorded column is one of the change's, in order, and its value
\* begins with the column's own (without quotes at its end), even where it has
\* swallowed what follows.
NothingInventedOrCut ==
  PlainTable /\ (\A k \in 1..Len(Printed) : OneWordType(Printed[k].col)) =>
    \E at \in [1..Len(columns) -> 1..Len(Printed)] :
      \A k \in 1..Len(columns) :
        /\ k > 1 => at[k-1] < at[k]
        /\ columns[k].name = <<Printed[at[k]].col.name>>
        /\ IsPrefix(Collapse(TrimQuotes(Printed[at[k]].col.text)), columns[k].value)

\* An event is made for INSERT, UPDATE and DELETE and for nothing else, and its
\* images are the row's, whole: a key that changed is in old_data, and no
\* column of one image is in the other. This is promised only for rows whose
\* columns are clear and have types of one word. The parser leaves the others
\* out (character varying, timestamp with time zone): without OneWordType in
\* the premise the property does not hold.
ImagesExact ==
  pc = "done" /\ PlainTable =>
    LET whole == \A k \in 1..Len(Printed) :
                   Clear(Printed[k].col) /\ OneWordType(Printed[k].col)
        image(old) == LET cs == SelectSeq(Printed, LAMBDA p : p.is_old = old)
                      IN  Document([k \in 1..Len(cs) |-> Record(cs[k])])
    IN  IF line.command \notin {"INSERT", "UPDATE", "DELETE"} THEN event = None
        ELSE /\ event.schema = <<line.schema>> /\ event.table = line.table
             /\ whole => CASE line.command = "INSERT" ->
                                event.old_data = None /\ event.new_data = image(FALSE)
                           [] line.command = "DELETE" ->
                                event.old_data = image(FALSE) /\ event.new_data = None
                           [] line.command = "UPDATE" ->
                                /\ event.new_data = image(FALSE)
                                /\ event.old_data = IF DOMAIN image(TRUE) = {} THEN None
                                                    ELSE image(TRUE)

\* The loops of parse_column_values end on every line.
Terminates == <>(pc = "done")
=============================================================================
