----------------------------- MODULE JsonEscape -----------------------------
(***************************************************************************)
(* vibe_json_escape() of vibe_hooks.c, which copies the text of a query    *)
(* into a buffer of half an event's size and escapes it for JSON, and the  *)
(* length test with which the hooks send the event or drop it.             *)
(*                                                                         *)
(* Of the bytes of a text those are told apart that the code tells apart;  *)
(* "lead" and "cont" are the bytes of a multi-byte character, which it     *)
(* copies one by one. The rest of the event counts by its length alone.    *)
(***************************************************************************)
EXTENDS Naturals, Sequences, SequencesExt

CONSTANTS
  Texts,       \* the query texts
  EventSizes,  \* VIBE_MAX_EVENT_SIZE
  RestSizes,   \* lengths of an event without its query text
  Null         \* the null pointer

\* "a" stands for every byte that is not named.
Bytes == {"a", "quote", "backslash", "LF", "CR", "TAB", "SOH", "lead", "cont",
          "n", "r", "t", "u", "0", "1"}

ASSUME TextsAssumption == Texts \subseteq Seq(Bytes) /\ Null \notin Texts
\* PostgreSQL only takes texts that are valid in their encoding.
ASSUME EncodingAssumption ==
  \A text \in Texts : \A k \in 1..Len(text) :
    text[k] = "lead" => k < Len(text) /\ text[k+1] = "cont"
\* The frame of a JSON object is never empty.
ASSUME SizesAssumption == EventSizes \subseteq Nat /\ RestSizes \subseteq Nat \ {0}

VARIABLES
  src,    \* the query text, or Null
  size,   \* VIBE_MAX_EVENT_SIZE
  rest,   \* length of the other fields
  si,     \* number of bytes read
  dst,    \* the bytes written, di of them
  pc      \* "loop", "escaped", and "sent" or "dropped"

vars == <<src, size, rest, si, dst, pc>>

\* Faulty: the escaped query gets a buffer as large as the event's.
dst_size_whole == size

\* char escaped_query[VIBE_MAX_EVENT_SIZE / 2]
dst_size == size \div 2
di == Len(dst)

-----------------------------------------------------------------------------
\* Faulty: a backslash is copied as it is.
EscapeNoBackslash(c) ==
  IF c = "quote" THEN <<"backslash", "quote">> ELSE <<c>>

\* The switch: what is written for a byte.
Escape(c) ==
  CASE c = "quote" -> <<"backslash", "quote">>
    [] c = "backslash" -> <<"backslash", "backslash">>
    [] c = "LF" -> <<"backslash", "n">>
    [] c = "CR" -> <<"backslash", "r">>
    [] c = "TAB" -> <<"backslash", "t">>
    [] c = "SOH" -> <<"backslash", "u", "0", "0", "0", "1">>
    [] OTHER -> <<c>>

Init ==
  /\ src \in Texts \union {Null}
  /\ size \in EventSizes
  /\ rest \in RestSizes
  /\ si = 0
  /\ dst = << >>
  /\ pc = "loop"

\* The condition of the for loop, and the byte it reads.
InLoop == pc = "loop" /\ src # Null /\ si < Len(src) /\ di + 1 < dst_size
Byte == src[si + 1]

Write(c) ==
  /\ dst' = dst \o Escape(c)
  /\ si' = si + 1
  /\ UNCHANGED <<src, size, rest, pc>>

\* dst[di++] = c
CopyByte ==
  /\ InLoop
  /\ Len(Escape(Byte)) = 1
  /\ Write(Byte)

\* Faulty: no test at all; no room for the byte that ends the string; the
\* margin of the longest escape for all.
FitsAlways(n) == TRUE
FitsExactly(n) == di + n <= dst_size
FitsLongest(n) == di + 6 < dst_size

\* The negation of: if (di + n >= dst_size) goto done.
Fits(n) == di + n < dst_size

\* An escape of two bytes, or of the six that snprintf writes.
WriteEscape ==
  /\ InLoop
  /\ Len(Escape(Byte)) \in {2, 6}
  /\ Fits(Len(Escape(Byte)))
  /\ Write(Byte)

\* goto done, before an escape that does not fit.
Break ==
  /\ InLoop
  /\ Len(Escape(Byte)) > 1
  /\ ~Fits(Len(Escape(Byte)))
  /\ pc' = "escaped"
  /\ UNCHANGED <<src, size, rest, si, dst>>

\* The loop ends, or there is no text: the string is terminated.
LoopEnds ==
  /\ pc = "loop"
  /\ ~InLoop
  /\ pc' = "escaped"
  /\ UNCHANGED <<src, size, rest, si, dst>>

\* len > 0 && len < (int)sizeof(buf)
Emit ==
  /\ pc = "escaped"
  /\ pc' = IF rest + di < size THEN "sent" ELSE "dropped"
  /\ UNCHANGED <<src, size, rest, si, dst>>

Next == CopyByte \/ WriteEscape \/ Break \/ LoopEnds \/ Emit

Spec == Init /\ [][Next]_vars

-----------------------------------------------------------------------------
(***************************************************************************)
(* Correctness properties.                                                 *)
(***************************************************************************)

\* The shape of the state; nothing is written outside the buffer.
TypeOK ==
  /\ size \in EventSizes /\ rest \in RestSizes
  /\ si \in Nat /\ (src = Null => si = 0) /\ (src # Null => si <= Len(src))
  /\ di <= dst_size
  /\ pc \in {"loop", "escaped", "sent", "dropped"}

\* The terminating zero is written inside the buffer, right behind the text:
\* whatever the margins of the single escapes, di never reaches dst_size.
RoomForTerminator == dst_size > 0 => di < dst_size

Escaped(text) == FlattenSeq([k \in 1..Len(text) |-> Escape(text[k])])

\* The text that is written is the longest beginning of the query whose
\* escaped form fits: nothing is cut that there was room for, and nothing is
\* left out in the middle.
LongestFittingPrefix ==
  pc # "loop" /\ src # Null =>
    /\ dst = Escaped(SubSeq(src, 1, si))
    /\ si < Len(src) => Len(Escaped(SubSeq(src, 1, si + 1))) >= dst_size

\* What an escape stands for, << >> if it is not complete.
Meaning(e) ==
  CASE e = <<"backslash", "quote">> -> <<"quote">>
    [] e = <<"backslash", "backslash">> -> <<"backslash">>
    [] e = <<"backslash", "n">> -> <<"LF">>
    [] e = <<"backslash", "r">> -> <<"CR">>
    [] e = <<"backslash", "t">> -> <<"TAB">>
    [] e = <<"backslash", "u", "0", "0", "0", "1">> -> <<"SOH">>
    [] OTHER -> << >>

\* A reader of JSON strings: the text read so far, the bytes seen of an escape
\* that is not complete, and whether all was legal.
NothingRead == [text |-> << >>, open |-> << >>, ok |-> TRUE]

ReadByte(r, b) ==
  LET e == Append(r.open, b) IN
  IF r.open = << >> /\ b # "backslash"
  THEN [text |-> Append(r.text, b), open |-> << >>,
        ok |-> r.ok /\ b \notin {"quote", "LF", "CR", "TAB", "SOH"}]
  ELSE IF Meaning(e) # << >>
  THEN [r EXCEPT !.text = r.text \o Meaning(e), !.open = << >>]
  ELSE [r EXCEPT !.open = e]

Reader(bytes) ==
  LET read[k \in 0..Len(bytes)] ==
        IF k = 0 THEN NothingRead ELSE ReadByte(read[k-1], bytes[k])
  IN  read[Len(bytes)]

\* Read back as a JSON string the text gives what was read of the query: no
\* bare quote or control character, and never half an escape, wherever the
\* buffer ended. A multi-byte character can be cut, but only as the last one,
\* and only when the query did not fit.
ReadsBack ==
  LET r == Reader(dst) IN
  /\ r.ok /\ r.open = << >>
  /\ src # Null =>
       /\ r.text = SubSeq(src, 1, si)
       /\ \A k \in 1..Len(r.text) :
            r.text[k] = "lead" /\ (k = Len(r.text) \/ r.text[k+1] # "cont") =>
              pc = "loop" \/ (k = Len(r.text) /\ si < Len(src))

\* A query never makes its event too long: the hooks drop an event only if the
\* other fields alone take more than half of it.
QueryNeverDrops == pc = "dropped" => 2 * rest > size
=============================================================================
