-------------------------- MODULE JsonEscapeProofs --------------------------
(***************************************************************************)
(* vibe_json_escape() stays inside its buffer, for every text and every    *)
(* size of the event.                                                      *)
(***************************************************************************)
EXTENDS JsonEscape, SequenceTheorems, WellFoundedInduction, TLAPS

\* What the proofs of the two invariants need: the bytes written are a string,
\* and they leave a byte for the terminator. In a buffer of no bytes nothing is
\* written at all, as the loop's condition is false.
Inv ==
  /\ src = Null \/ src \in Seq(Bytes)
  /\ size \in EventSizes /\ rest \in RestSizes
  /\ si \in Nat /\ (src = Null => si = 0) /\ (src # Null => si <= Len(src))
  /\ dst \in Seq(Bytes)
  /\ dst_size > 0 => di < dst_size
  /\ dst_size = 0 => di = 0
  /\ pc \in {"loop", "escaped", "sent", "dropped"}
  /\ pc = "dropped" => rest + di >= size

\* Two bytes are a string of length two.
LEMMA Pair ==
  ASSUME NEW S, NEW a \in S, NEW b \in S
  PROVE  <<a, b>> \in Seq(S) /\ Len(<<a, b>>) = 2
  OBVIOUS

\* A byte becomes one, two or six bytes.
LEMMA EscapeLength ==
  ASSUME NEW c \in Bytes
  PROVE  Escape(c) \in Seq(Bytes) /\ Len(Escape(c)) \in {1, 2, 6}
  <1> DEFINE Marks == {"quote", "backslash", "n", "r", "t"}
  <1>1. CASE \E b \in Marks : Escape(c) = <<"backslash", b>>
    <2>1. PICK b \in Marks : Escape(c) = <<"backslash", b>>
      BY <1>1
    <2>2. "backslash" \in Bytes /\ b \in Bytes
      BY DEF Bytes
    <2>3. <<"backslash", b>> \in Seq(Bytes) /\ Len(<<"backslash", b>>) = 2
      BY <2>2, Pair
    <2> QED
      BY <2>1, <2>3
  <1>2. CASE Escape(c) = <<"backslash", "u", "0", "0", "0", "1">>
    <2>1. "backslash" \in Bytes /\ "u" \in Bytes /\ "0" \in Bytes /\ "1" \in Bytes
      BY DEF Bytes
    <2> QED
      BY <1>2, <2>1
  <1>3. CASE Escape(c) = <<c>>
    BY <1>3
  <1> QED
    BY <1>1, <1>2, <1>3 DEF Escape

\* Half of an event's size is a natural number.
LEMMA DstSizeNat ==
  ASSUME size \in EventSizes
  PROVE  dst_size \in Nat
  <1>1. size \in Nat
    BY SizesAssumption
  <1> QED
    BY <1>1 DEF dst_size

\* Writing the escape of the current byte keeps the invariant if the loop goes
\* on and the escape fits as the code tests it.
LEMMA WriteKeepsInv ==
  ASSUME Inv, InLoop, Write(Byte),
         di + Len(Escape(Byte)) < dst_size
  PROVE  Inv'
  <1>1. src \in Seq(Bytes) /\ si + 1 \in 1..Len(src)
    BY DEF Inv, InLoop
  <1>2. Byte \in Bytes
    BY <1>1 DEF Byte
  <1>3. Escape(Byte) \in Seq(Bytes) /\ Len(Escape(Byte)) \in Nat
    BY <1>2, EscapeLength
  <1>4. dst' \in Seq(Bytes) /\ Len(dst') = Len(dst) + Len(Escape(Byte))
    BY <1>3 DEF Inv, Write
  <1>5. dst_size \in Nat /\ dst_size' = dst_size /\ di' = Len(dst')
    BY DstSizeNat DEF Inv, Write, dst_size, di
  <1>6. Len(dst) + Len(Escape(Byte)) < dst_size
    BY DEF di
  <1>7. di' < dst_size'
    BY <1>4, <1>5, <1>6
  <1>8. si' \in Nat /\ si' <= Len(src')
    BY <1>1 DEF Inv, Write
  <1>9. di' \in Nat /\ dst_size' # 0
    BY <1>4, <1>5, <1>7 DEF Inv
  <1>10. UNCHANGED <<src, size, rest, pc>> /\ pc = "loop"
    BY DEF Write, InLoop
  <1>11. src # Null
    BY DEF InLoop
  <1> QED
    BY <1>1, <1>4, <1>7, <1>8, <1>9, <1>10, <1>11 DEF Inv

\* Nothing has been written at first.
LEMMA InvInit == Init => Inv
  <1> SUFFICES ASSUME Init PROVE Inv
    OBVIOUS
  <1>1. dst_size \in Nat
    BY DstSizeNat DEF Init
  <1>2. src = Null \/ src \in Seq(Bytes)
    BY TextsAssumption DEF Init
  <1>3. dst \in Seq(Bytes) /\ Len(dst) = 0
    BY DEF Init
  <1>4. src # Null => 0 <= Len(src)
    BY <1>2
  <1> QED
    BY <1>1, <1>2, <1>3, <1>4 DEF Init, Inv, di

\* Every branch of the loop keeps the invariant.
LEMMA InvNext == Inv /\ [Next]_vars => Inv'
  <1> SUFFICES ASSUME Inv, [Next]_vars PROVE Inv'
    OBVIOUS
  <1>1. CASE CopyByte
    <2>1. di + Len(Escape(Byte)) < dst_size
      BY <1>1 DEF CopyByte, InLoop
    <2> QED
      BY <1>1, <2>1, WriteKeepsInv DEF CopyByte
  <1>2. CASE WriteEscape
    BY <1>2, WriteKeepsInv DEF WriteEscape, Fits
  <1>3. CASE Break \/ LoopEnds
    BY <1>3 DEF Break, LoopEnds, Inv, di, dst_size
  <1>4. CASE Emit
    <2>1. size \in Nat /\ rest \in Nat /\ di \in Nat
      BY SizesAssumption DEF Inv, di
    <2>2. ~(rest + di < size) => rest + di >= size
      BY <2>1
    <2> QED
      BY <1>4, <2>2 DEF Emit, Inv, di, dst_size
  <1>5. CASE UNCHANGED vars
    BY <1>5 DEF vars, Inv, di, dst_size
  <1> QED
    BY <1>1, <1>2, <1>3, <1>4, <1>5 DEF Next

\* The type invariant: in particular nothing is ever written outside the buffer.
THEOREM TypeCorrect == Spec => []TypeOK
  <1>1. Inv => TypeOK
    <2> SUFFICES ASSUME Inv PROVE TypeOK
      OBVIOUS
    <2>1. dst_size \in Nat /\ Len(dst) \in Nat
      BY DstSizeNat DEF Inv
    <2>2. di <= dst_size
      BY <2>1 DEF Inv, di
    <2> QED
      BY <2>2 DEF Inv, TypeOK
  <1> QED
    BY <1>1, InvInit, InvNext, PTL DEF Spec

\* The terminating zero always has its place behind the text: the branch of the
\* code that cuts the text for it is never taken.
THEOREM TerminatorFits == Spec => []RoomForTerminator
  <1>1. Inv => RoomForTerminator
    BY DEF Inv, RoomForTerminator
  <1> QED
    BY <1>1, InvInit, InvNext, PTL DEF Spec

\* The escaped query takes less than half of the event: an event is dropped only
\* if its other fields alone are longer than the other half.
THEOREM QueryFits == Spec => []QueryNeverDrops
  <1>1. Inv => QueryNeverDrops
    <2> SUFFICES ASSUME Inv, pc = "dropped" PROVE 2 * rest > size
      BY DEF QueryNeverDrops
    <2>1. size \in Nat /\ rest \in Nat /\ rest > 0 /\ di \in Nat /\ rest + di >= size
      BY SizesAssumption DEF Inv, di
    <2>2. \/ di < size \div 2
          \/ di = 0 /\ size \div 2 = 0
      BY DstSizeNat DEF Inv, dst_size
    <2>3. 2 * (size \div 2) <= size /\ size <= 2 * (size \div 2) + 1 /\ size \div 2 \in Nat
      BY <2>1
    <2> QED
      BY <2>1, <2>2, <2>3
  <1> QED
    BY <1>1, InvInit, InvNext, PTL DEF Spec

-----------------------------------------------------------------------------
(***************************************************************************)
(* What FlattenSeq computes.                                               *)
(***************************************************************************)

\* Induction, for a set: the naturals are the only set of naturals with 0 and
\* with every successor.
LEMMA AllNaturals ==
  ASSUME NEW T, T \subseteq Nat, 0 \in T, \A n \in T : n + 1 \in T
  PROVE  T = Nat
  <1> SUFFICES ASSUME Nat \ T # {} PROVE FALSE
    OBVIOUS
  <1>1. PICK x \in Nat \ T : \A y \in Nat \ T : ~(<<y, x>> \in OpToRel(<, Nat))
    BY NatLessThanWellFounded, WFMin
  <1>2. x - 1 \in Nat /\ x - 1 < x
    OBVIOUS
  <1>3. <<x - 1, x>> \in OpToRel(<, Nat)
    BY <1>1, <1>2 DEF OpToRel
  <1>4. x - 1 \in T
    BY <1>1, <1>2, <1>3
  <1>5. (x - 1) + 1 = x
    OBVIOUS
  <1> QED
    BY <1>1, <1>4, <1>5

\* The equations of the function that FlattenSeq is defined with.
FlatUpTo(f, s, n) ==
  \A i \in 1..n : f[i] = IF i = 1 THEN s[i] ELSE f[i-1] \o s[i]

\* That function exists.
LEMMA FlattenExists ==
  ASSUME NEW S, NEW s \in Seq(Seq(S))
  PROVE  \E f : f = [i \in 1..Len(s) |-> IF i = 1 THEN s[i] ELSE f[i-1] \o s[i]]
  <1> DEFINE T == {n \in Nat : n <= Len(s) =>
                     \E f : f = [i \in 1..n |-> f[i]] /\ FlatUpTo(f, s, n)}
  <1>1. 0 \in T
    <2> DEFINE none == [i \in 1..0 |-> 0]
    <2>1. none = [i \in 1..0 |-> none[i]]
      OBVIOUS
    <2> HIDE DEF none
    <2>2. FlatUpTo(none, s, 0)
      BY DEF FlatUpTo
    <2> QED
      BY <2>1, <2>2
  <1>2. ASSUME NEW n \in T PROVE n + 1 \in T
    <2> SUFFICES ASSUME n + 1 <= Len(s)
                 PROVE  \E g : g = [i \in 1..(n + 1) |-> g[i]] /\ FlatUpTo(g, s, n + 1)
      OBVIOUS
    <2>1. n \in Nat /\ n <= Len(s) /\ Len(s) \in Nat
      OBVIOUS
    <2>2. PICK f : f = [i \in 1..n |-> f[i]] /\ FlatUpTo(f, s, n)
      BY <2>1
    <2> DEFINE g == [i \in 1..(n + 1) |-> IF i <= n THEN f[i]
                                          ELSE IF i = 1 THEN s[i] ELSE f[i-1] \o s[i]]
    <2>3. FlatUpTo(g, s, n + 1)
      <3> SUFFICES ASSUME NEW i \in 1..(n + 1)
                   PROVE  g[i] = IF i = 1 THEN s[i] ELSE g[i-1] \o s[i]
        BY DEF FlatUpTo
      <3>1. i # 1 => i - 1 \in 1..(n + 1) /\ i - 1 <= n /\ g[i-1] = f[i-1]
        BY <2>1
      <3>2. CASE i <= n
        <4>1. i \in 1..n /\ g[i] = f[i]
          BY <2>1, <3>2
        <4>2. f[i] = IF i = 1 THEN s[i] ELSE f[i-1] \o s[i]
          BY <2>2, <4>1 DEF FlatUpTo
        <4> HIDE DEF g
        <4> QED
          BY <3>1, <4>1, <4>2
      <3>3. CASE ~(i <= n)
        <4>1. g[i] = IF i = 1 THEN s[i] ELSE f[i-1] \o s[i]
          BY <2>1, <3>3
        <4> HIDE DEF g
        <4> QED
          BY <3>1, <4>1
      <3> QED
        BY <3>2, <3>3
    <2>4. g = [i \in 1..(n + 1) |-> g[i]]
      OBVIOUS
    <2> HIDE DEF g
    <2> QED
      BY <2>3, <2>4
  <1>3. T = Nat
    <2> HIDE DEF T
    <2>1. T \subseteq Nat
      BY DEF T
    <2> QED
      BY <1>1, <1>2, <2>1, AllNaturals
  <1>4. PICK f : f = [i \in 1..Len(s) |-> f[i]] /\ FlatUpTo(f, s, Len(s))
    BY <1>3, LenProperties
  <1>5. f = [i \in 1..Len(s) |-> IF i = 1 THEN s[i] ELSE f[i-1] \o s[i]]
    BY <1>4 DEF FlatUpTo
  <1> QED
    BY <1>5

\* Where two sequences agree, so do their functions.
LEMMA FlattenUnique ==
  ASSUME NEW s, NEW t, NEW n \in Nat, \A i \in 1..n : s[i] = t[i],
         NEW f, FlatUpTo(f, s, n), NEW g, FlatUpTo(g, t, n)
  PROVE  \A i \in 1..n : f[i] = g[i]
  <1> DEFINE T == {i \in Nat : i \in 1..n => f[i] = g[i]}
  <1>1. 0 \in T
    OBVIOUS
  <1>2. ASSUME NEW i \in T PROVE i + 1 \in T
    <2> SUFFICES ASSUME i + 1 \in 1..n PROVE f[i + 1] = g[i + 1]
      OBVIOUS
    <2>1. /\ f[i + 1] = IF i + 1 = 1 THEN s[i + 1] ELSE f[i + 1 - 1] \o s[i + 1]
          /\ g[i + 1] = IF i + 1 = 1 THEN t[i + 1] ELSE g[i + 1 - 1] \o t[i + 1]
      BY DEF FlatUpTo
    <2>2. i + 1 - 1 = i /\ (i + 1 # 1 => i \in 1..n) /\ s[i + 1] = t[i + 1]
      OBVIOUS
    <2>3. i + 1 # 1 => f[i] = g[i]
      BY <2>2
    <2> QED
      BY <2>1, <2>2, <2>3
  <1>3. T = Nat
    <2> HIDE DEF T
    <2>1. T \subseteq Nat
      BY DEF T
    <2> QED
      BY <1>1, <1>2, <2>1, AllNaturals
  <1> QED
    BY <1>3

\* FlattenSeq by its equations.
LEMMA FlattenValue ==
  ASSUME NEW S, NEW s \in Seq(Seq(S)), Len(s) # 0
  PROVE  \E f : FlatUpTo(f, s, Len(s)) /\ FlattenSeq(s) = f[Len(s)]
  <1> DEFINE F == CHOOSE f : f = [i \in 1..Len(s) |-> IF i = 1 THEN s[i] ELSE f[i-1] \o s[i]]
  <1>1. F = [i \in 1..Len(s) |-> IF i = 1 THEN s[i] ELSE F[i-1] \o s[i]]
    BY FlattenExists
  <1>2. FlattenSeq(s) = F[Len(s)]
    BY DEF FlattenSeq
  <1> HIDE DEF F
  <1>3. FlatUpTo(F, s, Len(s))
    BY <1>1 DEF FlatUpTo
  <1> QED
    BY <1>2, <1>3

\* Flattening one more sequence appends it.
LEMMA FlattenOneMore ==
  ASSUME NEW S, NEW n \in Nat, NEW s \in Seq(Seq(S)), Len(s) = n + 1,
         NEW r \in Seq(Seq(S)), Len(r) = n, \A i \in 1..n : r[i] = s[i]
  PROVE  FlattenSeq(s) = FlattenSeq(r) \o s[n + 1]
  <1>1. PICK f : FlatUpTo(f, s, n + 1) /\ FlattenSeq(s) = f[n + 1]
    BY FlattenValue
  <1>2. f[n + 1] = IF n + 1 = 1 THEN s[n + 1] ELSE f[n + 1 - 1] \o s[n + 1]
    BY <1>1 DEF FlatUpTo
  <1>3. s[n + 1] \in Seq(S)
    BY ElementOfSeq
  <1>4. CASE n = 0
    <2>1. FlattenSeq(r) = << >>
      BY <1>4, EmptySeq DEF FlattenSeq
    <2>2. << >> \o s[n + 1] = s[n + 1]
      BY <1>3, ConcatEmptySeq
    <2> QED
      BY <1>1, <1>2, <1>4, <2>1, <2>2
  <1>5. CASE n # 0
    <2>1. PICK g : FlatUpTo(g, r, n) /\ FlattenSeq(r) = g[n]
      BY <1>5, FlattenValue
    <2>2. FlatUpTo(f, s, n)
      BY <1>1 DEF FlatUpTo
    <2>3. f[n] = g[n]
      BY <1>5, <2>1, <2>2, FlattenUnique
    <2>4. n + 1 # 1 /\ n + 1 - 1 = n
      BY <1>5
    <2> QED
      BY <1>1, <1>2, <2>1, <2>3, <2>4
  <1> QED
    BY <1>4, <1>5

-----------------------------------------------------------------------------
(***************************************************************************)
(* The escaped form of a text, and what its reader makes of it.            *)
(***************************************************************************)

\* The first bytes of a text.
LEMMA FirstBytes ==
  ASSUME NEW text \in Seq(Bytes), NEW n \in 0..Len(text)
  PROVE  /\ SubSeq(text, 1, n) \in Seq(Bytes)
         /\ Len(SubSeq(text, 1, n)) = n
         /\ \A k \in 1..n : SubSeq(text, 1, n)[k] = text[k]
         /\ n < Len(text) => SubSeq(text, 1, n + 1) = Append(SubSeq(text, 1, n), text[n + 1])
  <1>1. Len(text) \in Nat /\ \A k \in 1..Len(text) : text[k] \in Bytes
    BY LenProperties, ElementOfSeq
  <1>2. ASSUME NEW m \in 0..Len(text)
        PROVE  /\ SubSeq(text, 1, m) \in Seq(Bytes)
               /\ Len(SubSeq(text, 1, m)) = m
               /\ \A k \in 1..m : SubSeq(text, 1, m)[k] = text[k]
    <2>1. \A k \in 1..m : text[k] \in Bytes
      BY <1>1
    <2> QED
      BY <1>1, <2>1, SubSeqProperties
  <1>3. ASSUME n < Len(text)
        PROVE  SubSeq(text, 1, n + 1) = Append(SubSeq(text, 1, n), text[n + 1])
    <2> DEFINE p == SubSeq(text, 1, n)
               q == SubSeq(text, 1, n + 1)
    <2>1. n + 1 \in 0..Len(text) /\ text[n + 1] \in Bytes
      BY <1>1, <1>3
    <2>2. /\ p \in Seq(Bytes) /\ Len(p) = n /\ \A k \in 1..n : p[k] = text[k]
          /\ q \in Seq(Bytes) /\ Len(q) = n + 1 /\ \A k \in 1..(n + 1) : q[k] = text[k]
      BY <1>2, <2>1
    <2> HIDE DEF p, q
    <2>3. /\ Append(p, text[n + 1]) \in Seq(Bytes) /\ Len(Append(p, text[n + 1])) = n + 1
          /\ \A k \in 1..n : Append(p, text[n + 1])[k] = p[k]
          /\ Append(p, text[n + 1])[n + 1] = text[n + 1]
      BY <2>1, <2>2, AppendProperties
    <2>4. \A k \in 1..(n + 1) : q[k] = Append(p, text[n + 1])[k]
      BY <2>2, <2>3
    <2>5. q = Append(p, text[n + 1])
      BY <2>2, <2>3, <2>4, SeqEqual
    <2> QED
      BY <2>5 DEF p, q
  <1> QED
    BY <1>2, <1>3

\* Nothing escaped is nothing.
LEMMA EscapedNothing ==
  ASSUME NEW text \in Seq(Bytes)
  PROVE  Escaped(SubSeq(text, 1, 0)) = << >>
  <1>1. Len(SubSeq(text, 1, 0)) = 0
    BY FirstBytes, LenProperties
  <1>2. [k \in 1..0 |-> Escape(SubSeq(text, 1, 0)[k])] = << >>
    OBVIOUS
  <1> QED
    BY <1>1, <1>2 DEF Escaped, FlattenSeq

\* One byte more of the text appends its escape.
LEMMA EscapedOneMore ==
  ASSUME NEW text \in Seq(Bytes), NEW n \in Nat, n < Len(text)
  PROVE  Escaped(SubSeq(text, 1, n + 1)) = Escaped(SubSeq(text, 1, n)) \o Escape(text[n + 1])
  <1> DEFINE p == SubSeq(text, 1, n)
             q == SubSeq(text, 1, n + 1)
  <1>1. Len(text) \in Nat /\ n \in 0..Len(text) /\ n + 1 \in 0..Len(text)
    BY LenProperties
  <1>2. /\ p \in Seq(Bytes) /\ Len(p) = n /\ \A k \in 1..n : p[k] = text[k]
        /\ q \in Seq(Bytes) /\ Len(q) = n + 1 /\ \A k \in 1..(n + 1) : q[k] = text[k]
    BY <1>1, FirstBytes
  <1> HIDE DEF p, q
  <1> DEFINE r == [k \in 1..n |-> Escape(p[k])]
             s == [k \in 1..(n + 1) |-> Escape(q[k])]
  <1>3. \A k \in 1..Len(text) : Escape(text[k]) \in Seq(Bytes)
    BY EscapeLength, ElementOfSeq
  <1>4. /\ \A k \in 1..n : Escape(p[k]) \in Seq(Bytes)
        /\ \A k \in 1..(n + 1) : Escape(q[k]) \in Seq(Bytes)
    <2>1. /\ \A k \in 1..n : k \in 1..Len(text)
          /\ \A k \in 1..(n + 1) : k \in 1..Len(text)
      BY <1>1
    <2> QED
      BY <1>2, <1>3, <2>1
  <1>5. /\ r \in Seq(Seq(Bytes)) /\ Len(r) = n
        /\ s \in Seq(Seq(Bytes)) /\ Len(s) = n + 1
        /\ \A k \in 1..n : r[k] = s[k]
        /\ s[n + 1] = Escape(text[n + 1])
    <2>1. r \in Seq(Seq(Bytes)) /\ Len(r) = n
      BY <1>4
    <2>2. s \in Seq(Seq(Bytes)) /\ Len(s) = n + 1
      BY <1>4
    <2>3. /\ \A k \in 1..n : k \in 1..(n + 1) /\ r[k] = Escape(p[k]) /\ s[k] = Escape(q[k])
          /\ s[n + 1] = Escape(q[n + 1])
      OBVIOUS
    <2>4. q[n + 1] = text[n + 1]
      BY <1>2
    <2> HIDE DEF r, s
    <2> QED
      BY <1>2, <2>1, <2>2, <2>3, <2>4
  <1>6. Escaped(p) = FlattenSeq(r) /\ Escaped(q) = FlattenSeq(s)
    BY <1>2 DEF Escaped
  <1> HIDE DEF r, s
  <1>7. FlattenSeq(s) = FlattenSeq(r) \o s[n + 1]
    BY <1>5, FlattenOneMore
  <1> QED
    BY <1>5, <1>6, <1>7 DEF p, q

\* dst holds the escaped form of the bytes read; what stopped the loop is that
\* the escape of the next byte does not fit.
CopyInv ==
  /\ Inv
  /\ src = Null => dst = << >>
  /\ src # Null => dst = Escaped(SubSeq(src, 1, si))
  /\ pc # "loop" /\ src # Null /\ si < Len(src) =>
       di + Len(Escape(src[si + 1])) >= dst_size

\* Before the loop nothing is copied.
LEMMA CopyInit == Init => CopyInv
  <1> SUFFICES ASSUME Init PROVE CopyInv
    OBVIOUS
  <1>1. Inv /\ dst = << >> /\ si = 0 /\ pc = "loop"
    BY InvInit DEF Init
  <1>2. src # Null => Escaped(SubSeq(src, 1, 0)) = << >>
    BY <1>1, EscapedNothing DEF Inv
  <1> QED
    BY <1>1, <1>2 DEF CopyInv

\* Every branch of the loop keeps CopyInv.
LEMMA CopyNext == CopyInv /\ [Next]_vars => CopyInv'
  <1> SUFFICES ASSUME CopyInv, [Next]_vars PROVE CopyInv'
    OBVIOUS
  <1>1. Inv /\ Inv'
    BY InvNext DEF CopyInv
  <1>2. CASE CopyByte \/ WriteEscape
    <2>1. InLoop /\ Write(Byte)
      BY <1>2 DEF CopyByte, WriteEscape
    <2>2. src \in Seq(Bytes) /\ si \in Nat /\ si < Len(src) /\ src # Null /\ pc = "loop"
      BY <1>1, <2>1 DEF Inv, InLoop
    <2>3. dst' = Escaped(SubSeq(src, 1, si)) \o Escape(src[si + 1]) /\ si' = si + 1
      BY <2>1, <2>2 DEF CopyInv, Write, Byte
    <2>4. dst' = Escaped(SubSeq(src, 1, si'))
      BY <2>2, <2>3, EscapedOneMore
    <2>5. UNCHANGED <<src, pc>>
      BY <2>1 DEF Write
    <2> QED
      BY <1>1, <2>2, <2>4, <2>5 DEF CopyInv
  <1>3. CASE Break
    <2>1. di + Len(Escape(src[si + 1])) >= dst_size
      <3>1. src \in Seq(Bytes) /\ si + 1 \in 1..Len(src)
        BY <1>1, <1>3 DEF Inv, Break, InLoop
      <3>2. Len(Escape(src[si + 1])) \in Nat /\ di \in Nat /\ dst_size \in Nat
        BY <1>1, <3>1, EscapeLength, ElementOfSeq, DstSizeNat DEF Inv, di
      <3> QED
        BY <1>3, <3>2 DEF Break, Fits, Byte
    <2> QED
      BY <1>1, <1>3, <2>1 DEF Break, CopyInv, di, dst_size
  <1>4. CASE LoopEnds
    <2>1. ASSUME src # Null, si < Len(src)
          PROVE  di + Len(Escape(src[si + 1])) >= dst_size
      <3>1. src \in Seq(Bytes) /\ si + 1 \in 1..Len(src)
        BY <1>1, <2>1 DEF Inv
      <3>2. Len(Escape(src[si + 1])) \in {1, 2, 6} /\ di \in Nat /\ dst_size \in Nat
        BY <1>1, <3>1, EscapeLength, ElementOfSeq, DstSizeNat DEF Inv, di
      <3>3. ~(di + 1 < dst_size)
        BY <1>4, <2>1 DEF LoopEnds, InLoop
      <3> QED
        BY <3>2, <3>3
    <2> QED
      BY <1>1, <1>4, <2>1 DEF LoopEnds, CopyInv, di, dst_size
  <1>5. CASE Emit
    BY <1>1, <1>5 DEF Emit, CopyInv, di, dst_size
  <1>6. CASE UNCHANGED vars
    BY <1>1, <1>6 DEF vars, CopyInv, di, dst_size
  <1> QED
    BY <1>2, <1>3, <1>4, <1>5, <1>6 DEF Next

\* What is written is the longest beginning of the query whose escaped form
\* fits, for every text and every size of the buffer.
THEOREM CopiesLongestPrefix == Spec => []LongestFittingPrefix
  <1>1. CopyInv => LongestFittingPrefix
    <2> SUFFICES ASSUME CopyInv, pc # "loop", src # Null
                 PROVE  /\ dst = Escaped(SubSeq(src, 1, si))
                        /\ si < Len(src) => Len(Escaped(SubSeq(src, 1, si + 1))) >= dst_size
      BY DEF LongestFittingPrefix
    <2>1. dst = Escaped(SubSeq(src, 1, si)) /\ dst \in Seq(Bytes) /\ src \in Seq(Bytes)
          /\ si \in Nat
      BY DEF CopyInv, Inv
    <2>2. ASSUME si < Len(src)
          PROVE  Len(Escaped(SubSeq(src, 1, si + 1))) >= dst_size
      <3>1. Escaped(SubSeq(src, 1, si + 1)) = dst \o Escape(src[si + 1])
        BY <2>1, <2>2, EscapedOneMore
      <3>2. si + 1 \in 1..Len(src)
        BY <2>1, <2>2
      <3>3. Escape(src[si + 1]) \in Seq(Bytes)
        BY <2>1, <3>2, EscapeLength, ElementOfSeq
      <3>4. Len(dst \o Escape(src[si + 1])) = Len(dst) + Len(Escape(src[si + 1]))
        BY <2>1, <3>3, ConcatProperties
      <3> QED
        BY <2>2, <3>1, <3>4 DEF CopyInv, di
    <2> QED
      BY <2>1, <2>2
  <1> QED
    BY <1>1, CopyInit, CopyNext, PTL DEF Spec

-----------------------------------------------------------------------------
(***************************************************************************)
(* What a reader of JSON strings makes of the escaped text.                *)
(***************************************************************************)

\* The equations of the function that Reader is defined with.
ReadUpTo(f, s, n) ==
  \A k \in 0..n : f[k] = IF k = 0 THEN NothingRead ELSE ReadByte(f[k-1], s[k])

\* That function exists.
LEMMA ReaderExists ==
  ASSUME NEW s \in Seq(Bytes)
  PROVE  \E f : f = [k \in 0..Len(s) |-> IF k = 0 THEN NothingRead ELSE ReadByte(f[k-1], s[k])]
  <1> DEFINE T == {n \in Nat : \E f : f = [k \in 0..n |-> f[k]] /\ ReadUpTo(f, s, n)}
  <1>1. 0 \in T
    <2> DEFINE first == [k \in 0..0 |-> NothingRead]
    <2>1. first = [k \in 0..0 |-> first[k]]
      OBVIOUS
    <2>2. \A k \in 0..0 : k = 0 /\ first[k] = NothingRead
      OBVIOUS
    <2> HIDE DEF first
    <2>3. ReadUpTo(first, s, 0)
      BY <2>2 DEF ReadUpTo
    <2> QED
      BY <2>1, <2>3
  <1>2. ASSUME NEW n \in T PROVE n + 1 \in T
    <2>1. n \in Nat
      OBVIOUS
    <2>2. PICK f : f = [k \in 0..n |-> f[k]] /\ ReadUpTo(f, s, n)
      OBVIOUS
    <2> DEFINE g == [k \in 0..(n + 1) |-> IF k <= n THEN f[k] ELSE ReadByte(f[k-1], s[k])]
    <2>3. ReadUpTo(g, s, n + 1)
      <3> SUFFICES ASSUME NEW k \in 0..(n + 1)
                   PROVE  g[k] = IF k = 0 THEN NothingRead ELSE ReadByte(g[k-1], s[k])
        BY DEF ReadUpTo
      <3>1. k # 0 => k - 1 \in 0..(n + 1) /\ k - 1 <= n /\ g[k-1] = f[k-1]
        BY <2>1
      <3>2. CASE k <= n
        <4>1. k \in 0..n /\ g[k] = f[k]
          BY <2>1, <3>2
        <4>2. f[k] = IF k = 0 THEN NothingRead ELSE ReadByte(f[k-1], s[k])
          BY <2>2, <4>1 DEF ReadUpTo
        <4> HIDE DEF g
        <4> QED
          BY <3>1, <4>1, <4>2
      <3>3. CASE ~(k <= n)
        <4>1. k # 0 /\ g[k] = ReadByte(f[k-1], s[k])
          BY <2>1, <3>3
        <4> HIDE DEF g
        <4> QED
          BY <3>1, <4>1
      <3> QED
        BY <3>2, <3>3
    <2>4. g = [k \in 0..(n + 1) |-> g[k]]
      OBVIOUS
    <2> HIDE DEF g
    <2> QED
      BY <2>1, <2>3, <2>4
  <1>3. T = Nat
    <2> HIDE DEF T
    <2>1. T \subseteq Nat
      BY DEF T
    <2> QED
      BY <1>1, <1>2, <2>1, AllNaturals
  <1>4. PICK f : f = [k \in 0..Len(s) |-> f[k]] /\ ReadUpTo(f, s, Len(s))
    BY <1>3, LenProperties
  <1>5. f = [k \in 0..Len(s) |-> IF k = 0 THEN NothingRead ELSE ReadByte(f[k-1], s[k])]
    BY <1>4 DEF ReadUpTo
  <1> QED
    BY <1>5

\* Where two texts agree, so do their functions.
LEMMA ReaderUnique ==
  ASSUME NEW s, NEW t, NEW n \in Nat, \A k \in 1..n : s[k] = t[k],
         NEW f, ReadUpTo(f, s, n), NEW g, ReadUpTo(g, t, n)
  PROVE  f[n] = g[n]
  <1> DEFINE T == {k \in Nat : k <= n => f[k] = g[k]}
  <1>1. 0 \in T
    BY DEF ReadUpTo
  <1>2. ASSUME NEW k \in T PROVE k + 1 \in T
    <2> SUFFICES ASSUME k + 1 <= n PROVE f[k + 1] = g[k + 1]
      OBVIOUS
    <2>1. k + 1 \in 0..n /\ k + 1 # 0 /\ k + 1 - 1 = k /\ k + 1 \in 1..n /\ k <= n
      OBVIOUS
    <2>2. /\ f[k + 1] = ReadByte(f[k + 1 - 1], s[k + 1])
          /\ g[k + 1] = ReadByte(g[k + 1 - 1], t[k + 1])
      BY <2>1 DEF ReadUpTo
    <2>3. f[k] = g[k] /\ s[k + 1] = t[k + 1]
      BY <2>1
    <2> QED
      BY <2>1, <2>2, <2>3
  <1>3. T = Nat
    <2> HIDE DEF T
    <2>1. T \subseteq Nat
      BY DEF T
    <2> QED
      BY <1>1, <1>2, <2>1, AllNaturals
  <1> QED
    BY <1>3

\* Reader by its equations.
LEMMA ReaderValue ==
  ASSUME NEW s \in Seq(Bytes)
  PROVE  \E f : ReadUpTo(f, s, Len(s)) /\ Reader(s) = f[Len(s)]
  <1> DEFINE F == CHOOSE f : f = [k \in 0..Len(s) |->
                                    IF k = 0 THEN NothingRead ELSE ReadByte(f[k-1], s[k])]
  <1>1. F = [k \in 0..Len(s) |-> IF k = 0 THEN NothingRead ELSE ReadByte(F[k-1], s[k])]
    BY ReaderExists
  <1>2. Reader(s) = F[Len(s)]
    BY DEF Reader
  <1> HIDE DEF F
  <1>3. ReadUpTo(F, s, Len(s))
    BY <1>1 DEF ReadUpTo
  <1> QED
    BY <1>2, <1>3

\* Nothing is read of nothing; of one more byte, what ReadByte says.
LEMMA ReaderOneMore ==
  /\ Reader(<< >>) = NothingRead
  /\ \A s \in Seq(Bytes), b \in Bytes : Reader(Append(s, b)) = ReadByte(Reader(s), b)
  <1>1. Reader(<< >>) = NothingRead
    <2>1. << >> \in Seq(Bytes) /\ Len(<< >>) = 0
      OBVIOUS
    <2>2. PICK f : ReadUpTo(f, << >>, 0) /\ Reader(<< >>) = f[0]
      BY <2>1, ReaderValue
    <2> QED
      BY <2>2 DEF ReadUpTo
  <1>2. ASSUME NEW s \in Seq(Bytes), NEW b \in Bytes
        PROVE  Reader(Append(s, b)) = ReadByte(Reader(s), b)
    <2> DEFINE t == Append(s, b)
               n == Len(s)
    <2>1. /\ t \in Seq(Bytes) /\ Len(t) = n + 1 /\ n \in Nat /\ t[n + 1] = b
          /\ \A k \in 1..n : t[k] = s[k]
      BY AppendProperties, LenProperties
    <2>2. PICK f : ReadUpTo(f, s, n) /\ Reader(s) = f[n]
      BY ReaderValue
    <2> HIDE DEF t, n
    <2>3. PICK g : ReadUpTo(g, t, n + 1) /\ Reader(t) = g[n + 1]
      BY <2>1, ReaderValue
    <2>4. ReadUpTo(g, t, n)
      BY <2>1, <2>3 DEF ReadUpTo
    <2>5. f[n] = g[n]
      BY <2>1, <2>2, <2>4, ReaderUnique
    <2>6. n + 1 \in 0..(n + 1) /\ n + 1 # 0 /\ n + 1 - 1 = n
      BY <2>1
    <2>7. g[n + 1] = ReadByte(g[n], b)
      BY <2>1, <2>3, <2>6 DEF ReadUpTo
    <2> QED
      BY <2>2, <2>3, <2>5, <2>7 DEF t
  <1> QED
    BY <1>1, <1>2

\* The reader's state when all was legal so far.
State(text, open) == [text |-> text, open |-> open, ok |-> TRUE]

\* A byte outside an escape.
LEMMA ReaderCopies ==
  ASSUME NEW s \in Seq(Bytes), NEW text, NEW b \in Bytes, Reader(s) = State(text, << >>),
         b \notin {"quote", "backslash", "LF", "CR", "TAB", "SOH"}
  PROVE  Reader(Append(s, b)) = State(Append(text, b), << >>)
  <1>1. Reader(Append(s, b)) = ReadByte(State(text, << >>), b)
    BY ReaderOneMore
  <1>2. ReadByte(State(text, << >>), b) = State(Append(text, b), << >>)
    BY DEF ReadByte, State
  <1> QED
    BY <1>1, <1>2

\* When a sequence is another one with an element appended.
LEMMA AppendIs ==
  ASSUME NEW S, NEW s \in Seq(S), NEW x \in S, NEW u \in Seq(S), Len(u) = Len(s) + 1,
         \A i \in 1..Len(s) : u[i] = s[i], u[Len(s) + 1] = x
  PROVE  Append(s, x) = u
  <1>1. /\ Append(s, x) \in Seq(S) /\ Len(Append(s, x)) = Len(s) + 1 /\ Len(s) \in Nat
        /\ \A i \in 1..Len(s) : Append(s, x)[i] = s[i]
        /\ Append(s, x)[Len(s) + 1] = x
    BY AppendProperties, LenProperties
  <1>2. \A i \in 1..Len(u) : Append(s, x)[i] = u[i]
    BY <1>1
  <1> QED
    BY <1>1, <1>2, SeqEqual

\* Appending to short tuples.
LEMMA Tuples ==
  ASSUME NEW S, NEW a \in S, NEW b \in S, NEW c \in S, NEW d \in S, NEW e \in S, NEW f \in S
  PROVE  /\ Append(<<a>>, b) = <<a, b>>
         /\ Append(<<a, b>>, c) = <<a, b, c>>
         /\ Append(<<a, b, c>>, d) = <<a, b, c, d>>
         /\ Append(<<a, b, c, d>>, e) = <<a, b, c, d, e>>
         /\ Append(<<a, b, c, d, e>>, f) = <<a, b, c, d, e, f>>
  <1>1. Append(<<a>>, b) = <<a, b>>
    <2> DEFINE s == <<a>>
               u == <<a, b>>
    <2>1. s \in Seq(S) /\ Len(s) = 1 /\ u \in Seq(S) /\ Len(u) = 2
      OBVIOUS
    <2>2. (\A i \in 1..1 : u[i] = s[i]) /\ u[2] = b
      OBVIOUS
    <2> HIDE DEF s, u
    <2>3. Len(u) = Len(s) + 1 /\ (\A i \in 1..Len(s) : u[i] = s[i]) /\ u[Len(s) + 1] = b
      BY <2>1, <2>2
    <2>4. Append(s, b) = u
      BY <2>1, <2>3, AppendIs
    <2> QED
      BY <2>4 DEF s, u
  <1>2. Append(<<a, b>>, c) = <<a, b, c>>
    <2> DEFINE s == <<a, b>>
               u == <<a, b, c>>
    <2>1. s \in Seq(S) /\ Len(s) = 2 /\ u \in Seq(S) /\ Len(u) = 3
      OBVIOUS
    <2>2. (\A i \in 1..2 : u[i] = s[i]) /\ u[3] = c
      OBVIOUS
    <2> HIDE DEF s, u
    <2>3. Len(u) = Len(s) + 1 /\ (\A i \in 1..Len(s) : u[i] = s[i]) /\ u[Len(s) + 1] = c
      BY <2>1, <2>2
    <2>4. Append(s, c) = u
      BY <2>1, <2>3, AppendIs
    <2> QED
      BY <2>4 DEF s, u
  <1>3. Append(<<a, b, c>>, d) = <<a, b, c, d>>
    <2> DEFINE s == <<a, b, c>>
               u == <<a, b, c, d>>
    <2>1. s \in Seq(S) /\ Len(s) = 3 /\ u \in Seq(S) /\ Len(u) = 4
      OBVIOUS
    <2>2. (\A i \in 1..3 : u[i] = s[i]) /\ u[4] = d
      OBVIOUS
    <2> HIDE DEF s, u
    <2>3. Len(u) = Len(s) + 1 /\ (\A i \in 1..Len(s) : u[i] = s[i]) /\ u[Len(s) + 1] = d
      BY <2>1, <2>2
    <2>4. Append(s, d) = u
      BY <2>1, <2>3, AppendIs
    <2> QED
      BY <2>4 DEF s, u
  <1>4. Append(<<a, b, c, d>>, e) = <<a, b, c, d, e>>
    <2> DEFINE s == <<a, b, c, d>>
               u == <<a, b, c, d, e>>
    <2>1. s \in Seq(S) /\ Len(s) = 4 /\ u \in Seq(S) /\ Len(u) = 5
      OBVIOUS
    <2>2. (\A i \in 1..4 : u[i] = s[i]) /\ u[5] = e
      OBVIOUS
    <2> HIDE DEF s, u
    <2>3. Len(u) = Len(s) + 1 /\ (\A i \in 1..Len(s) : u[i] = s[i]) /\ u[Len(s) + 1] = e
      BY <2>1, <2>2
    <2>4. Append(s, e) = u
      BY <2>1, <2>3, AppendIs
    <2> QED
      BY <2>4 DEF s, u
  <1>5. Append(<<a, b, c, d, e>>, f) = <<a, b, c, d, e, f>>
    <2> DEFINE s == <<a, b, c, d, e>>
               u == <<a, b, c, d, e, f>>
    <2>1. s \in Seq(S) /\ Len(s) = 5 /\ u \in Seq(S) /\ Len(u) = 6
      OBVIOUS
    <2>2. (\A i \in 1..5 : u[i] = s[i]) /\ u[6] = f
      OBVIOUS
    <2> HIDE DEF s, u
    <2>3. Len(u) = Len(s) + 1 /\ (\A i \in 1..Len(s) : u[i] = s[i]) /\ u[Len(s) + 1] = f
      BY <2>1, <2>2
    <2>4. Append(s, f) = u
      BY <2>1, <2>3, AppendIs
    <2> QED
      BY <2>4 DEF s, u
  <1> QED
    BY <1>1, <1>2, <1>3, <1>4, <1>5

\* The escapes, begun and complete.
LEMMA Meanings ==
  /\ Meaning(<<"backslash">>) = << >>
  /\ Meaning(<<"backslash", "quote">>) = <<"quote">> /\ Meaning(<<"backslash", "backslash">>) = <<"backslash">>
  /\ Meaning(<<"backslash", "n">>) = <<"LF">> /\ Meaning(<<"backslash", "r">>) = <<"CR">>
  /\ Meaning(<<"backslash", "t">>) = <<"TAB">>
  /\ Meaning(<<"backslash", "u">>) = << >> /\ Meaning(<<"backslash", "u", "0">>) = << >>
  /\ Meaning(<<"backslash", "u", "0", "0">>) = << >>
  /\ Meaning(<<"backslash", "u", "0", "0", "0">>) = << >>
  /\ Meaning(<<"backslash", "u", "0", "0", "0", "1">>) = <<"SOH">>
  BY DEF Meaning

\* The escape of a byte is read back as that byte.
LEMMA ReadsEscape ==
  ASSUME NEW s \in Seq(Bytes), NEW text \in Seq(Bytes), NEW c \in Bytes,
         Reader(s) = State(text, << >>)
  PROVE  Reader(s \o Escape(c)) = State(Append(text, c), << >>)
  <1> DEFINE one == Append(s, "backslash")
  <1>1. "backslash" \in Bytes /\ "u" \in Bytes /\ "0" \in Bytes /\ "1" \in Bytes
    BY DEF Bytes
  <1>2. one \in Seq(Bytes)
    BY <1>1, AppendProperties
  <1> DEFINE slash == <<"backslash">>
  <1>3. slash \in Seq(Bytes) /\ slash # << >> /\ Meaning(slash) = << >>
    BY <1>1, Meanings
  <1>4. slash = Append(<< >>, "backslash") /\ << >> \in Seq(Bytes)
    OBVIOUS
  <1>5. \A b \in Bytes : Append(slash, b) = <<"backslash", b>>
    BY <1>1, Tuples
  <1> HIDE DEF slash
  <1>6. Reader(one) = State(text, slash)
    <2>1. Reader(one) = ReadByte(State(text, << >>), "backslash")
      BY <1>1, ReaderOneMore
    <2>2. ReadByte(State(text, << >>), "backslash") = State(text, slash)
      BY <1>3, <1>4 DEF ReadByte, State
    <2> QED
      BY <2>1, <2>2
  <1>7. text \o <<c>> = Append(text, c)
    BY AppendIsConcat
  <1>8. ASSUME NEW b \in Bytes, Escape(c) = <<"backslash", b>>, Meaning(<<"backslash", b>>) = <<c>>
        PROVE  Reader(s \o Escape(c)) = State(Append(text, c), << >>)
    <2> DEFINE pair == <<"backslash", b>>
    <2>1. s \o pair = Append(one, b)
      BY <1>1
    <2>2. pair = Append(slash, b)
      BY <1>5
    <2>3. Meaning(pair) = <<c>> /\ Meaning(pair) # << >>
      <3>1. <<c>> # << >>
        OBVIOUS
      <3> QED
        BY <1>8, <3>1
    <2> HIDE DEF pair
    <2>4. Reader(Append(one, b)) = ReadByte(State(text, slash), b)
      BY <1>2, <1>6, ReaderOneMore
    <2>5. ReadByte(State(text, slash), b) = State(text \o Meaning(pair), << >>)
      BY <1>3, <2>2, <2>3 DEF ReadByte, State
    <2> QED
      BY <1>7, <1>8, <2>1, <2>3, <2>4, <2>5 DEF pair
  <1>9. CASE c = "SOH"
    <2> DEFINE two == Append(one, "u")
               three == Append(two, "0")
               four == Append(three, "0")
               five == Append(four, "0")
               o2 == <<"backslash", "u">>
               o3 == <<"backslash", "u", "0">>
               o4 == <<"backslash", "u", "0", "0">>
               o5 == <<"backslash", "u", "0", "0", "0">>
               o6 == <<"backslash", "u", "0", "0", "0", "1">>
    <2>1. two \in Seq(Bytes) /\ three \in Seq(Bytes) /\ four \in Seq(Bytes) /\ five \in Seq(Bytes)
      BY <1>1, <1>2, AppendProperties
    <2>2. /\ o3 = Append(o2, "0") /\ o4 = Append(o3, "0")
          /\ o5 = Append(o4, "0") /\ o6 = Append(o5, "1")
      BY <1>1, Tuples
    <2>3. o2 = Append(slash, "u")
      BY <1>1, <1>5
    <2>4. o2 \in Seq(Bytes) /\ o3 \in Seq(Bytes) /\ o4 \in Seq(Bytes) /\ o5 \in Seq(Bytes)
      BY <1>1
    <2>5. o2 # << >> /\ o3 # << >> /\ o4 # << >> /\ o5 # << >>
      OBVIOUS
    <2>6. /\ Meaning(o2) = << >> /\ Meaning(o3) = << >> /\ Meaning(o4) = << >>
          /\ Meaning(o5) = << >> /\ Meaning(o6) = <<"SOH">>
      BY Meanings
    <2>7. Meaning(o6) # << >>
      <3>1. <<"SOH">> # << >>
        OBVIOUS
      <3> QED
        BY <2>6, <3>1
    <2>8. s \o o6 = Append(five, "1")
      BY <1>1
    <2>9. Escape(c) = o6
      BY <1>9 DEF Escape
    <2> HIDE DEF one, two, three, four, five, o2, o3, o4, o5, o6
    <2>10. Reader(two) = State(text, o2)
      <3>1. Reader(two) = ReadByte(State(text, slash), "u")
        BY <1>1, <1>2, <1>6, ReaderOneMore DEF two
      <3> QED
        BY <1>3, <2>3, <2>6, <3>1 DEF ReadByte, State
    <2>11. Reader(three) = State(text, o3)
      <3>1. Reader(three) = ReadByte(State(text, o2), "0")
        BY <1>1, <2>1, <2>10, ReaderOneMore DEF three
      <3> QED
        BY <2>2, <2>5, <2>6, <3>1 DEF ReadByte, State
    <2>12. Reader(four) = State(text, o4)
      <3>1. Reader(four) = ReadByte(State(text, o3), "0")
        BY <1>1, <2>1, <2>11, ReaderOneMore DEF four
      <3> QED
        BY <2>2, <2>5, <2>6, <3>1 DEF ReadByte, State
    <2>13. Reader(five) = State(text, o5)
      <3>1. Reader(five) = ReadByte(State(text, o4), "0")
        BY <1>1, <2>1, <2>12, ReaderOneMore DEF five
      <3> QED
        BY <2>2, <2>5, <2>6, <3>1 DEF ReadByte, State
    <2>14. Reader(Append(five, "1")) = State(text \o Meaning(o6), << >>)
      <3>1. Reader(Append(five, "1")) = ReadByte(State(text, o5), "1")
        BY <1>1, <2>1, <2>13, ReaderOneMore
      <3> QED
        BY <2>2, <2>5, <2>7, <3>1 DEF ReadByte, State
    <2> QED
      BY <1>7, <1>9, <2>6, <2>8, <2>9, <2>14
  <1>10. CASE c \notin {"quote", "backslash", "LF", "CR", "TAB", "SOH"}
    <2>1. Escape(c) = <<c>>
      BY <1>10 DEF Escape
    <2>2. s \o <<c>> = Append(s, c)
      BY AppendIsConcat
    <2> QED
      BY <1>10, <2>1, <2>2, ReaderCopies
  <1>11. CASE c \in {"quote", "backslash", "LF", "CR", "TAB"}
    <2>1. \E b \in Bytes : Escape(c) = <<"backslash", b>> /\ Meaning(<<"backslash", b>>) = <<c>>
      <3>1. CASE c = "quote"
        BY <3>1, Meanings DEF Escape
      <3>2. CASE c = "backslash"
        BY <3>2, Meanings DEF Escape
      <3>3. CASE c = "LF"
        BY <3>3, Meanings DEF Escape, Bytes
      <3>4. CASE c = "CR"
        BY <3>4, Meanings DEF Escape, Bytes
      <3>5. CASE c = "TAB"
        BY <3>5, Meanings DEF Escape, Bytes
      <3> QED
        BY <1>11, <3>1, <3>2, <3>3, <3>4, <3>5
    <2> QED
      BY <1>8, <2>1
  <1> QED
    BY <1>9, <1>10, <1>11

\* What has been read of the query.
Kept == IF src = Null THEN << >> ELSE SubSeq(src, 1, si)

\* The reader gets what was read of the query, whenever it looks.
ReadInv == CopyInv /\ Reader(dst) = State(Kept, << >>)

\* Every branch of the loop keeps ReadInv.
LEMMA ReadNext == ReadInv /\ [Next]_vars => ReadInv'
  <1> SUFFICES ASSUME ReadInv, [Next]_vars PROVE ReadInv'
    OBVIOUS
  <1>1. Inv /\ CopyInv'
    BY CopyNext DEF ReadInv, CopyInv
  <1>2. CASE CopyByte \/ WriteEscape
    <2>1. InLoop /\ Write(Byte)
      BY <1>2 DEF CopyByte, WriteEscape
    <2>2. src \in Seq(Bytes) /\ si \in Nat /\ si < Len(src) /\ src # Null /\ Len(src) \in Nat
      BY <1>1, <2>1, LenProperties DEF Inv, InLoop
    <2>3. si \in 0..Len(src) /\ si + 1 \in 1..Len(src)
      BY <2>2
    <2>4. /\ SubSeq(src, 1, si) \in Seq(Bytes) /\ src[si + 1] \in Bytes
          /\ SubSeq(src, 1, si + 1) = Append(SubSeq(src, 1, si), src[si + 1])
      BY <2>2, <2>3, FirstBytes, ElementOfSeq
    <2>5. Reader(dst) = State(SubSeq(src, 1, si), << >>) /\ dst \in Seq(Bytes)
      BY <1>1, <2>2 DEF ReadInv, Kept, Inv
    <2>6. Reader(dst \o Escape(src[si + 1])) = State(SubSeq(src, 1, si + 1), << >>)
      BY <2>4, <2>5, ReadsEscape
    <2>7. dst' = dst \o Escape(src[si + 1]) /\ si' = si + 1 /\ src' = src
      BY <2>1 DEF Write, Byte
    <2>8. Kept' = SubSeq(src, 1, si + 1)
      BY <2>2, <2>7 DEF Kept
    <2>9. Reader(dst') = State(Kept', << >>)
      BY <2>6, <2>7, <2>8
    <2> QED
      BY <1>1, <2>9 DEF ReadInv
  <1>3. CASE UNCHANGED <<src, si, dst>>
    BY <1>1, <1>3 DEF ReadInv, Kept
  <1> QED
    BY <1>2, <1>3 DEF Next, Break, LoopEnds, Emit, vars

\* Read as a JSON string, the text gives back what was copied of the query,
\* wherever the buffer ended; only its last character can be cut, and only if
\* the query did not fit.
THEOREM TextReadsBack == Spec => []ReadsBack
  <1>1. Init => ReadInv
    <2> SUFFICES ASSUME Init PROVE ReadInv
      OBVIOUS
    <2>1. CopyInv /\ dst = << >> /\ si = 0
      BY CopyInit DEF Init
    <2>2. Kept = << >>
      <3>1. ASSUME src # Null PROVE SubSeq(src, 1, 0) = << >>
        <4>1. src \in Seq(Bytes)
          BY <2>1, <3>1 DEF CopyInv, Inv
        <4>2. SubSeq(src, 1, 0) \in Seq(Bytes) /\ Len(SubSeq(src, 1, 0)) = 0
          BY <4>1, FirstBytes, LenProperties
        <4> QED
          BY <4>2, EmptySeq
      <3> QED
        BY <2>1, <3>1 DEF Kept
    <2> QED
      BY <2>1, <2>2, ReaderOneMore DEF ReadInv, State, NothingRead
  <1>2. ReadInv /\ src \in Texts \union {Null} => ReadsBack
    <2> SUFFICES ASSUME ReadInv, src \in Texts \union {Null} PROVE ReadsBack
      OBVIOUS
    <2>1. LET r == Reader(dst) IN r.ok /\ r.open = << >> /\ r.text = Kept
      BY DEF ReadInv, State
    <2>2. ASSUME src # Null,
                 NEW k \in 1..Len(Kept),
                 Kept[k] = "lead", k = Len(Kept) \/ Kept[k + 1] # "cont"
          PROVE  k = Len(Kept) /\ si < Len(src)
      <3>1. /\ src \in Seq(Bytes) /\ src \in Texts /\ si \in Nat /\ si <= Len(src)
            /\ Kept = SubSeq(src, 1, si) /\ Len(src) \in Nat
        BY <2>2, LenProperties DEF ReadInv, CopyInv, Inv, Kept
      <3>2. Len(Kept) = si /\ \A m \in 1..si : Kept[m] = src[m]
        BY <3>1, FirstBytes
      <3>3. k < Len(src) /\ src[k + 1] = "cont"
        BY <2>2, <3>1, <3>2, EncodingAssumption
      <3> QED
        BY <2>2, <3>1, <3>2, <3>3
    <2>3. src # Null => Kept = SubSeq(src, 1, si)
      BY DEF Kept
    <2> QED
      BY <2>1, <2>2, <2>3 DEF ReadsBack
  <1>3. src \in Texts \union {Null} /\ [Next]_vars => (src \in Texts \union {Null})'
    BY DEF Next, CopyByte, WriteEscape, Write, Break, LoopEnds, Emit, vars
  <1>4. Init => src \in Texts \union {Null}
    BY DEF Init
  <1> QED
    BY <1>1, <1>2, <1>3, <1>4, ReadNext, PTL DEF Spec
=============================================================================
