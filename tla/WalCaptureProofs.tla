-------------------------- MODULE WalCaptureProofs --------------------------
(***************************************************************************)
(* Proofs about the WAL capture task, for every set of tables, limit of    *)
(* the poll and capacity of the channel, and for any number of             *)
(* transactions, failed queries, lost replies, restarts and server crashes. *)
(***************************************************************************)
EXTENDS WalCapture, SequenceTheorems, WellFoundedInduction, TLAPS

-----------------------------------------------------------------------------
(***************************************************************************)
(* Sequences in commit order.                                              *)
(***************************************************************************)

\* A transaction is a line of itself.
LEMMA ChangesAreLines ==
  /\ Changes \subseteq DecodedLines
  /\ Seq(Changes) \subseteq Seq(DecodedLines)
  /\ \A t \in DecodedLines : t.lsn \in Nat /\ t.gen \in Nat
  /\ \A t \in Changes : t.lsn \in Nat /\ t.gen \in Nat
  <1>1. Changes \subseteq DecodedLines
    BY DEF Changes, DecodedLines, LineTags
  <1>2. Seq(Changes) \subseteq Seq(DecodedLines)
    BY <1>1
  <1>3. \A t \in DecodedLines : t.lsn \in Nat /\ t.gen \in Nat
    BY DEF DecodedLines
  <1> QED
    BY <1>1, <1>2, <1>3

\* Two lines of the same transaction, handed out together.
Same(a, b) == a.gen = b.gen /\ a.lsn = b.lsn

\* The elements of st are those of s and, after them, those of t.
Joins(st, s, t) ==
  /\ \A k \in 1..Len(st) :
       \/ k \in 1..Len(s) /\ st[k] = s[k]
       \/ \E m \in 1..Len(t) : k = Len(s) + m /\ st[k] = t[m]
  /\ \A k \in 1..Len(s) : k \in 1..Len(st) /\ st[k] = s[k]
  /\ \A m \in 1..Len(t) : Len(s) + m \in 1..Len(st) /\ st[Len(s) + m] = t[m]

\* The elements of a concatenation.
LEMMA ConcatElements ==
  ASSUME NEW S, NEW s \in Seq(S), NEW t \in Seq(S)
  PROVE  /\ s \o t \in Seq(S)
         /\ Joins(s \o t, s, t)
         /\ Len(s) \in Nat /\ Len(t) \in Nat
  <1> DEFINE st == s \o t
  <1>1. Len(s) \in Nat /\ Len(t) \in Nat
    BY LenProperties
  <1>2. /\ st \in Seq(S) /\ Len(st) = Len(s) + Len(t)
        /\ \A i \in 1..Len(st) : st[i] = IF i <= Len(s) THEN s[i] ELSE t[i - Len(s)]
    BY ConcatProperties
  <1> HIDE DEF st
  <1>3. ASSUME NEW k \in 1..Len(st)
        PROVE  \/ k \in 1..Len(s) /\ st[k] = s[k]
               \/ \E m \in 1..Len(t) : k = Len(s) + m /\ st[k] = t[m]
    <2>1. CASE k <= Len(s)
      BY <1>1, <1>2, <2>1
    <2>2. CASE ~(k <= Len(s))
      <3>1. k - Len(s) \in 1..Len(t) /\ k = Len(s) + (k - Len(s)) /\ st[k] = t[k - Len(s)]
        BY <1>1, <1>2, <2>2
      <3> QED
        BY <3>1
    <2> QED
      BY <2>1, <2>2
  <1>4. \A k \in 1..Len(s) : k \in 1..Len(st) /\ st[k] = s[k]
    BY <1>1, <1>2
  <1>5. ASSUME NEW m \in 1..Len(t)
        PROVE  Len(s) + m \in 1..Len(st) /\ st[Len(s) + m] = t[m]
    <2>1. /\ Len(s) + m \in 1..Len(st) /\ ~(Len(s) + m <= Len(s))
          /\ (Len(s) + m) - Len(s) = m
      BY <1>1, <1>2
    <2> QED
      BY <1>2, <2>1
  <1> QED
    BY <1>1, <1>2, <1>3, <1>4, <1>5 DEF st, Joins

\* The elements of a sequence with its first elements dropped.
LEMMA DropElements ==
  ASSUME NEW S, NEW s \in Seq(S), NEW p \in 0..Len(s)
  PROVE  LET d == SubSeq(s, p + 1, Len(s)) IN
         /\ d \in Seq(S)
         /\ Len(d) = Len(s) - p
         /\ \A i \in 1..Len(d) : d[i] = s[p + i] /\ p + i \in 1..Len(s)
  <1> DEFINE d == SubSeq(s, p + 1, Len(s))
  <1>1. Len(s) \in Nat /\ p + 1 \in Int /\ Len(s) \in Int
    BY LenProperties
  <1>2. \A i \in (p + 1)..Len(s) : s[i] \in S
    BY <1>1, ElementOfSeq
  <1>3. /\ d \in Seq(S)
        /\ Len(d) = IF p + 1 <= Len(s) THEN Len(s) - (p + 1) + 1 ELSE 0
        /\ \A i \in 1..(Len(s) - (p + 1) + 1) : d[i] = s[(p + 1) + i - 1]
    BY <1>1, <1>2, SubSeqProperties
  <1> HIDE DEF d
  <1>4. Len(d) = Len(s) - p
    BY <1>1, <1>3
  <1>5. ASSUME NEW i \in 1..Len(d) PROVE d[i] = s[p + i] /\ p + i \in 1..Len(s)
    <2>1. i \in 1..(Len(s) - (p + 1) + 1) /\ (p + 1) + i - 1 = p + i
      BY <1>1, <1>4
    <2> QED
      BY <1>1, <1>3, <1>4, <2>1
  <1> QED
    BY <1>3, <1>4, <1>5 DEF d

\* Two runs in order, one before the other, are one run in order.
LEMMA ConcatInOrder ==
  ASSUME NEW s \in Seq(DecodedLines), NEW t \in Seq(DecodedLines),
         InOrder(s), InOrder(t), AllPrecede(s, t)
  PROVE  InOrder(s \o t)
  <1> DEFINE st == s \o t
  <1>0. Joins(st, s, t) /\ Len(s) \in Nat /\ Len(t) \in Nat
    BY ConcatElements
  <1> HIDE DEF st
  <1>1. /\ \A k \in 1..Len(st) :
             \/ k \in 1..Len(s) /\ st[k] = s[k]
             \/ \E m \in 1..Len(t) : k = Len(s) + m /\ st[k] = t[m]
        /\ Len(s) \in Nat /\ Len(t) \in Nat
    BY <1>0 DEF Joins
  <1> SUFFICES ASSUME NEW i \in 1..Len(st), NEW j \in 1..Len(st), i < j
               PROVE  Precedes(st[i], st[j])
    BY DEF InOrder, st
  <1>2. CASE i \in 1..Len(s) /\ st[i] = s[i]
    <2>1. CASE j \in 1..Len(s) /\ st[j] = s[j]
      BY <1>2, <2>1 DEF InOrder
    <2>2. CASE \E m \in 1..Len(t) : j = Len(s) + m /\ st[j] = t[m]
      BY <1>2, <2>2 DEF AllPrecede
    <2> QED
      BY <1>1, <2>1, <2>2
  <1>3. CASE \E m \in 1..Len(t) : i = Len(s) + m /\ st[i] = t[m]
    <2>1. PICK m \in 1..Len(t) : i = Len(s) + m /\ st[i] = t[m]
      BY <1>3
    <2>2. CASE j \in 1..Len(s)
      BY <1>1, <2>1, <2>2
    <2>3. CASE \E n \in 1..Len(t) : j = Len(s) + n /\ st[j] = t[n]
      <3>1. PICK n \in 1..Len(t) : j = Len(s) + n /\ st[j] = t[n]
        BY <2>3
      <3>2. m < n
        BY <1>1, <2>1, <3>1
      <3> QED
        BY <2>1, <3>1, <3>2 DEF InOrder
    <2> QED
      BY <1>1, <2>2, <2>3
  <1> QED
    BY <1>1, <1>2, <1>3

-----------------------------------------------------------------------------
(***************************************************************************)
(* What FlattenSeq computes.                                               *)
(***************************************************************************)

\* Induction, for a set: the naturals are the only set of naturals with 0 and
\* with every successor.
LEMMA AllNaturals ==
  ASSUME NEW T, T \subseteq Nat, 0 \in T, \A n \in T : n + 1 \in T
  PROVE  T = Nat
  <1> SUFFICES ASSUME Nat \ T # {} PROVE FALSE
    OBVIOUS
  <1>1. PICK x \in Nat \ T : \A y \in Nat \ T : ~(<<y, x>> \in OpToRel(<, Nat))
    BY NatLessThanWellFounded, WFMin
  <1>2. x - 1 \in Nat /\ x - 1 < x
    OBVIOUS
  <1>3. <<x - 1, x>> \in OpToRel(<, Nat)
    BY <1>1, <1>2 DEF OpToRel
  <1>4. x - 1 \in T
    BY <1>1, <1>2, <1>3
  <1>5. (x - 1) + 1 = x
    OBVIOUS
  <1> QED
    BY <1>1, <1>4, <1>5

\* The equations of the function that FlattenSeq is defined with.
FlatUpTo(f, s, n) ==
  \A i \in 1..n : f[i] = IF i = 1 THEN s[i] ELSE f[i-1] \o s[i]

\* That function exists.
LEMMA FlattenExists ==
  ASSUME NEW S, NEW s \in Seq(Seq(S))
  PROVE  \E f : f = [i \in 1..Len(s) |-> IF i = 1 THEN s[i] ELSE f[i-1] \o s[i]]
  <1> DEFINE T == {n \in Nat : n <= Len(s) =>
                     \E f : f = [i \in 1..n |-> f[i]] /\ FlatUpTo(f, s, n)}
  <1>1. 0 \in T
    <2> DEFINE none == [i \in 1..0 |-> 0]
    <2>1. none = [i \in 1..0 |-> none[i]]
      OBVIOUS
    <2> HIDE DEF none
    <2>2. FlatUpTo(none, s, 0)
      BY DEF FlatUpTo
    <2> QED
      BY <2>1, <2>2
  <1>2. ASSUME NEW n \in T PROVE n + 1 \in T
    <2> SUFFICES ASSUME n + 1 <= Len(s)
                 PROVE  \E g : g = [i \in 1..(n + 1) |-> g[i]] /\ FlatUpTo(g, s, n + 1)
      OBVIOUS
    <2>1. n \in Nat /\ n <= Len(s) /\ Len(s) \in Nat
      OBVIOUS
    <2>2. PICK f : f = [i \in 1..n |-> f[i]] /\ FlatUpTo(f, s, n)
      BY <2>1
    <2> DEFINE g == [i \in 1..(n + 1) |-> IF i <= n THEN f[i]
                                          ELSE IF i = 1 THEN s[i] ELSE f[i-1] \o s[i]]
    <2>3. FlatUpTo(g, s, n + 1)
      <3> SUFFICES ASSUME NEW i \in 1..(n + 1)
                   PROVE  g[i] = IF i = 1 THEN s[i] ELSE g[i-1] \o s[i]
        BY DEF FlatUpTo
      <3>1. i # 1 => i - 1 \in 1..(n + 1) /\ i - 1 <= n /\ g[i-1] = f[i-1]
        BY <2>1
      <3>2. CASE i <= n
        <4>1. i \in 1..n /\ g[i] = f[i]
          BY <2>1, <3>2
        <4>2. f[i] = IF i = 1 THEN s[i] ELSE f[i-1] \o s[i]
          BY <2>2, <4>1 DEF FlatUpTo
        <4> HIDE DEF g
        <4> QED
          BY <3>1, <4>1, <4>2
      <3>3. CASE ~(i <= n)
        <4>1. g[i] = IF i = 1 THEN s[i] ELSE f[i-1] \o s[i]
          BY <2>1, <3>3
        <4> HIDE DEF g
        <4> QED
          BY <3>1, <4>1
      <3> QED
        BY <3>2, <3>3
    <2>4. g = [i \in 1..(n + 1) |-> g[i]]
      OBVIOUS
    <2> HIDE DEF g
    <2> QED
      BY <2>3, <2>4
  <1>3. T = Nat
    <2> HIDE DEF T
    <2>1. T \subseteq Nat
      BY DEF T
    <2> QED
      BY <1>1, <1>2, <2>1, AllNaturals
  <1>4. PICK f : f = [i \in 1..Len(s) |-> f[i]] /\ FlatUpTo(f, s, Len(s))
    BY <1>3, LenProperties
  <1>5. f = [i \in 1..Len(s) |-> IF i = 1 THEN s[i] ELSE f[i-1] \o s[i]]
    BY <1>4 DEF FlatUpTo
  <1> QED
    BY <1>5

\* FlattenSeq by its equations.
LEMMA FlattenValue ==
  ASSUME NEW S, NEW s \in Seq(Seq(S)), Len(s) # 0
  PROVE  \E f : FlatUpTo(f, s, Len(s)) /\ FlattenSeq(s) = f[Len(s)]
  <1> DEFINE F == CHOOSE f : f = [i \in 1..Len(s) |-> IF i = 1 THEN s[i] ELSE f[i-1] \o s[i]]
  <1>1. F = [i \in 1..Len(s) |-> IF i = 1 THEN s[i] ELSE F[i-1] \o s[i]]
    BY FlattenExists
  <1>2. FlattenSeq(s) = F[Len(s)]
    BY DEF FlattenSeq
  <1> HIDE DEF F
  <1>3. FlatUpTo(F, s, Len(s))
    BY <1>1 DEF FlatUpTo
  <1> QED
    BY <1>2, <1>3

-----------------------------------------------------------------------------
(***************************************************************************)
(* The lines of a poll.                                                    *)
(***************************************************************************)

\* The lines of one transaction.
LEMMA LinesProperties ==
  ASSUME NEW t \in Changes
  PROVE  /\ Lines(t) \in Seq(DecodedLines)
         /\ Len(Lines(t)) = 3
         /\ Lines(t)[2] = t
         /\ \A i \in 1..3 : Same(Lines(t)[i], t)
         /\ \A i \in 1..3 : Parses(Lines(t)[i]) => i = 2
         /\ InOrder(Lines(t))
  <1> DEFINE b == [t EXCEPT !.tag = "BEGIN"]
             c == [t EXCEPT !.tag = "COMMIT"]
             x == <<b, t, c>>
  <1>1. b \in DecodedLines /\ c \in DecodedLines /\ t \in DecodedLines
    BY DEF Changes, DecodedLines, LineTags
  <1>2. Same(b, t) /\ Same(c, t) /\ Same(t, t) /\ b.tag = "BEGIN" /\ c.tag = "COMMIT"
    BY DEF Changes, Same
  <1> HIDE DEF b, c
  <1>4. /\ x \in Seq(DecodedLines) /\ Len(x) = 3
        /\ x[1] = b /\ x[2] = t /\ x[3] = c
    BY <1>1
  <1>5. Lines(t) = x
    BY DEF Lines, b, c
  <1> HIDE DEF x
  <1>6. \A i \in 1..3 : i = 1 \/ i = 2 \/ i = 3
    OBVIOUS
  <1>7. \A i \in 1..3 : Same(x[i], t)
    BY <1>2, <1>4, <1>6
  <1>8. \A i \in 1..3 : Parses(x[i]) => i = 2
    BY <1>2, <1>4, <1>6 DEF Parses
  <1>9. InOrder(x)
    <2> SUFFICES ASSUME NEW i \in 1..3, NEW j \in 1..3, i < j
                 PROVE  Precedes(x[i], x[j])
      BY <1>4 DEF InOrder
    <2>1. Same(x[i], t) /\ Same(x[j], t)
      BY <1>7
    <2>2. ~(Parses(x[i]) /\ Parses(x[j]))
      BY <1>8
    <2> QED
      BY <2>1, <2>2 DEF Precedes, Same
  <1> QED
    BY <1>4, <1>5, <1>7, <1>8, <1>9

\* g is what the first n transactions of w look like: lines in commit order,
\* each of one of the n, and each of the n among them.
Decoded(g, w, n) ==
  /\ g \in Seq(DecodedLines)
  /\ InOrder(g)
  /\ \A k \in 1..Len(g) : \E i \in 1..n : Same(g[k], w[i])
  /\ \A i \in 1..n : \E k \in 1..Len(g) : g[k] = w[i]

\* One more transaction.
LEMMA DecodeNext ==
  ASSUME NEW w \in Seq(Changes), Increasing(w), NEW n \in Nat, n + 1 <= Len(w),
         NEW g, Decoded(g, w, n)
  PROVE  Decoded(g \o Lines(w[n + 1]), w, n + 1)
  <1> DEFINE t == Lines(w[n + 1])
             gt == g \o t
  <1>1. n + 1 \in 1..Len(w) /\ w[n + 1] \in Changes
    <2>1. Len(w) \in Nat
      BY LenProperties
    <2>2. n + 1 \in 1..Len(w)
      BY <2>1
    <2> QED
      BY <2>2, ElementOfSeq
  <1>2. /\ t \in Seq(DecodedLines) /\ Len(t) = 3 /\ t[2] = w[n + 1]
        /\ \A i \in 1..3 : Same(t[i], w[n + 1])
        /\ InOrder(t)
    BY <1>1, LinesProperties
  <1> HIDE DEF t
  <1>3. /\ g \in Seq(DecodedLines) /\ InOrder(g)
        /\ \A k \in 1..Len(g) : \E i \in 1..n : Same(g[k], w[i])
        /\ \A i \in 1..n : \E k \in 1..Len(g) : g[k] = w[i]
    BY DEF Decoded
  <1>4. AllPrecede(g, t)
    <2> SUFFICES ASSUME NEW i \in 1..Len(g), NEW j \in 1..3
                 PROVE  Precedes(g[i], t[j])
      BY <1>2 DEF AllPrecede
    <2>1. PICK k \in 1..n : Same(g[i], w[k])
      BY <1>3
    <2>2. k \in 1..Len(w) /\ k < n + 1
      BY <1>1
    <2>3. Before(w[k], w[n + 1])
      BY <1>1, <2>2 DEF Increasing
    <2>4. Same(t[j], w[n + 1])
      BY <1>2
    <2> QED
      BY <2>1, <2>3, <2>4 DEF Precedes, Before, Same
  <1>5. InOrder(gt)
    BY <1>2, <1>3, <1>4, ConcatInOrder
  <1>0. gt \in Seq(DecodedLines) /\ Joins(gt, g, t)
    BY <1>2, <1>3, ConcatElements
  <1> HIDE DEF gt
  <1>6. /\ gt \in Seq(DecodedLines)
        /\ \A k \in 1..Len(gt) :
             \/ k \in 1..Len(g) /\ gt[k] = g[k]
             \/ \E m \in 1..Len(t) : k = Len(g) + m /\ gt[k] = t[m]
        /\ \A k \in 1..Len(g) : k \in 1..Len(gt) /\ gt[k] = g[k]
        /\ \A m \in 1..Len(t) :
             Len(g) + m \in 1..Len(gt) /\ gt[Len(g) + m] = t[m]
    BY <1>0 DEF Joins
  <1>7. ASSUME NEW k \in 1..Len(gt) PROVE \E i \in 1..(n + 1) : Same(gt[k], w[i])
    <2>1. CASE k \in 1..Len(g) /\ gt[k] = g[k]
      <3>1. PICK i \in 1..n : Same(g[k], w[i])
        BY <1>3, <2>1
      <3>2. i \in 1..(n + 1)
        OBVIOUS
      <3> QED
        BY <2>1, <3>1, <3>2
    <2>2. CASE \E m \in 1..Len(t) : gt[k] = t[m]
      <3>1. Same(gt[k], w[n + 1])
        BY <1>2, <2>2
      <3>2. n + 1 \in 1..(n + 1)
        OBVIOUS
      <3> QED
        BY <3>1, <3>2
    <2> QED
      BY <1>6, <2>1, <2>2
  <1>8. ASSUME NEW i \in 1..(n + 1) PROVE \E k \in 1..Len(gt) : gt[k] = w[i]
    <2>1. CASE i = n + 1
      <3>1. 2 \in 1..Len(t)
        BY <1>2
      <3>2. Len(g) + 2 \in 1..Len(gt) /\ gt[Len(g) + 2] = w[n + 1]
        BY <1>2, <1>6, <3>1
      <3> QED
        BY <2>1, <3>2
    <2>2. CASE i # n + 1
      <3>1. i \in 1..n
        BY <2>2
      <3>2. PICK k \in 1..Len(g) : g[k] = w[i]
        BY <1>3, <3>1
      <3> QED
        BY <1>6, <3>2
    <2> QED
      BY <2>1, <2>2
  <1> QED
    BY <1>5, <1>6, <1>7, <1>8 DEF Decoded, gt, t

\* What a poll that takes the first n transactions of w returns.
LEMMA PollDecodes ==
  ASSUME NEW w \in Seq(Changes), Increasing(w), NEW n \in Nat, 1 <= n, n <= Len(w)
  PROVE  Decoded(FlattenSeq([i \in 1..n |-> Lines(w[i])]), w, n)
  <1> DEFINE s == [i \in 1..n |-> Lines(w[i])]
  <1>1. Len(w) \in Nat
    BY LenProperties
  <1>2. \A i \in 1..n : i \in 1..Len(w) /\ w[i] \in Changes
    BY <1>1, ElementOfSeq
  <1>3. \A i \in 1..n : Lines(w[i]) \in Seq(DecodedLines)
    BY <1>2, LinesProperties
  <1>4. s \in Seq(Seq(DecodedLines)) /\ Len(s) = n /\ \A i \in 1..n : s[i] = Lines(w[i])
    BY <1>3
  <1> HIDE DEF s
  <1>5. PICK f : FlatUpTo(f, s, n) /\ FlattenSeq(s) = f[n]
    BY <1>4, FlattenValue
  <1>6. \A i \in 1..n : f[i] = IF i = 1 THEN Lines(w[i]) ELSE f[i-1] \o Lines(w[i])
    BY <1>4, <1>5 DEF FlatUpTo
  <1>7. Decoded(<< >>, w, 0)
    BY DEF Decoded, InOrder
  <1> DEFINE T == {m \in Nat : m + 1 <= n => Decoded(f[m + 1], w, m + 1)}
  <1>8. 0 \in T
    <2>1. 0 + 1 <= Len(w) /\ 1 \in 1..n
      BY <1>1
    <2>2. Decoded(<< >> \o Lines(w[0 + 1]), w, 0 + 1)
      BY <1>7, <2>1, DecodeNext
    <2>3. Lines(w[1]) \in Seq(DecodedLines)
      BY <1>3, <2>1
    <2>4. << >> \o Lines(w[1]) = Lines(w[1])
      BY <2>3, ConcatEmptySeq
    <2>5. f[1] = Lines(w[1])
      BY <1>6, <2>1
    <2>6. Decoded(f[0 + 1], w, 0 + 1)
      BY <2>2, <2>4, <2>5
    <2> QED
      BY <2>6
  <1>9. ASSUME NEW m \in T PROVE m + 1 \in T
    <2> SUFFICES ASSUME m + 1 + 1 <= n PROVE Decoded(f[m + 1 + 1], w, m + 1 + 1)
      OBVIOUS
    <2>1. /\ m + 1 \in Nat /\ m + 1 <= n /\ (m + 1) + 1 <= Len(w)
          /\ m + 1 + 1 \in 1..n /\ m + 1 + 1 # 1 /\ (m + 1 + 1) - 1 = m + 1
      BY <1>1
    <2>2. Decoded(f[m + 1], w, m + 1)
      BY <2>1
    <2>3. Decoded(f[m + 1] \o Lines(w[(m + 1) + 1]), w, (m + 1) + 1)
      BY <2>1, <2>2, DecodeNext
    <2>4. f[m + 1 + 1] = f[m + 1] \o Lines(w[m + 1 + 1])
      BY <1>6, <2>1
    <2> QED
      BY <2>3, <2>4
  <1>10. T = Nat
    <2> HIDE DEF T
    <2>1. T \subseteq Nat
      BY DEF T
    <2> QED
      BY <1>8, <1>9, <2>1, AllNaturals
  <1>11. n - 1 \in Nat /\ (n - 1) + 1 = n
    OBVIOUS
  <1>12. Decoded(f[(n - 1) + 1], w, (n - 1) + 1)
    <2>1. \A m \in Nat : m + 1 <= n => Decoded(f[m + 1], w, m + 1)
      BY <1>10
    <2>2. (n - 1) + 1 <= n
      OBVIOUS
    <2> HIDE DEF T
    <2> QED
      BY <1>11, <2>1, <2>2
  <1> QED
    BY <1>5, <1>11, <1>12 DEF s

-----------------------------------------------------------------------------
(***************************************************************************)
(* How the order of a sequence passes on to the sequences made of it.      *)
(***************************************************************************)

\* Every element of t is an element of s at the same place, or later in s.
LaterPart(t, s) ==
  \E p \in Nat : \A i \in 1..Len(t) : p + i \in 1..Len(s) /\ t[i] = s[p + i]

\* A later part of a sequence inherits what is known of the whole.
LEMMA PartInherits ==
  ASSUME NEW s \in Seq(DecodedLines), NEW t \in Seq(DecodedLines), LaterPart(t, s)
  PROVE  /\ InOrder(s) => InOrder(t)
         /\ Increasing(s) => Increasing(t)
         /\ \A r : AllPrecede(r, s) => AllPrecede(r, t)
         /\ \A r : AllBefore(r, s) => AllBefore(r, t)
         /\ \A r : AllBefore(s, r) => AllBefore(t, r)
         /\ \A r : AllPrecede(s, r) => AllPrecede(t, r)
         /\ \A n, c : UpTo(s, n, c) => UpTo(t, n, c)
         /\ \A c : OfGen(s, c) => OfGen(t, c)
  <1>1. PICK p \in Nat : \A i \in 1..Len(t) : p + i \in 1..Len(s) /\ t[i] = s[p + i]
    BY DEF LaterPart
  <1>2. Len(t) \in Nat /\ Len(s) \in Nat
    BY LenProperties
  <1>3. \A i, j \in 1..Len(t) : i < j => p + i < p + j
    BY <1>2
  <1>4. InOrder(s) => InOrder(t)
    BY <1>1, <1>3 DEF InOrder
  <1>5. Increasing(s) => Increasing(t)
    BY <1>1, <1>3 DEF Increasing
  <1>6. \A r : AllPrecede(r, s) => AllPrecede(r, t)
    BY <1>1 DEF AllPrecede
  <1>7. \A r : AllBefore(r, s) => AllBefore(r, t)
    BY <1>1 DEF AllBefore
  <1>8. \A r : AllBefore(s, r) => AllBefore(t, r)
    BY <1>1 DEF AllBefore
  <1>9. \A r : AllPrecede(s, r) => AllPrecede(t, r)
    BY <1>1 DEF AllPrecede
  <1>10. \A n, c : UpTo(s, n, c) => UpTo(t, n, c)
    BY <1>1 DEF UpTo
  <1>11. \A c : OfGen(s, c) => OfGen(t, c)
    BY <1>1 DEF OfGen
  <1> QED
    BY <1>4, <1>5, <1>6, <1>7, <1>8, <1>9, <1>10, <1>11

\* Nothing is known of the empty sequence, and all of it holds.
LEMMA EmptyInherits ==
  /\ InOrder(<< >>) /\ Increasing(<< >>) /\ AllParse(<< >>)
  /\ \A r : AllPrecede(r, << >>) /\ AllPrecede(<< >>, r)
  /\ \A r : AllBefore(r, << >>) /\ AllBefore(<< >>, r)
  /\ \A n, c : UpTo(<< >>, n, c) /\ OfGen(<< >>, c)
  BY DEF InOrder, Increasing, AllParse, AllPrecede, AllBefore, UpTo, OfGen

\* One transaction taken off a sequence of lines.
LEMMA HeadAndTail ==
  ASSUME NEW s \in Seq(DecodedLines), s # << >>
  PROVE  /\ Head(s) \in DecodedLines /\ Tail(s) \in Seq(DecodedLines)
         /\ Head(s) = s[1] /\ 1 \in 1..Len(s)
         /\ <<Head(s)>> \in Seq(DecodedLines) /\ Len(<<Head(s)>>) = 1
         /\ <<Head(s)>>[1] = Head(s)
         /\ LaterPart(Tail(s), s)
         /\ LaterPart(<<Head(s)>>, s)
         /\ InOrder(s) => AllPrecede(<<Head(s)>>, Tail(s))
         /\ \A i \in 1..Len(s) : i = 1 \/ \E k \in 1..Len(Tail(s)) : Tail(s)[k] = s[i]
  <1> DEFINE h == Head(s)
             t == Tail(s)
             g == <<h>>
  <1>1. /\ h \in DecodedLines /\ h = s[1]
        /\ t \in Seq(DecodedLines)
        /\ Len(s) \in Nat /\ Len(s) >= 1 /\ Len(t) = Len(s) - 1
        /\ \A i \in 1..Len(t) : t[i] = s[i + 1]
    BY HeadTailProperties, LenProperties, EmptySeq
  <1> HIDE DEF h, t
  <1>2. g \in Seq(DecodedLines) /\ Len(g) = 1 /\ g[1] = h
    BY <1>1
  <1> HIDE DEF g
  <1>3. 1 \in 1..Len(s)
    BY <1>1
  <1>4. LaterPart(t, s)
    <2>1. 1 \in Nat /\ \A i \in 1..Len(t) : 1 + i \in 1..Len(s) /\ t[i] = s[1 + i]
      BY <1>1
    <2> QED
      BY <2>1 DEF LaterPart
  <1>5. LaterPart(g, s)
    <2>1. \A i \in 1..Len(g) : i = 1
      BY <1>2
    <2>2. 0 \in Nat /\ 0 + 1 = 1
      OBVIOUS
    <2>3. \A i \in 1..Len(g) : 0 + i \in 1..Len(s) /\ g[i] = s[0 + i]
      BY <1>1, <1>2, <1>3, <2>1, <2>2
    <2> QED
      BY <2>2, <2>3 DEF LaterPart
  <1>6. ASSUME InOrder(s) PROVE AllPrecede(g, t)
    <2> SUFFICES ASSUME NEW i \in 1..Len(g), NEW j \in 1..Len(t)
                 PROVE  Precedes(g[i], t[j])
      BY DEF AllPrecede
    <2>1. i = 1 /\ g[i] = s[1]
      BY <1>1, <1>2
    <2>2. j + 1 \in 1..Len(s) /\ t[j] = s[j + 1] /\ 1 < j + 1
      BY <1>1
    <2> QED
      BY <1>3, <1>6, <2>1, <2>2 DEF InOrder
  <1>7. ASSUME NEW i \in 1..Len(s), i # 1
        PROVE  \E k \in 1..Len(t) : t[k] = s[i]
    <2>1. i - 1 \in 1..Len(t) /\ (i - 1) + 1 = i
      BY <1>1, <1>7
    <2>2. t[i - 1] = s[i]
      BY <1>1, <2>1
    <2> QED
      BY <2>1, <2>2
  <1> QED
    BY <1>1, <1>2, <1>3, <1>4, <1>5, <1>6, <1>7 DEF h, t, g

\* Everything before the first of two runs is before both.
LEMMA ConcatInherits ==
  ASSUME NEW s \in Seq(DecodedLines), NEW t \in Seq(DecodedLines)
  PROVE  /\ AllParse(s) /\ AllParse(t) => AllParse(s \o t)
         /\ \A r : AllPrecede(s, r) /\ AllPrecede(t, r) => AllPrecede(s \o t, r)
         /\ \A r : AllBefore(s, r) /\ AllBefore(t, r) => AllBefore(s \o t, r)
         /\ \A n, c : UpTo(s, n, c) /\ UpTo(t, n, c) => UpTo(s \o t, n, c)
         /\ \A c : OfGen(s, c) /\ OfGen(t, c) => OfGen(s \o t, c)
  <1> DEFINE st == s \o t
  <1>1. Joins(st, s, t)
    BY ConcatElements
  <1> HIDE DEF st
  <1>2. \A k \in 1..Len(st) : \/ \E m \in 1..Len(s) : st[k] = s[m]
                              \/ \E m \in 1..Len(t) : st[k] = t[m]
    BY <1>1 DEF Joins
  <1>3. AllParse(s) /\ AllParse(t) => AllParse(st)
    BY <1>2 DEF AllParse
  <1>4. \A r : AllPrecede(s, r) /\ AllPrecede(t, r) => AllPrecede(st, r)
    <2> TAKE r
    <2> SUFFICES ASSUME AllPrecede(s, r), AllPrecede(t, r),
                        NEW k \in 1..Len(st), NEW j \in 1..Len(r)
                 PROVE  Precedes(st[k], r[j])
      BY DEF AllPrecede
    <2> QED
      BY <1>2 DEF AllPrecede
  <1>5. \A r : AllBefore(s, r) /\ AllBefore(t, r) => AllBefore(st, r)
    <2> TAKE r
    <2> SUFFICES ASSUME AllBefore(s, r), AllBefore(t, r),
                        NEW k \in 1..Len(st), NEW j \in 1..Len(r)
                 PROVE  Before(st[k], r[j])
      BY DEF AllBefore
    <2> QED
      BY <1>2 DEF AllBefore
  <1>6. \A n, c : UpTo(s, n, c) /\ UpTo(t, n, c) => UpTo(st, n, c)
    BY <1>2 DEF UpTo
  <1>7. \A c : OfGen(s, c) /\ OfGen(t, c) => OfGen(st, c)
    BY <1>2 DEF OfGen
  <1> QED
    BY <1>3, <1>4, <1>5, <1>6, <1>7 DEF st

\* Appending a transaction with a new LSN.
LEMMA AppendChange ==
  ASSUME NEW n \in Nat, NEW g \in Nat, NEW w \in Seq(Changes),
         NEW c \in Changes, c.lsn = n + 1, c.gen = g,
         Increasing(w), UpTo(w, n, g)
  PROVE  /\ Append(w, c) \in Seq(Changes)
         /\ Increasing(Append(w, c))
         /\ UpTo(Append(w, c), n + 1, g)
         /\ OfGen(w, g) => OfGen(Append(w, c), g)
         /\ \A s \in Seq(DecodedLines) :
              AllBefore(s, w) /\ UpTo(s, n, g) => AllBefore(s, Append(w, c))
         /\ \A i \in 1..Len(w) : \E k \in 1..Len(Append(w, c)) : Append(w, c)[k] = w[i]
  <1> DEFINE v == Append(w, c)
  <1>1. /\ v \in Seq(Changes) /\ Len(v) = Len(w) + 1 /\ Len(w) \in Nat
        /\ \A i \in 1..Len(w) : v[i] = w[i]
        /\ v[Len(w) + 1] = c
    BY AppendProperties, LenProperties
  <1> HIDE DEF v
  <1>2. \A i \in 1..Len(v) : i \in 1..Len(w) \/ i = Len(w) + 1
    BY <1>1
  <1>3. ASSUME NEW s \in Seq(DecodedLines), UpTo(s, n, g), NEW i \in 1..Len(s)
        PROVE  Before(s[i], c) /\ s[i].lsn <= n + 1 /\ s[i].gen <= g
    <2>1. s[i] \in DecodedLines
      BY ElementOfSeq
    <2>2. s[i].lsn \in Nat /\ s[i].gen \in Nat
      BY <2>1, ChangesAreLines
    <2>3. s[i].lsn <= n /\ s[i].gen <= g
      BY <1>3 DEF UpTo
    <2> QED
      BY <2>2, <2>3 DEF Before
  <1>4. ASSUME NEW i \in 1..Len(w)
        PROVE  Before(w[i], c) /\ w[i].lsn <= n + 1 /\ w[i].gen <= g
    <2>1. w \in Seq(DecodedLines)
      BY ChangesAreLines
    <2> QED
      BY <1>3, <2>1
  <1>5. Increasing(v)
    <2> SUFFICES ASSUME NEW i \in 1..Len(v), NEW j \in 1..Len(v), i < j
                 PROVE  Before(v[i], v[j])
      BY DEF Increasing
    <2>1. i \in 1..Len(w)
      BY <1>1
    <2>2. CASE j \in 1..Len(w)
      BY <1>1, <2>1, <2>2 DEF Increasing
    <2>3. CASE j = Len(w) + 1
      BY <1>1, <1>4, <2>1, <2>3
    <2> QED
      BY <1>2, <2>2, <2>3
  <1>6. UpTo(v, n + 1, g)
    <2> SUFFICES ASSUME NEW i \in 1..Len(v)
                 PROVE  v[i].lsn <= n + 1 /\ v[i].gen <= g
      BY DEF UpTo
    <2>1. CASE i \in 1..Len(w)
      BY <1>1, <1>4, <2>1
    <2>2. CASE i = Len(w) + 1
      BY <1>1, <2>2
    <2> QED
      BY <1>2, <2>1, <2>2
  <1>7. OfGen(w, g) => OfGen(v, g)
    BY <1>1, <1>2 DEF OfGen
  <1>8. ASSUME NEW s \in Seq(DecodedLines), AllBefore(s, w), UpTo(s, n, g)
        PROVE  AllBefore(s, v)
    <2> SUFFICES ASSUME NEW i \in 1..Len(s), NEW j \in 1..Len(v)
                 PROVE  Before(s[i], v[j])
      BY DEF AllBefore
    <2>1. CASE j \in 1..Len(w)
      BY <1>1, <1>8, <2>1 DEF AllBefore
    <2>2. CASE j = Len(w) + 1
      BY <1>1, <1>3, <1>8, <2>2
    <2> QED
      BY <1>2, <2>1, <2>2
  <1>9. \A i \in 1..Len(w) : \E k \in 1..Len(v) : v[k] = w[i]
    <2> TAKE i \in 1..Len(w)
    <2>1. i \in 1..Len(v) /\ v[i] = w[i]
      BY <1>1
    <2> QED
      BY <2>1
  <1> QED
    BY <1>1, <1>5, <1>6, <1>7, <1>8, <1>9 DEF v

\* Two increasing runs, one before the other, are one increasing run.
LEMMA ConcatIncreasing ==
  ASSUME NEW s \in Seq(DecodedLines), NEW t \in Seq(DecodedLines),
         Increasing(s), Increasing(t), AllBefore(s, t)
  PROVE  Increasing(s \o t)
  <1> DEFINE st == s \o t
  <1>1. Joins(st, s, t) /\ Len(s) \in Nat /\ Len(t) \in Nat
    BY ConcatElements
  <1> HIDE DEF st
  <1>2. /\ \A k \in 1..Len(st) :
             \/ k \in 1..Len(s) /\ st[k] = s[k]
             \/ \E m \in 1..Len(t) : k = Len(s) + m /\ st[k] = t[m]
        /\ Len(s) \in Nat /\ Len(t) \in Nat
    BY <1>1 DEF Joins
  <1> SUFFICES ASSUME NEW i \in 1..Len(st), NEW j \in 1..Len(st), i < j
               PROVE  Before(st[i], st[j])
    BY DEF Increasing, st
  <1>3. CASE i \in 1..Len(s) /\ st[i] = s[i]
    <2>1. CASE j \in 1..Len(s) /\ st[j] = s[j]
      BY <1>3, <2>1 DEF Increasing
    <2>2. CASE \E m \in 1..Len(t) : j = Len(s) + m /\ st[j] = t[m]
      BY <1>3, <2>2 DEF AllBefore
    <2> QED
      BY <1>2, <2>1, <2>2
  <1>4. CASE \E m \in 1..Len(t) : i = Len(s) + m /\ st[i] = t[m]
    <2>1. PICK m \in 1..Len(t) : i = Len(s) + m /\ st[i] = t[m]
      BY <1>4
    <2>2. CASE j \in 1..Len(s)
      BY <1>2, <2>1, <2>2
    <2>3. CASE \E n \in 1..Len(t) : j = Len(s) + n /\ st[j] = t[n]
      <3>1. PICK n \in 1..Len(t) : j = Len(s) + n /\ st[j] = t[n]
        BY <2>3
      <3>2. m < n
        BY <1>2, <2>1, <3>1
      <3> QED
        BY <2>1, <3>1, <3>2 DEF Increasing
    <2> QED
      BY <1>2, <2>2, <2>3
  <1> QED
    BY <1>2, <1>3, <1>4

\* x is what the slot hands out again of v, after crash g + 1.
Again(x, v, n, g) ==
  /\ x \in Seq(Changes) /\ Increasing(x)
  /\ OfGen(x, g + 1) /\ UpTo(x, n, g + 1)
  /\ \A s \in Seq(DecodedLines) : UpTo(s, n, g) => AllBefore(s, x)
  /\ \A i \in 1..Len(v) : \E k \in 1..Len(x) :
       x[k].lsn = v[i].lsn /\ x[k].tag = v[i].tag

\* What a crash puts back into the slot: the same transactions in the same order,
\* after everything that was handed out before it.
LEMMA RereadInOrder ==
  ASSUME NEW n, NEW g \in Nat, NEW v \in Seq(Changes), Increasing(v),
         OfGen(v, g), UpTo(v, n, g)
  PROVE  Again(Reread(v, g + 1), v, n, g)
  <1> DEFINE x == Reread(v, g + 1)
  <1>1. Len(v) \in Nat /\ g + 1 \in Nat
    BY LenProperties
  <1>2. ASSUME NEW i \in 1..Len(v)
        PROVE  /\ x[i] \in Changes /\ x[i].gen = g + 1
               /\ x[i].lsn = v[i].lsn /\ x[i].tag = v[i].tag
    <2>1. v[i] \in Changes
      BY ElementOfSeq
    <2>2. x[i] = [v[i] EXCEPT !.gen = g + 1]
      BY DEF Reread
    <2> HIDE DEF x
    <2> QED
      BY <1>1, <2>1, <2>2 DEF Changes
  <1>3. x \in Seq(Changes) /\ Len(x) = Len(v)
    <2>1. x \in [1..Len(v) -> Changes]
      BY <1>2 DEF Reread
    <2> HIDE DEF x
    <2> QED
      BY <1>1, <2>1
  <1> HIDE DEF x
  <1>4. Increasing(x)
    <2> SUFFICES ASSUME NEW i \in 1..Len(v), NEW j \in 1..Len(v), i < j
                 PROVE  Before(x[i], x[j])
      BY <1>3 DEF Increasing
    <2>1. Before(v[i], v[j]) /\ v[i].gen = g /\ v[j].gen = g
      BY DEF Increasing, OfGen
    <2>2. v[i].lsn < v[j].lsn
      BY <2>1 DEF Before
    <2> QED
      BY <1>2, <2>2 DEF Before
  <1>5. OfGen(x, g + 1)
    BY <1>2, <1>3 DEF OfGen
  <1>6. UpTo(x, n, g + 1)
    <2> SUFFICES ASSUME NEW i \in 1..Len(v)
                 PROVE  x[i].lsn <= n /\ x[i].gen <= g + 1
      BY <1>3 DEF UpTo
    <2>1. x[i].lsn <= n
      BY <1>2 DEF UpTo
    <2>2. x[i].gen <= g + 1
      BY <1>1, <1>2
    <2> QED
      BY <2>1, <2>2
  <1>7. ASSUME NEW s \in Seq(DecodedLines), UpTo(s, n, g) PROVE AllBefore(s, x)
    <2> SUFFICES ASSUME NEW i \in 1..Len(s), NEW j \in 1..Len(v)
                 PROVE  Before(s[i], x[j])
      BY <1>3 DEF AllBefore
    <2>1. s[i] \in DecodedLines
      BY ElementOfSeq
    <2>2. s[i].gen \in Nat /\ s[i].gen <= g
      BY <1>7, <2>1, ChangesAreLines DEF UpTo
    <2>3. s[i].gen < x[j].gen
      BY <1>2, <2>2
    <2> QED
      BY <2>3 DEF Before
  <1>8. \A i \in 1..Len(v) : \E k \in 1..Len(x) :
          x[k].lsn = v[i].lsn /\ x[k].tag = v[i].tag
    BY <1>2, <1>3
  <1> QED
    BY <1>3, <1>4, <1>5, <1>6, <1>7, <1>8 DEF x, Again

\* What a poll of p transactions returns, and what it leaves.
Returned(w, p) == FlattenSeq([i \in 1..p |-> Lines(w[i])])
Left(w, p) == SubSeq(w, p + 1, Len(w))

\* g and d are two parts of w: lines in order, all of them before what is left,
\* and each transaction in one or in the other.
Splits(w, g, d) ==
  /\ g \in Seq(DecodedLines) /\ InOrder(g)
  /\ d \in Seq(Changes) /\ LaterPart(d, w)
  /\ AllBefore(g, d)
  /\ \A s \in Seq(DecodedLines) : AllBefore(s, w) => AllPrecede(s, g)
  /\ \A n, c : UpTo(w, n, c) => UpTo(g, n, c)
  /\ \A i \in 1..Len(w) : \/ \E k \in 1..Len(g) : g[k] = w[i]
                          \/ \E k \in 1..Len(d) : d[k] = w[i]

\* A poll splits the transactions of the slot.
LEMMA PollSplits ==
  ASSUME NEW w \in Seq(Changes), Increasing(w), NEW p \in 1..Len(w)
  PROVE  Splits(w, Returned(w, p), Left(w, p))
  <1> DEFINE g == Returned(w, p)
             d == Left(w, p)
  <1>1. Len(w) \in Nat /\ p \in Nat /\ 1 <= p /\ p <= Len(w) /\ p \in 0..Len(w)
    BY LenProperties
  <1>2. Decoded(g, w, p)
    BY <1>1, PollDecodes DEF Returned
  <1>3. /\ g \in Seq(DecodedLines) /\ InOrder(g)
        /\ \A k \in 1..Len(g) : \E i \in 1..p : Same(g[k], w[i])
        /\ \A i \in 1..p : \E k \in 1..Len(g) : g[k] = w[i]
    BY <1>2 DEF Decoded
  <1>4. /\ d \in Seq(Changes) /\ Len(d) = Len(w) - p
        /\ \A i \in 1..Len(d) : d[i] = w[p + i] /\ p + i \in 1..Len(w)
    BY <1>1, DropElements DEF Left
  <1> HIDE DEF g, d
  <1>5. LaterPart(d, w)
    BY <1>1, <1>4 DEF LaterPart
  <1>6. \A i \in 1..p : i \in 1..Len(w)
    BY <1>1
  <1>8. AllBefore(g, d)
    <2> SUFFICES ASSUME NEW k \in 1..Len(g), NEW j \in 1..Len(d)
                 PROVE  Before(g[k], d[j])
      BY DEF AllBefore
    <2>1. PICK i \in 1..p : Same(g[k], w[i])
      BY <1>3
    <2>2. i \in 1..Len(w) /\ p + j \in 1..Len(w) /\ i < p + j /\ d[j] = w[p + j]
      <3>1. p + j \in 1..Len(w) /\ d[j] = w[p + j]
        BY <1>4
      <3>2. j \in Nat /\ j >= 1
        BY <1>1, <1>4
      <3> QED
        BY <1>1, <1>6, <3>1, <3>2
    <2>3. Before(w[i], w[p + j])
      BY <2>2 DEF Increasing
    <2> QED
      BY <2>1, <2>2, <2>3 DEF Before, Same
  <1>9. ASSUME NEW s \in Seq(DecodedLines), AllBefore(s, w)
        PROVE  AllPrecede(s, g)
    <2> SUFFICES ASSUME NEW j \in 1..Len(s), NEW k \in 1..Len(g)
                 PROVE  Precedes(s[j], g[k])
      BY DEF AllPrecede
    <2>1. PICK i \in 1..p : Same(g[k], w[i])
      BY <1>3
    <2>2. Before(s[j], w[i])
      BY <1>6, <1>9 DEF AllBefore
    <2> QED
      BY <2>1, <2>2 DEF Precedes, Before, Same
  <1>10. \A n, c : UpTo(w, n, c) => UpTo(g, n, c)
    <2> TAKE n, c
    <2> SUFFICES ASSUME UpTo(w, n, c), NEW k \in 1..Len(g)
                 PROVE  g[k].lsn <= n /\ g[k].gen <= c
      BY DEF UpTo
    <2>1. PICK i \in 1..p : Same(g[k], w[i])
      BY <1>3
    <2> QED
      BY <1>6, <2>1 DEF UpTo, Same
  <1>11. ASSUME NEW i \in 1..Len(w)
         PROVE  \/ \E k \in 1..Len(g) : g[k] = w[i]
                \/ \E k \in 1..Len(d) : d[k] = w[i]
    <2>1. CASE i <= p
      <3>1. i \in 1..p
        BY <1>1, <2>1
      <3> QED
        BY <1>3, <3>1
    <2>2. CASE ~(i <= p)
      <3>1. i - p \in 1..Len(d) /\ p + (i - p) = i
        BY <1>1, <1>4, <2>2
      <3>2. d[i - p] = w[i]
        BY <1>4, <3>1
      <3> QED
        BY <3>1, <3>2
    <2> QED
      BY <2>1, <2>2
  <1> QED
    BY <1>3, <1>4, <1>5, <1>8, <1>9, <1>10, <1>11 DEF Splits, g, d

-----------------------------------------------------------------------------
(***************************************************************************)
(* The inductive invariant.                                                *)
(***************************************************************************)

\* TypeOK alone is not inductive: that wal_lsn never runs ahead of the WAL needs
\* the LSNs of the lines still to be processed. Nor is SentInOrderOnce: it needs
\* the order of everything that is still to be sent, and of what a crash of the
\* server would put back into the slot.
Inv == TypeOK /\ CaptureInOrder /\ UnsavedInOrder /\ LinesUsedUp

\* All five sequences are sequences of lines.
LEMMA StateTypes ==
  ASSUME TypeOK
  PROVE  /\ wal \in Seq(Changes) /\ wal \in Seq(DecodedLines)
         /\ event \in Seq(Changes) /\ event \in Seq(DecodedLines)
         /\ sent \in Seq(Changes) /\ sent \in Seq(DecodedLines)
         /\ rows \in Seq(DecodedLines)
         /\ unsaved \in Seq(Changes) /\ unsaved \in Seq(DecodedLines)
         /\ channel \in Seq(Changes)
         /\ crashes \in Nat
         /\ lsn \in Nat /\ wal_lsn \in 0..lsn
         /\ pc # "send" => event = << >>
  <1>1. pc # "send" => event = << >>
    <2> SUFFICES ASSUME pc # "send" PROVE event = << >>
      OBVIOUS
    <2>1. event \in Seq(Changes) /\ Len(event) = 0
      BY DEF TypeOK
    <2> QED
      BY <2>1, EmptySeq
  <1> QED
    BY <1>1, ChangesAreLines DEF TypeOK

\* A poll takes at least one transaction, and no more than there are.
LEMMA PollCountInRange ==
  ASSUME wal \in Seq(Changes), wal # << >>
  PROVE  PollCount \in 1..Len(wal)
  <1>1. Len(wal) \in Nat /\ Len(wal) # 0
    BY LenProperties, EmptySeq
  <1>2. PollLimit \in Nat /\ PollLimit >= 1
    BY SizesAssumption
  <1> DEFINE q == (PollLimit + 2) \div 3
  <1>3. q \in Nat /\ 3 * q <= PollLimit + 2 /\ PollLimit + 2 < 3 * q + 3
    BY <1>2
  <1> HIDE DEF q
  <1>4. ASSUME ~(3 * Len(wal) <= PollLimit) PROVE q \in 1..Len(wal)
    BY <1>1, <1>2, <1>3, <1>4
  <1>5. PollCount = IF 3 * Len(wal) <= PollLimit THEN Len(wal) ELSE q
    BY DEF PollCount, q
  <1> QED
    BY <1>1, <1>4, <1>5

\* The task begins with everything empty.
LEMMA InitInv == Init => Inv
  <1> SUFFICES ASSUME Init PROVE Inv
    OBVIOUS
  <1>1. TypeOK
    <2>1. Len(<< >>) = 0
      OBVIOUS
    <2>2. ChannelCap \in Nat
      BY SizesAssumption
    <2>3. slot \in BOOLEAN /\ connected \in BOOLEAN
      BY DEF Init
    <2>4. /\ lsn = 0 /\ wal = << >> /\ unsaved = << >> /\ pc = "start"
          /\ rows = << >> /\ event = << >> /\ channel = << >> /\ sent = << >>
          /\ wal_lsn = 0 /\ wal_event_count = 0
          /\ failures = 0 /\ losses = 0 /\ crashes = 0
      BY DEF Init
    <2> QED
      BY <2>1, <2>2, <2>3, <2>4 DEF TypeOK
  <1>2. CaptureInOrder
    BY EmptyInherits DEF Init, CaptureInOrder
  <1>3. UnsavedInOrder
    BY EmptyInherits DEF Init, UnsavedInOrder
  <1> QED
    BY <1>1, <1>2, <1>3 DEF Init, Inv, LinesUsedUp

\* Steps that move the task without touching what it holds: connecting, failing,
\* sleeping, and the end of a poll's lines.
LEMMA ControlInv ==
  ASSUME Inv, Start \/ RowsDone \/ Fails \/ ConnectionGone \/ Wake \/ UNCHANGED vars
  PROVE  Inv'
  <1>1. /\ lsn' = lsn /\ wal' = wal /\ rows' = rows /\ event' = event
        /\ channel' = channel /\ sent' = sent /\ wal_lsn' = wal_lsn
        /\ wal_event_count' = wal_event_count /\ losses' = losses
        /\ unsaved' = unsaved /\ crashes' = crashes
    BY DEF Start, RowsDone, Fails, ConnectionGone, Wake, vars, server
  <1>2. /\ pc' = pc \/ (pc # "send" /\ pc' \in {"start", "poll", "sleep"})
        /\ slot' \in BOOLEAN /\ connected' \in BOOLEAN
        /\ failures' \in Nat
    <2>1. pc' = pc \/ (pc # "send" /\ pc' \in {"start", "poll", "sleep"})
      BY DEF Start, RowsDone, Fails, ConnectionGone, Wake, vars, server
    <2>2. /\ slot' = slot \/ slot' = TRUE
          /\ connected' = connected \/ connected' = TRUE
      BY DEF Start, RowsDone, Fails, ConnectionGone, Wake, vars, server
    <2>3. failures' = failures \/ failures' = failures + 1
      BY DEF Start, RowsDone, Fails, ConnectionGone, Wake, vars, server
    <2>4. slot \in BOOLEAN /\ connected \in BOOLEAN /\ failures \in Nat
      BY DEF Inv, TypeOK
    <2>5. slot' \in BOOLEAN /\ connected' \in BOOLEAN
      BY <2>2, <2>4
    <2>6. failures' \in Nat
      BY <2>3, <2>4
    <2> QED
      BY <2>1, <2>5, <2>6
  <1>3. TypeOK'
    <2>1. pc' = "send" <=> pc = "send"
      BY <1>2
    <2> QED
      BY <1>1, <1>2, <2>1 DEF Inv, TypeOK
  <1>4. CaptureInOrder'
    BY <1>1 DEF Inv, CaptureInOrder
  <1>5. LinesUsedUp'
    BY <1>1 DEF Inv, LinesUsedUp, Start, RowsDone, Fails, ConnectionGone, Wake, vars
  <1>6. UnsavedInOrder'
    BY <1>1 DEF Inv, UnsavedInOrder
  <1> QED
    BY <1>3, <1>4, <1>5, <1>6 DEF Inv

\* A poll moves its transactions to those that a crash would put back.
LEMMA TakenInOrder ==
  ASSUME Inv, wal # << >>, unsaved' = unsaved \o Taken, wal' = Rest,
         crashes' = crashes, lsn' = lsn
  PROVE  UnsavedInOrder' /\ unsaved' \in Seq(Changes)
  <1>1. /\ wal \in Seq(Changes) /\ wal \in Seq(DecodedLines)
        /\ unsaved \in Seq(Changes) /\ unsaved \in Seq(DecodedLines)
        /\ Len(wal) \in Nat
    BY StateTypes, LenProperties DEF Inv
  <1>2. PollCount \in 1..Len(wal)
    BY <1>1, PollCountInRange
  <1>3. /\ OfGen(unsaved, crashes) /\ OfGen(wal, crashes)
        /\ Increasing(unsaved) /\ Increasing(wal) /\ AllBefore(unsaved, wal)
        /\ UpTo(unsaved, lsn, crashes) /\ UpTo(wal, lsn, crashes)
    BY DEF Inv, UnsavedInOrder, CaptureInOrder
  <1> DEFINE p == PollCount
             t == Taken
             d == Rest
  <1>4. p \in Nat /\ p <= Len(wal) /\ p \in 0..Len(wal)
    BY <1>1, <1>2
  <1>5. /\ d \in Seq(Changes)
        /\ \A i \in 1..Len(d) : d[i] = wal[p + i] /\ p + i \in 1..Len(wal)
        /\ Len(d) = Len(wal) - p
    BY <1>1, <1>4, DropElements DEF Rest
  <1>6. t \in Seq(Changes) /\ Len(t) = p /\ \A i \in 1..p : t[i] = wal[i]
    <2>1. \A i \in 1..p : wal[i] \in Changes
      BY <1>1, <1>4, ElementOfSeq
    <2>2. /\ SubSeq(wal, 1, p) \in Seq(Changes)
          /\ Len(SubSeq(wal, 1, p)) = IF 1 <= p THEN p - 1 + 1 ELSE 0
          /\ \A i \in 1..(p - 1 + 1) : SubSeq(wal, 1, p)[i] = wal[1 + i - 1]
      BY <1>4, <2>1, SubSeqProperties
    <2>3. p - 1 + 1 = p /\ \A i \in 1..p : 1 + i - 1 = i
      BY <1>4
    <2>4. 1 <= p
      BY <1>1, <1>2
    <2> QED
      BY <2>2, <2>3, <2>4 DEF Taken
  <1> HIDE DEF p, t, d
  <1>7. LaterPart(d, wal)
    BY <1>4, <1>5 DEF LaterPart
  <1>8. LaterPart(t, wal)
    <2>1. \A i \in 1..Len(t) : 0 + i \in 1..Len(wal) /\ t[i] = wal[0 + i]
      BY <1>1, <1>4, <1>6
    <2>2. 0 \in Nat
      OBVIOUS
    <2> QED
      BY <2>1, <2>2 DEF LaterPart
  <1>9. d \in Seq(DecodedLines) /\ t \in Seq(DecodedLines)
    BY <1>5, <1>6, ChangesAreLines
  <1>10. /\ Increasing(t) /\ AllBefore(unsaved, t) /\ AllBefore(unsaved, d)
         /\ OfGen(t, crashes) /\ OfGen(d, crashes) /\ UpTo(t, lsn, crashes)
    BY <1>1, <1>3, <1>7, <1>8, <1>9, PartInherits
  <1>11. AllBefore(t, d)
    <2> SUFFICES ASSUME NEW i \in 1..Len(t), NEW j \in 1..Len(d)
                 PROVE  Before(t[i], d[j])
      BY DEF AllBefore
    <2>1. i \in 1..Len(wal) /\ p + j \in 1..Len(wal) /\ i < p + j
      BY <1>1, <1>4, <1>5, <1>6
    <2>2. t[i] = wal[i] /\ d[j] = wal[p + j]
      BY <1>5, <1>6
    <2> QED
      BY <1>3, <2>1, <2>2 DEF Increasing
  <1>12. unsaved' = unsaved \o t /\ wal' = d
    BY DEF t, d
  <1>13. unsaved' \in Seq(Changes)
    BY <1>1, <1>6, <1>12, ConcatProperties
  <1>14. Increasing(unsaved \o t)
    BY <1>1, <1>3, <1>9, <1>10, ConcatIncreasing
  <1>15. /\ AllBefore(unsaved \o t, d) /\ OfGen(unsaved \o t, crashes)
         /\ UpTo(unsaved \o t, lsn, crashes)
    BY <1>1, <1>3, <1>9, <1>10, <1>11, ConcatInherits
  <1> QED
    BY <1>10, <1>12, <1>13, <1>14, <1>15 DEF UnsavedInOrder

\* A poll hands its transactions over in order.
LEMMA PollInv ==
  ASSUME Inv, Poll
  PROVE  Inv'
  <1>1. CASE wal = << >>
    <2>1. UNCHANGED vars
      <3>1. UNCHANGED <<rows, wal, unsaved, pc>>
        BY <1>1 DEF Poll
      <3> QED
        BY <3>1 DEF Poll, vars, server
    <2> QED
      BY <2>1, ControlInv
  <1>2. CASE wal # << >>
    <2>1. /\ rows' = FlattenSeq([i \in 1..PollCount |-> Lines(wal[i])])
          /\ wal' = SubSeq(wal, PollCount + 1, Len(wal))
          /\ pc = "poll" /\ pc' = "rows"
          /\ lsn' = lsn /\ slot' = slot /\ event' = event
          /\ channel' = channel /\ sent' = sent /\ wal_lsn' = wal_lsn
          /\ wal_event_count' = wal_event_count
          /\ failures' = failures /\ losses' = losses
          /\ connected' = connected /\ crashes' = crashes
      BY <1>2 DEF Poll, Rest
    <2>2. /\ wal \in Seq(Changes) /\ wal \in Seq(DecodedLines)
          /\ sent \in Seq(DecodedLines) /\ event = << >>
      BY <2>1, StateTypes DEF Inv
    <2>3. PollCount \in 1..Len(wal)
      BY <1>2, <2>2, PollCountInRange
    <2>4. Increasing(wal)
      BY DEF Inv, CaptureInOrder
    <2>5. Splits(wal, rows', wal')
      <3>1. rows' = Returned(wal, PollCount) /\ wal' = Left(wal, PollCount)
        BY <2>1 DEF Returned, Left
      <3>2. Splits(wal, Returned(wal, PollCount), Left(wal, PollCount))
        BY <2>2, <2>3, <2>4, PollSplits
      <3> QED
        BY <3>1, <3>2
    <2>6. /\ Increasing(wal') /\ AllBefore(sent, wal') /\ UpTo(wal', lsn, crashes)
      <3>1. AllBefore(sent, wal) /\ UpTo(wal, lsn, crashes)
        BY DEF Inv, CaptureInOrder
      <3>2. wal' \in Seq(DecodedLines) /\ LaterPart(wal', wal)
        BY <2>5, ChangesAreLines DEF Splits
      <3> QED
        BY <2>2, <2>4, <3>1, <3>2, PartInherits
    <2>7. AllPrecede(sent, rows') /\ UpTo(rows', lsn, crashes)
      <3>1. AllBefore(sent, wal) /\ UpTo(wal, lsn, crashes)
        BY DEF Inv, CaptureInOrder
      <3> QED
        BY <2>2, <2>5, <3>1 DEF Splits
    <2>0. UnsavedInOrder' /\ unsaved' \in Seq(Changes)
      BY <1>2, TakenInOrder DEF Poll
    <2>8. TypeOK'
      <3>1. event \in Seq(Changes) /\ Len(event) = 0
        BY <2>1 DEF Inv, TypeOK
      <3> QED
        BY <2>0, <2>1, <2>5, <3>1 DEF Inv, TypeOK, Splits
    <2>9. CaptureInOrder'
      <3>1. AllPrecede(event, rows') /\ AllBefore(event, wal')
        BY <2>2, EmptyInherits
      <3> QED
        BY <2>1, <2>5, <2>6, <2>7, <3>1 DEF Inv, CaptureInOrder, Splits
    <2>10. LinesUsedUp'
      BY <2>1 DEF LinesUsedUp
    <2> QED
      BY <2>0, <2>8, <2>9, <2>10 DEF Inv
  <1> QED
    BY <1>1, <1>2

\* A line moves from the rows into tx.send, or away.
LEMMA ProcessRowInv ==
  ASSUME Inv, ProcessRow
  PROVE  Inv'
  <1>1. /\ pc = "rows" /\ rows # << >>
        /\ wal_lsn' = Head(rows).lsn /\ rows' = Tail(rows)
        /\ lsn' = lsn /\ slot' = slot /\ wal' = wal /\ channel' = channel
        /\ sent' = sent /\ failures' = failures /\ losses' = losses
        /\ unsaved' = unsaved /\ connected' = connected /\ crashes' = crashes
    BY DEF ProcessRow, server
  <1>2. /\ rows \in Seq(DecodedLines) /\ event = << >> /\ lsn \in Nat
        /\ event \in Seq(Changes) /\ Len(event) = 0 /\ wal_event_count \in Nat
        /\ wal \in Seq(DecodedLines)
    <2>1. rows \in Seq(DecodedLines) /\ event = << >> /\ lsn \in Nat /\ wal \in Seq(DecodedLines)
      BY <1>1, StateTypes DEF Inv
    <2> QED
      BY <1>1, <2>1 DEF Inv, TypeOK
  <1>3. /\ Head(rows) \in DecodedLines /\ rows' \in Seq(DecodedLines)
        /\ Head(rows) = rows[1] /\ 1 \in 1..Len(rows)
        /\ <<Head(rows)>> \in Seq(DecodedLines) /\ Len(<<Head(rows)>>) = 1
        /\ <<Head(rows)>>[1] = Head(rows)
        /\ LaterPart(rows', rows)
        /\ LaterPart(<<Head(rows)>>, rows)
        /\ AllPrecede(<<Head(rows)>>, rows')
    <2>1. InOrder(rows)
      BY DEF Inv, CaptureInOrder
    <2> QED
      BY <1>1, <1>2, <2>1, HeadAndTail
  <1> DEFINE h == Head(rows)
             g == <<h>>
  <1>4. h.lsn \in 0..lsn
    <2>1. h.lsn \in Nat
      BY <1>3, ChangesAreLines
    <2>2. h.lsn <= lsn
      BY <1>3 DEF Inv, CaptureInOrder, UpTo
    <2> QED
      BY <1>2, <2>1, <2>2
  <1>5. /\ InOrder(rows) /\ AllPrecede(sent, rows)
        /\ AllBefore(rows, wal) /\ UpTo(rows, lsn, crashes)
    BY DEF Inv, CaptureInOrder
  <1>6. /\ InOrder(rows') /\ AllPrecede(sent, rows')
        /\ AllBefore(rows', wal) /\ UpTo(rows', lsn, crashes)
    BY <1>2, <1>3, <1>5, PartInherits
  <1>7. /\ AllPrecede(sent, g) /\ AllBefore(g, wal) /\ UpTo(g, lsn, crashes)
    BY <1>2, <1>3, <1>5, PartInherits
  <1>8. g \in Seq(DecodedLines) /\ Len(g) = 1 /\ g[1] = h /\ AllPrecede(g, rows')
    BY <1>3
  <1>11. UnsavedInOrder'
    BY <1>1 DEF Inv, UnsavedInOrder
  <1>9. CASE Parses(h)
    <2>1. event' = g /\ wal_event_count' = wal_event_count + 1 /\ pc' = "send"
      BY <1>9 DEF ProcessRow
    <2>2. h \in Changes
      BY <1>3, <1>9 DEF Parses, Changes, DecodedLines
    <2>3. g \in Seq(Changes)
      BY <2>2
    <2>4. AllParse(g)
      <3> HIDE DEF g
      <3> QED
        BY <1>8, <1>9 DEF AllParse
    <2> HIDE DEF g, h
    <2>5. wal_event_count' \in Nat
      BY <1>2, <2>1
    <2>6. wal_lsn' \in 0..lsn
      BY <1>1, <1>4 DEF h
    <2>7. TypeOK'
      BY <1>1, <1>3, <1>8, <2>1, <2>3, <2>5, <2>6 DEF Inv, TypeOK
    <2>8. CaptureInOrder'
      BY <1>1, <1>6, <1>7, <1>8, <2>1, <2>4 DEF Inv, CaptureInOrder
    <2>9. LinesUsedUp'
      BY <2>1 DEF LinesUsedUp
    <2> QED
      BY <1>11, <2>7, <2>8, <2>9 DEF Inv
  <1>10. CASE ~Parses(h)
    <2>1. event' = event /\ wal_event_count' = wal_event_count /\ pc' = pc
      BY <1>10 DEF ProcessRow
    <2>2. wal_lsn' \in 0..lsn
      BY <1>1, <1>4
    <2> HIDE DEF g, h
    <2>3. TypeOK'
      BY <1>1, <1>3, <2>1, <2>2 DEF Inv, TypeOK
    <2>4. AllPrecede(event, rows')
      BY <1>2, EmptyInherits
    <2>5. CaptureInOrder'
      BY <1>1, <1>6, <2>1, <2>4 DEF Inv, CaptureInOrder
    <2>6. LinesUsedUp'
      BY <1>1, <2>1 DEF LinesUsedUp
    <2> QED
      BY <1>11, <2>3, <2>5, <2>6 DEF Inv
  <1> QED
    BY <1>9, <1>10

\* The event goes into the channel: it follows everything sent before.
LEMMA SendInv ==
  ASSUME Inv, Send
  PROVE  Inv'
  <1>1. /\ pc = "send" /\ pc' = "rows" /\ Len(channel) < ChannelCap
        /\ channel' = channel \o event /\ sent' = sent \o event /\ event' = << >>
        /\ lsn' = lsn /\ slot' = slot /\ wal' = wal /\ rows' = rows
        /\ wal_lsn' = wal_lsn /\ wal_event_count' = wal_event_count
        /\ failures' = failures /\ losses' = losses
        /\ unsaved' = unsaved /\ connected' = connected /\ crashes' = crashes
    BY DEF Send, HasRoom, server
  <1>2. /\ event \in Seq(Changes) /\ event \in Seq(DecodedLines)
        /\ sent \in Seq(Changes) /\ sent \in Seq(DecodedLines)
        /\ channel \in Seq(Changes)
    BY StateTypes DEF Inv
  <1>3. Len(event) = 1
    BY <1>1 DEF Inv, TypeOK
  <1>4. channel' \in Seq(Changes) /\ Len(channel') <= ChannelCap /\ sent' \in Seq(Changes)
    <2>1. Len(channel \o event) = Len(channel) + Len(event) /\ Len(channel) \in Nat
      BY <1>2, ConcatProperties, LenProperties
    <2>2. ChannelCap \in Nat
      BY SizesAssumption
    <2>3. channel \o event \in Seq(Changes) /\ sent \o event \in Seq(Changes)
      BY <1>2, ConcatProperties
    <2>4. Len(channel \o event) <= ChannelCap
      BY <1>1, <1>3, <2>1, <2>2
    <2> QED
      BY <1>1, <2>3, <2>4
  <1>5. TypeOK'
    <2>1. event' \in Seq(Changes) /\ Len(event') = 0
      BY <1>1
    <2> QED
      BY <1>1, <1>4, <2>1 DEF Inv, TypeOK
  <1>6. InOrder(event)
    <2>1. \A i, j \in 1..Len(event) : ~(i < j)
      BY <1>3
    <2> QED
      BY <2>1 DEF InOrder
  <1>7. /\ AllParse(sent) /\ AllParse(event) /\ InOrder(sent)
        /\ AllPrecede(sent, event) /\ AllPrecede(sent, rows) /\ AllPrecede(event, rows)
        /\ AllBefore(sent, wal) /\ AllBefore(event, wal)
        /\ UpTo(sent, lsn, crashes) /\ UpTo(event, lsn, crashes)
    BY DEF Inv, CaptureInOrder
  <1>8. InOrder(sent \o event)
    BY <1>2, <1>6, <1>7, ConcatInOrder
  <1>9. /\ AllParse(sent \o event) /\ AllPrecede(sent \o event, rows)
        /\ AllBefore(sent \o event, wal) /\ UpTo(sent \o event, lsn, crashes)
    BY <1>2, <1>7, ConcatInherits
  <1>10. CaptureInOrder'
    <2>1. /\ AllParse(event') /\ AllPrecede(sent', event') /\ AllPrecede(event', rows)
          /\ AllBefore(event', wal) /\ UpTo(event', lsn, crashes)
      BY <1>1, EmptyInherits
    <2>2. /\ InOrder(sent') /\ AllParse(sent') /\ AllPrecede(sent', rows)
          /\ AllBefore(sent', wal) /\ UpTo(sent', lsn, crashes)
      BY <1>1, <1>8, <1>9
    <2> QED
      BY <1>1, <2>1, <2>2 DEF Inv, CaptureInOrder
  <1>11. LinesUsedUp' /\ UnsavedInOrder'
    BY <1>1 DEF LinesUsedUp, Inv, UnsavedInOrder
  <1> QED
    BY <1>5, <1>10, <1>11 DEF Inv

\* A reply that is lost takes its transactions with it; the order stays.
LEMMA PollReplyLostInv ==
  ASSUME Inv, PollReplyLost
  PROVE  Inv'
  <1>1. /\ wal # << >> /\ wal' = Left(wal, PollCount)
        /\ losses' = losses + 1 /\ pc = "poll" /\ pc' = "sleep"
        /\ lsn' = lsn /\ slot' = slot /\ rows' = rows /\ event' = event
        /\ channel' = channel /\ sent' = sent /\ wal_lsn' = wal_lsn
        /\ wal_event_count' = wal_event_count /\ failures' = failures
        /\ connected' = connected /\ crashes' = crashes
    BY DEF PollReplyLost, Rest, Left
  <1>0. UnsavedInOrder' /\ unsaved' \in Seq(Changes)
    BY TakenInOrder DEF PollReplyLost
  <1>2. /\ wal \in Seq(Changes) /\ wal \in Seq(DecodedLines)
    BY StateTypes DEF Inv
  <1>3. wal' \in Seq(Changes) /\ LaterPart(wal', wal)
    <2>1. PollCount \in 1..Len(wal) /\ Increasing(wal)
      BY <1>1, <1>2, PollCountInRange DEF Inv, CaptureInOrder
    <2>2. Splits(wal, Returned(wal, PollCount), Left(wal, PollCount))
      BY <1>2, <2>1, PollSplits
    <2> QED
      BY <1>1, <2>2 DEF Splits
  <1>4. /\ Increasing(wal) /\ AllBefore(sent, wal) /\ AllBefore(event, wal)
        /\ AllBefore(rows, wal) /\ UpTo(wal, lsn, crashes)
    BY DEF Inv, CaptureInOrder
  <1>5. /\ Increasing(wal') /\ AllBefore(sent, wal') /\ AllBefore(event, wal')
        /\ AllBefore(rows, wal') /\ UpTo(wal', lsn, crashes)
    <2>1. wal' \in Seq(DecodedLines)
      BY <1>3, ChangesAreLines
    <2> QED
      BY <1>2, <1>3, <1>4, <2>1, PartInherits
  <1>6. TypeOK'
    <2>1. losses' \in Nat
      BY <1>1 DEF Inv, TypeOK
    <2>2. Len(event) = 0
      BY <1>1 DEF Inv, TypeOK
    <2> QED
      BY <1>0, <1>1, <1>3, <2>1, <2>2 DEF Inv, TypeOK
  <1>7. CaptureInOrder'
    BY <1>1, <1>5 DEF Inv, CaptureInOrder
  <1>8. LinesUsedUp'
    BY <1>1 DEF Inv, LinesUsedUp
  <1> QED
    BY <1>0, <1>6, <1>7, <1>8 DEF Inv

\* A restart empties the process; what was sent and the slot are as they were.
LEMMA RestartInv ==
  ASSUME Inv, Restart
  PROVE  Inv'
  <1>1. /\ losses' = losses + 1 /\ pc' = "start" /\ rows' = << >> /\ event' = << >>
        /\ channel' = << >> /\ wal_lsn' = 0 /\ wal_event_count' = 0
        /\ lsn' = lsn /\ slot' = slot /\ wal' = wal /\ sent' = sent
        /\ failures' = failures
        /\ unsaved' = unsaved /\ connected' = connected /\ crashes' = crashes
    BY DEF Restart, server
  <1>2. TypeOK'
    <2>1. losses' \in Nat
      BY <1>1 DEF Inv, TypeOK
    <2>2. event' \in Seq(Changes) /\ Len(event') = 0 /\ rows' \in Seq(DecodedLines)
      BY <1>1
    <2>3. channel' \in Seq(Changes) /\ Len(channel') <= ChannelCap
      BY <1>1, SizesAssumption
    <2>4. wal_lsn' \in 0..lsn' /\ wal_event_count' \in Nat
      BY <1>1 DEF Inv, TypeOK
    <2> QED
      BY <1>1, <2>1, <2>2, <2>3, <2>4 DEF Inv, TypeOK
  <1>3. CaptureInOrder'
    BY <1>1, EmptyInherits DEF Inv, CaptureInOrder
  <1>4. UnsavedInOrder'
    BY <1>1 DEF Inv, UnsavedInOrder
  <1> QED
    BY <1>1, <1>2, <1>3, <1>4 DEF Inv, LinesUsedUp

\* The position of the slot is saved: nothing would be put back any more.
LEMMA SlotSavedInv ==
  ASSUME Inv, SlotSaved
  PROVE  Inv'
  <1>1. /\ lsn' = lsn /\ slot' = slot /\ wal' = wal /\ pc' = pc /\ rows' = rows
        /\ event' = event /\ channel' = channel /\ sent' = sent
        /\ wal_lsn' = wal_lsn /\ wal_event_count' = wal_event_count
        /\ failures' = failures /\ losses' = losses
        /\ unsaved' = << >> /\ connected' = connected /\ crashes' = crashes
    BY DEF SlotSaved
  <1>2. TypeOK'
    BY <1>1 DEF Inv, TypeOK
  <1>3. CaptureInOrder'
    BY <1>1 DEF Inv, CaptureInOrder
  <1>4. UnsavedInOrder'
    BY <1>1, EmptyInherits DEF Inv, UnsavedInOrder
  <1> QED
    BY <1>1, <1>2, <1>3, <1>4 DEF Inv, LinesUsedUp

\* The server crashes: what was handed out since the position was saved is handed
\* out again, after everything sent or still to be sent from before.
LEMMA ServerCrashInv ==
  ASSUME Inv, ServerCrash
  PROVE  /\ Inv'
         /\ \A i \in 1..Len(wal) : \E k \in 1..Len(wal') :
              wal'[k].lsn = wal[i].lsn /\ wal'[k].tag = wal[i].tag
  <1>1. /\ lsn' = lsn /\ slot' = slot /\ pc' = pc /\ rows' = rows
        /\ event' = event /\ channel' = channel /\ sent' = sent
        /\ wal_lsn' = wal_lsn /\ wal_event_count' = wal_event_count
        /\ failures' = failures /\ losses' = losses
        /\ unsaved' = << >> /\ connected' = FALSE /\ crashes' = crashes + 1
        /\ wal' = Reread(unsaved \o wal, crashes + 1)
    BY DEF ServerCrash
  <1>2. /\ wal \in Seq(Changes) /\ wal \in Seq(DecodedLines)
        /\ unsaved \in Seq(Changes) /\ unsaved \in Seq(DecodedLines)
        /\ sent \in Seq(DecodedLines) /\ rows \in Seq(DecodedLines)
        /\ event \in Seq(DecodedLines) /\ crashes \in Nat /\ lsn \in Nat
    BY StateTypes DEF Inv
  <1>3. /\ OfGen(unsaved, crashes) /\ OfGen(wal, crashes)
        /\ Increasing(unsaved) /\ Increasing(wal) /\ AllBefore(unsaved, wal)
        /\ UpTo(unsaved, lsn, crashes) /\ UpTo(wal, lsn, crashes)
        /\ UpTo(sent, lsn, crashes) /\ UpTo(event, lsn, crashes) /\ UpTo(rows, lsn, crashes)
    BY DEF Inv, UnsavedInOrder, CaptureInOrder
  <1> DEFINE v == unsaved \o wal
             x == Reread(v, crashes + 1)
  <1>4. v \in Seq(Changes) /\ Joins(v, unsaved, wal)
    BY <1>2, ConcatElements
  <1>5. Increasing(v)
    BY <1>2, <1>3, ConcatIncreasing
  <1>6. OfGen(v, crashes) /\ UpTo(v, lsn, crashes)
    BY <1>2, <1>3, ConcatInherits
  <1>7. wal' = x
    BY <1>1
  <1> HIDE DEF v
  <1>8. /\ x \in Seq(Changes) /\ Increasing(x)
        /\ OfGen(x, crashes + 1) /\ UpTo(x, lsn, crashes + 1)
        /\ \A s \in Seq(DecodedLines) : UpTo(s, lsn, crashes) => AllBefore(s, x)
        /\ \A i \in 1..Len(v) : \E k \in 1..Len(x) :
             x[k].lsn = v[i].lsn /\ x[k].tag = v[i].tag
    BY <1>2, <1>4, <1>5, <1>6, RereadInOrder DEF Again
  <1> HIDE DEF x
  <1>9. AllBefore(sent, wal') /\ AllBefore(event, wal') /\ AllBefore(rows, wal')
    BY <1>2, <1>3, <1>7, <1>8
  <1>10. ASSUME NEW s \in Seq(DecodedLines), UpTo(s, lsn, crashes)
         PROVE  UpTo(s, lsn, crashes + 1)
    <2> SUFFICES ASSUME NEW i \in 1..Len(s)
                 PROVE  s[i].lsn <= lsn /\ s[i].gen <= crashes + 1
      BY DEF UpTo
    <2>1. s[i] \in DecodedLines
      BY ElementOfSeq
    <2>2. s[i].gen \in Nat /\ s[i].gen <= crashes /\ s[i].lsn <= lsn
      BY <1>10, <2>1, ChangesAreLines DEF UpTo
    <2>3. s[i].gen <= crashes + 1
      BY <1>2, <2>2
    <2> QED
      BY <2>2, <2>3
  <1>11. /\ UpTo(sent, lsn, crashes + 1) /\ UpTo(event, lsn, crashes + 1)
         /\ UpTo(rows, lsn, crashes + 1)
    BY <1>2, <1>3, <1>10
  <1>12. TypeOK'
    <2>1. crashes' \in Nat
      BY <1>1, <1>2
    <2>2. connected' \in BOOLEAN
      BY <1>1
    <2>3. wal' \in Seq(Changes) /\ unsaved' \in Seq(Changes)
      BY <1>1, <1>7, <1>8
    <2>4. /\ lsn' = lsn /\ slot' = slot /\ pc' = pc /\ rows' = rows
          /\ event' = event /\ channel' = channel /\ sent' = sent
          /\ wal_lsn' = wal_lsn /\ wal_event_count' = wal_event_count
          /\ failures' = failures /\ losses' = losses
      BY <1>1
    <2> QED
      BY <2>1, <2>2, <2>3, <2>4 DEF Inv, TypeOK
  <1>13. CaptureInOrder'
    <2>1. /\ lsn' = lsn /\ rows' = rows /\ event' = event /\ sent' = sent
          /\ crashes' = crashes + 1
      BY <1>1
    <2>2. Increasing(wal') /\ UpTo(wal', lsn', crashes')
      BY <1>7, <1>8, <2>1
    <2> QED
      BY <1>9, <1>11, <2>1, <2>2 DEF Inv, CaptureInOrder
  <1>14. UnsavedInOrder'
    <2>1. unsaved' = << >> /\ crashes' = crashes + 1 /\ lsn' = lsn
      BY <1>1
    <2>2. OfGen(wal', crashes') /\ OfGen(unsaved', crashes')
      BY <1>7, <1>8, <2>1, EmptyInherits
    <2>3. /\ Increasing(unsaved') /\ AllBefore(unsaved', wal')
          /\ UpTo(unsaved', lsn', crashes')
      BY <2>1, EmptyInherits
    <2> QED
      BY <2>2, <2>3 DEF UnsavedInOrder
  <1>15. \A i \in 1..Len(wal) : \E k \in 1..Len(wal') :
           wal'[k].lsn = wal[i].lsn /\ wal'[k].tag = wal[i].tag
    <2> TAKE i \in 1..Len(wal)
    <2> DEFINE j == Len(unsaved) + i
    <2>1. j \in 1..Len(v) /\ v[j] = wal[i]
      BY <1>4 DEF Joins
    <2> HIDE DEF j
    <2>2. \E k \in 1..Len(x) : x[k].lsn = v[j].lsn /\ x[k].tag = v[j].tag
      BY <1>8, <2>1
    <2> QED
      BY <1>7, <2>1, <2>2
  <1> QED
    <2>1. LinesUsedUp'
      BY <1>1 DEF Inv, LinesUsedUp
    <2> QED
      BY <1>12, <1>13, <1>14, <1>15, <2>1 DEF Inv

\* What is known up to an LSN is known up to the next one.
LEMMA UpToNext ==
  ASSUME NEW s \in Seq(DecodedLines), NEW n \in Nat, NEW g, UpTo(s, n, g)
  PROVE  UpTo(s, n + 1, g)
  <1> SUFFICES ASSUME NEW i \in 1..Len(s) PROVE s[i].lsn <= n + 1 /\ s[i].gen <= g
    BY DEF UpTo
  <1>1. s[i] \in DecodedLines /\ s[i].lsn <= n /\ s[i].gen <= g
    BY ElementOfSeq DEF UpTo
  <1>2. s[i].lsn \in Nat
    BY <1>1, ChangesAreLines
  <1>3. s[i].lsn <= n + 1
    BY <1>1, <1>2
  <1> QED
    BY <1>1, <1>3

\* The slot's transactions are still in order, and up to the new LSN.
OneMore ==
  /\ lsn' \in Nat /\ wal_lsn \in 0..lsn'
  /\ wal' \in Seq(Changes) /\ Increasing(wal')
  /\ AllBefore(sent, wal') /\ AllBefore(event, wal') /\ AllBefore(rows, wal')
  /\ UpTo(sent, lsn', crashes) /\ UpTo(event, lsn', crashes)
  /\ UpTo(rows, lsn', crashes) /\ UpTo(wal', lsn', crashes)
  /\ OfGen(wal', crashes) /\ AllBefore(unsaved, wal') /\ UpTo(unsaved, lsn', crashes)

\* A transaction that commits comes after everything there is.
LEMMA CommitsInOrder ==
  ASSUME Inv, NEW table \in Tables \union {"events"}, NEW tag \in {"ROW", "TRUNCATE"},
         Commits(table, tag)
  PROVE  /\ OneMore
         /\ \A i \in 1..Len(wal) : \E k \in 1..Len(wal') : wal'[k] = wal[i]
  <1>1. /\ wal \in Seq(Changes) /\ wal \in Seq(DecodedLines) /\ event \in Seq(DecodedLines)
        /\ sent \in Seq(DecodedLines) /\ rows \in Seq(DecodedLines)
        /\ unsaved \in Seq(DecodedLines) /\ crashes \in Nat
        /\ lsn \in Nat /\ wal_lsn \in 0..lsn
    BY StateTypes DEF Inv
  <1>0. OfGen(wal, crashes) /\ AllBefore(unsaved, wal) /\ UpTo(unsaved, lsn, crashes)
    BY DEF Inv, UnsavedInOrder
  <1>2. /\ Increasing(wal) /\ AllBefore(sent, wal) /\ AllBefore(event, wal)
        /\ AllBefore(rows, wal)
        /\ UpTo(sent, lsn, crashes) /\ UpTo(event, lsn, crashes)
        /\ UpTo(rows, lsn, crashes) /\ UpTo(wal, lsn, crashes)
    BY DEF Inv, CaptureInOrder
  <1>3. lsn' = lsn + 1
    BY DEF Commits
  <1>4. lsn' \in Nat /\ wal_lsn \in 0..lsn'
    BY <1>1, <1>3
  <1>5. /\ UpTo(sent, lsn', crashes) /\ UpTo(event, lsn', crashes)
        /\ UpTo(rows, lsn', crashes) /\ UpTo(wal, lsn', crashes)
        /\ UpTo(unsaved, lsn', crashes)
    BY <1>0, <1>1, <1>2, <1>3, UpToNext
  <1> DEFINE c == [lsn |-> lsn + 1, gen |-> crashes, table |-> table, tag |-> tag]
  <1>6. c \in Changes /\ c.lsn = lsn + 1 /\ c.gen = crashes
    BY <1>1 DEF Changes
  <1>7. wal' = Append(wal, c) \/ wal' = wal
    BY DEF Commits
  <1> HIDE DEF c
  <1>8. CASE wal' = Append(wal, c)
    <2>1. /\ Append(wal, c) \in Seq(Changes)
          /\ Increasing(Append(wal, c))
          /\ UpTo(Append(wal, c), lsn + 1, crashes)
          /\ OfGen(Append(wal, c), crashes)
          /\ \A s \in Seq(DecodedLines) :
               AllBefore(s, wal) /\ UpTo(s, lsn, crashes) => AllBefore(s, Append(wal, c))
          /\ \A i \in 1..Len(wal) : \E k \in 1..Len(Append(wal, c)) : Append(wal, c)[k] = wal[i]
      BY <1>0, <1>1, <1>2, <1>6, AppendChange
    <2>2. /\ wal' \in Seq(Changes) /\ Increasing(wal') /\ UpTo(wal', lsn', crashes)
          /\ AllBefore(sent, wal') /\ AllBefore(event, wal') /\ AllBefore(rows, wal')
          /\ AllBefore(unsaved, wal') /\ OfGen(wal', crashes)
      BY <1>0, <1>1, <1>2, <1>3, <1>8, <2>1
    <2>3. \A i \in 1..Len(wal) : \E k \in 1..Len(wal') : wal'[k] = wal[i]
      BY <1>8, <2>1
    <2> QED
      BY <1>3, <1>4, <1>5, <2>2, <2>3 DEF OneMore
  <1>9. CASE wal' = wal
    BY <1>0, <1>1, <1>2, <1>3, <1>4, <1>5, <1>9 DEF OneMore
  <1> QED
    BY <1>7, <1>8, <1>9

\* An application commits.
LEMMA AppCommitsInv ==
  ASSUME Inv, NEW table \in Tables, NEW tag \in {"ROW", "TRUNCATE"},
         AppCommits(table, tag)
  PROVE  Inv'
  <1>1. /\ slot' = slot /\ pc' = pc /\ rows' = rows /\ event' = event
        /\ channel' = channel /\ sent' = sent /\ wal_lsn' = wal_lsn
        /\ wal_event_count' = wal_event_count
        /\ failures' = failures /\ losses' = losses
        /\ unsaved' = unsaved /\ connected' = connected /\ crashes' = crashes
    BY DEF AppCommits, server
  <1>2. OneMore
    BY CommitsInOrder DEF AppCommits
  <1>3. TypeOK'
    BY <1>1, <1>2 DEF Inv, TypeOK, OneMore
  <1>4. CaptureInOrder'
    BY <1>1, <1>2 DEF Inv, CaptureInOrder, OneMore
  <1>5. UnsavedInOrder'
    BY <1>1, <1>2 DEF Inv, UnsavedInOrder, OneMore
  <1> QED
    BY <1>1, <1>3, <1>4, <1>5 DEF Inv, LinesUsedUp

\* The writer stores an event, which is one more transaction of the WAL.
LEMMA StoreInv ==
  ASSUME Inv, Store
  PROVE  Inv'
  <1>1. /\ slot' = slot /\ pc' = pc /\ rows' = rows /\ event' = event
        /\ sent' = sent /\ wal_lsn' = wal_lsn
        /\ wal_event_count' = wal_event_count
        /\ failures' = failures /\ losses' = losses
        /\ channel # << >> /\ channel' = Tail(channel)
        /\ unsaved' = unsaved /\ connected' = connected /\ crashes' = crashes
    BY DEF Store, server
  <1>2. channel' \in Seq(Changes) /\ Len(channel') <= ChannelCap
    <2>1. channel \in Seq(Changes) /\ Len(channel) <= ChannelCap
      BY DEF Inv, TypeOK
    <2>2. /\ Tail(channel) \in Seq(Changes) /\ Len(Tail(channel)) = Len(channel) - 1
          /\ Len(channel) \in Nat
      BY <1>1, <2>1, HeadTailProperties, LenProperties
    <2>3. Len(Tail(channel)) <= ChannelCap
      BY <2>1, <2>2, SizesAssumption
    <2> QED
      BY <1>1, <2>2, <2>3
  <1>3. OneMore
    <2>1. CASE Commits("events", "ROW")
      BY <2>1, CommitsInOrder
    <2>2. CASE UNCHANGED <<lsn, wal>>
      BY <2>2 DEF Inv, TypeOK, CaptureInOrder, UnsavedInOrder, OneMore
    <2> QED
      BY <2>1, <2>2 DEF Store
  <1>4. TypeOK'
    BY <1>1, <1>2, <1>3 DEF Inv, TypeOK, OneMore
  <1>5. CaptureInOrder'
    BY <1>1, <1>3 DEF Inv, CaptureInOrder, OneMore
  <1>6. UnsavedInOrder'
    BY <1>1, <1>3 DEF Inv, UnsavedInOrder, OneMore
  <1> QED
    BY <1>1, <1>4, <1>5, <1>6 DEF Inv, LinesUsedUp

\* Every step keeps the invariant.
LEMMA StepInv == Inv /\ [Next]_vars => Inv'
  <1> SUFFICES ASSUME Inv, [Next]_vars PROVE Inv'
    OBVIOUS
  <1>1. CASE Start \/ RowsDone \/ Fails \/ ConnectionGone \/ Wake \/ UNCHANGED vars
    BY <1>1, ControlInv
  <1>2. CASE Poll
    BY <1>2, PollInv
  <1>3. CASE ProcessRow
    BY <1>3, ProcessRowInv
  <1>4. CASE Send
    BY <1>4, SendInv
  <1>5. CASE PollReplyLost
    BY <1>5, PollReplyLostInv
  <1>6. CASE Restart
    BY <1>6, RestartInv
  <1>7. CASE \E table \in Tables, tag \in {"ROW", "TRUNCATE"} : AppCommits(table, tag)
    BY <1>7, AppCommitsInv
  <1>8. CASE Store
    BY <1>8, StoreInv
  <1>9. CASE SlotSaved
    BY <1>9, SlotSavedInv
  <1>10. CASE ServerCrash
    BY <1>10, ServerCrashInv
  <1> QED
    BY <1>1, <1>2, <1>3, <1>4, <1>5, <1>6, <1>7, <1>8, <1>9, <1>10 DEF Next

\* The inductive invariant holds in every reachable state.
LEMMA AlwaysInv == Spec => []Inv
  BY InitInv, StepInv, PTL DEF Spec

-----------------------------------------------------------------------------
(***************************************************************************)
(* The theorems.                                                           *)
(***************************************************************************)

\* The channel never holds more than its capacity, tx.send holds one event at
\* most, and the position that /health reports is one the WAL has reached.
THEOREM TypeCorrect == Spec => []TypeOK
  BY AlwaysInv, PTL DEF Inv

\* run() sends changes in commit order and none twice, however often its queries
\* fail, replies are lost or the process is restarted; only a crash of the server
\* takes it back, at most once for every crash.
THEOREM InCommitOrder == Spec => []SentInOrderOnce
  <1>1. Inv => SentInOrderOnce
    <2> SUFFICES ASSUME Inv, NEW i \in 1..Len(sent), NEW j \in 1..Len(sent), i < j
                 PROVE  Before(sent[i], sent[j])
      BY DEF SentInOrderOnce
    <2>1. Parses(sent[i]) /\ Parses(sent[j])
      BY DEF Inv, CaptureInOrder, AllParse
    <2>2. Precedes(sent[i], sent[j])
      BY DEF Inv, CaptureInOrder, InOrder
    <2> QED
      BY <2>1, <2>2 DEF Precedes
  <1> QED
    BY <1>1, AlwaysInv, PTL

\* x is an element of s.
In(x, s) == \E i \in 1..Len(s) : s[i] = x

\* ToSet by the elements' places.
LEMMA ToSetIn ==
  ASSUME NEW S, NEW s \in Seq(S), NEW x
  PROVE  x \in ToSet(s) <=> In(x, s)
  <1>1. DOMAIN s = 1..Len(s)
    BY LenProperties
  <1> QED
    BY <1>1 DEF ToSet, In

\* A row change on its way is, after any step, still on its way, sent, or lost
\* with a reply or with the process; after a crash of the server it is in the slot
\* once more.
LEMMA StepKeeps ==
  ASSUME Inv, [Next]_vars, NEW line, Parses(line),
         In(line, wal) \/ In(line, rows) \/ In(line, event)
  PROVE  \/ In(line, wal') \/ In(line, rows') \/ In(line, event')
         \/ In(line, sent') \/ losses' # losses
         \/ \E k \in 1..Len(wal') : wal'[k].lsn = line.lsn /\ Parses(wal'[k])
  <1>1. /\ wal \in Seq(Changes) /\ rows \in Seq(DecodedLines)
        /\ event \in Seq(Changes) /\ sent \in Seq(Changes)
        /\ pc # "send" => event = << >>
    BY StateTypes DEF Inv
  <1>2. CASE \/ Start \/ RowsDone \/ Fails \/ ConnectionGone \/ Wake
             \/ SlotSaved \/ UNCHANGED vars
    BY <1>2 DEF Start, RowsDone, Fails, ConnectionGone, Wake, SlotSaved, vars
  <1>3. CASE Poll
    <2>1. CASE wal = << >>
      BY <1>3, <2>1 DEF Poll
    <2>2. CASE wal # << >>
      <3>1. /\ rows' = Returned(wal, PollCount) /\ wal' = Left(wal, PollCount)
            /\ pc = "poll"
        BY <1>3, <2>2 DEF Poll, Rest, Returned, Left
      <3>2. rows = << >> /\ event = << >>
        BY <1>1, <3>1 DEF Inv, LinesUsedUp
      <3>3. ~In(line, << >>)
        BY DEF In
      <3>4. In(line, wal)
        BY <3>2, <3>3
      <3>5. PollCount \in 1..Len(wal) /\ Increasing(wal)
        BY <1>1, <2>2, PollCountInRange DEF Inv, CaptureInOrder
      <3>6. Splits(wal, rows', wal')
        <4>1. Splits(wal, Returned(wal, PollCount), Left(wal, PollCount))
          BY <1>1, <3>5, PollSplits
        <4> QED
          BY <3>1, <4>1
      <3> QED
        BY <3>4, <3>6 DEF Splits, In
    <2> QED
      BY <2>1, <2>2
  <1>4. CASE ProcessRow
    <2>1. /\ wal' = wal /\ rows' = Tail(rows) /\ rows # << >> /\ pc = "rows"
          /\ Parses(Head(rows)) => event' = <<Head(rows)>>
      BY <1>4 DEF ProcessRow
    <2>2. ~In(line, event)
      <3>1. event = << >>
        BY <1>1, <2>1
      <3> QED
        BY <3>1 DEF In
    <2>3. CASE In(line, wal)
      BY <2>1, <2>3
    <2>4. CASE In(line, rows)
      <3>1. PICK i \in 1..Len(rows) : rows[i] = line
        BY <2>4 DEF In
      <3>2. /\ Head(rows) = rows[1]
            /\ Len(<<Head(rows)>>) = 1 /\ <<Head(rows)>>[1] = Head(rows)
            /\ i = 1 \/ \E k \in 1..Len(Tail(rows)) : Tail(rows)[k] = rows[i]
        BY <1>1, <2>1, HeadAndTail
      <3>3. CASE i = 1
        <4>1. event' = <<Head(rows)>> /\ Head(rows) = line
          BY <2>1, <3>1, <3>2, <3>3
        <4>2. 1 \in 1..Len(event') /\ event'[1] = line
          BY <3>2, <4>1
        <4> QED
          BY <4>2 DEF In
      <3>4. CASE \E k \in 1..Len(Tail(rows)) : Tail(rows)[k] = rows[i]
        BY <2>1, <3>1, <3>4 DEF In
      <3> QED
        BY <3>2, <3>3, <3>4
    <2> QED
      BY <2>2, <2>3, <2>4
  <1>5. CASE Send
    <2>1. wal' = wal /\ rows' = rows /\ sent' = sent \o event
      BY <1>5 DEF Send
    <2>2. CASE In(line, event)
      <3>1. Joins(sent', sent, event)
        BY <1>1, <2>1, ConcatElements
      <3> QED
        BY <2>2, <3>1 DEF Joins, In
    <2> QED
      BY <2>1, <2>2
  <1>6. CASE PollReplyLost \/ Restart
    <2>1. losses' = losses + 1 /\ losses \in Nat
      BY <1>6 DEF PollReplyLost, Restart, Inv, TypeOK
    <2> QED
      BY <2>1
  <1>7. ASSUME NEW table \in Tables \union {"events"}, NEW tag \in {"ROW", "TRUNCATE"},
               Commits(table, tag)
        PROVE  In(line, wal) => In(line, wal')
    <2>1. \A i \in 1..Len(wal) : \E k \in 1..Len(wal') : wal'[k] = wal[i]
      BY <1>7, CommitsInOrder
    <2> QED
      BY <2>1 DEF In
  <1>8. CASE \E table \in Tables, tag \in {"ROW", "TRUNCATE"} : AppCommits(table, tag)
    <2>1. PICK table \in Tables, tag \in {"ROW", "TRUNCATE"} : AppCommits(table, tag)
      BY <1>8
    <2>2. In(line, wal) => In(line, wal')
      BY <1>7, <2>1 DEF AppCommits
    <2> QED
      BY <2>1, <2>2 DEF AppCommits
  <1>9. CASE Store
    <2>1. CASE Commits("events", "ROW")
      <3>1. In(line, wal) => In(line, wal')
        BY <1>7, <2>1
      <3> QED
        BY <1>9, <3>1 DEF Store
    <2>2. CASE UNCHANGED <<lsn, wal>>
      BY <1>9, <2>2 DEF Store
    <2> QED
      BY <1>9, <2>1, <2>2 DEF Store
  <1>10. CASE ServerCrash
    <2>1. rows' = rows /\ event' = event
      BY <1>10 DEF ServerCrash
    <2>2. CASE In(line, wal)
      <3>1. PICK i \in 1..Len(wal) : wal[i] = line
        BY <2>2 DEF In
      <3>2. PICK k \in 1..Len(wal') : wal'[k].lsn = wal[i].lsn /\ wal'[k].tag = wal[i].tag
        BY <1>10, ServerCrashInv
      <3> QED
        BY <3>1, <3>2 DEF Parses
    <2> QED
      BY <2>1, <2>2
  <1> QED
    BY <1>2, <1>3, <1>4, <1>5, <1>6, <1>8, <1>9, <1>10 DEF Next

\* A row change that the slot has recorded is given up by a lost reply or a
\* restart only: not by a failed query, not by a full channel, not by a crash of
\* the server, not by run() starting run_inner() over.
THEOREM NoChangeDropped == Spec => ChangesKept
  <1>1. ASSUME Inv, Inv', [Next]_vars, NEW line \in Underway
        PROVE  \/ \E kept \in Underway' \union ToSet(sent') : kept.lsn = line.lsn
               \/ losses' # losses
    <2>1. /\ wal \in Seq(DecodedLines) /\ rows \in Seq(DecodedLines)
          /\ event \in Seq(DecodedLines)
      BY <1>1, StateTypes DEF Inv
    <2>2. /\ wal' \in Seq(DecodedLines) /\ rows' \in Seq(DecodedLines)
          /\ event' \in Seq(DecodedLines) /\ sent' \in Seq(DecodedLines)
      BY <1>1, ChangesAreLines DEF Inv, TypeOK
    <2>3. Parses(line)
      BY DEF Underway
    <2>4. In(line, wal) \/ In(line, rows) \/ In(line, event)
      <3>1. line \in ToSet(wal) \/ line \in ToSet(rows) \/ line \in ToSet(event)
        BY DEF Underway
      <3> QED
        BY <2>1, <3>1, ToSetIn
    <2>5. \/ In(line, wal') \/ In(line, rows') \/ In(line, event')
          \/ In(line, sent') \/ losses' # losses
          \/ \E k \in 1..Len(wal') : wal'[k].lsn = line.lsn /\ Parses(wal'[k])
      BY <1>1, <2>3, <2>4, StepKeeps
    <2>6. ASSUME NEW k \in 1..Len(wal'), wal'[k].lsn = line.lsn, Parses(wal'[k])
          PROVE  \E kept \in Underway' : kept.lsn = line.lsn
      <3>1. wal'[k] \in ToSet(wal')
        BY <2>2, ToSetIn DEF In
      <3>2. wal'[k] \in Underway'
        BY <2>6, <3>1 DEF Underway, Parses
      <3> QED
        BY <2>6, <3>2
    <2>7. ASSUME \/ In(line, wal') \/ In(line, rows') \/ In(line, event')
                 \/ In(line, sent')
          PROVE  line \in Underway' \union ToSet(sent')
      <3>1. \/ line \in ToSet(wal') \/ line \in ToSet(rows')
            \/ line \in ToSet(event') \/ line \in ToSet(sent')
        BY <2>2, <2>7, ToSetIn
      <3> QED
        BY <2>3, <3>1 DEF Underway, Parses
    <2> QED
      BY <2>5, <2>6, <2>7
  <1>2. Inv /\ Inv' /\ [Next]_vars =>
          [\A line \in Underway :
             \/ \E kept \in Underway' \union ToSet(sent') : kept.lsn = line.lsn
             \/ losses' # losses]_vars
    BY <1>1
  <1> QED
    BY <1>2, AlwaysInv, PTL DEF Spec, ChangesKept
=============================================================================
