-------------------------- MODULE VerifyChainProofs --------------------------
(***************************************************************************)
(* Proofs about verify_chain(), for tables of any length, any values of    *)
(* the columns and any number of alterations.                              *)
(***************************************************************************)
EXTENDS VerifyChain, SequenceTheorems, TLAPS

-----------------------------------------------------------------------------
(***************************************************************************)
(* Type correctness.                                                       *)
(***************************************************************************)

\* A payload is a text, whether computed from an event or from a row.
LEMMA JoinIsText ==
  ASSUME NEW u \in Text \union {Null}, NEW q \in Text \union {Null}
  PROVE  Join(u, q) \in Text
  <1>1. TextOf(u) \in Text /\ TextOf(q) \in Text
    BY DEF TextOf, Text
  <1>2. <<"|">> \in Text
    BY DEF Text
  <1> QED
    BY <1>1, <1>2, ConcatProperties DEF Join, Text

\* Chaining an event gives a row.
LEMMA StoredRowType ==
  ASSUME NEW e \in Events, next_id \in Nat, chain.prev_hash \in Hash
  PROVE  StoredRow(next_id, e) \in Row /\ Digest(chain.prev_hash, BuildPayload(e)) \in Hash
  <1>1. /\ e.session_user \in Text \union {Null}
        /\ e.query_text \in Text \union {Null}
        /\ e.detail \in {f.detail : f \in Events}
    BY EventsAssumption DEF Text
  <1>2. BuildPayload(e) \in Text
    BY <1>1, JoinIsText DEF BuildPayload
  <1>3. Digest(chain.prev_hash, BuildPayload(e)) \in Hash
    BY <1>2 DEF Digest, Hash
  <1> QED
    BY <1>1, <1>3 DEF StoredRow, Row

\* An UPDATE stores values of the columns' types.
LEMMA UpdatesType ==
  ASSUME NEW r \in Row, NEW u \in Updates(r)
  PROVE  /\ u.session_user \in Text \union {Null}
         /\ u.query_text \in Text \union {Null}
         /\ u.detail \in {f.detail : f \in Events}
         /\ u.prev_hash \in Hash
         /\ u.event_hash \in Hash
  <1>1. CASE u \in Forgeries
    BY <1>1, ForgeriesAssumption DEF Text, Hash
  <1>2. CASE u \notin Forgeries
    <2>1. PICK e \in Events :
            u = [session_user |-> e.session_user, query_text |-> e.query_text,
                 detail |-> e.detail, prev_hash |-> r.prev_hash,
                 event_hash |-> r.event_hash]
      BY <1>2 DEF Updates
    <2>2. /\ e.session_user \in Text \union {Null}
          /\ e.query_text \in Text \union {Null}
          /\ e.detail \in {f.detail : f \in Events}
      BY EventsAssumption DEF Text
    <2> QED
      BY <2>1, <2>2 DEF Row
  <1> QED
    BY <1>1, <1>2

\* Changing a row leaves a table.
LEMMA AlterType ==
  ASSUME NEW i \in 1..Len(table), NEW u \in Updates(table[i]), Alter(i, u),
         table \in Seq(Row)
  PROVE  table' \in Seq(Row)
  <1> DEFINE new == [table[i] EXCEPT !.session_user = u.session_user,
                                     !.query_text   = u.query_text,
                                     !.detail       = u.detail,
                                     !.prev_hash    = u.prev_hash,
                                     !.event_hash   = u.event_hash]
  <1>1. table[i] \in Row
    OBVIOUS
  <1>2. /\ u.session_user \in Text \union {Null}
        /\ u.query_text \in Text \union {Null}
        /\ u.detail \in {f.detail : f \in Events}
        /\ u.prev_hash \in Hash
        /\ u.event_hash \in Hash
    BY <1>1, UpdatesType
  <1>3. new \in Row
    BY <1>1, <1>2 DEF Row
  <1>4. table' = [table EXCEPT ![i] = new]
    BY DEF Alter
  <1> HIDE DEF new
  <1> QED
    BY <1>3, <1>4

\* Deleting a row leaves a table.
LEMMA DeleteType ==
  ASSUME NEW i \in 1..Len(table), Delete(i), table \in Seq(Row)
  PROVE  table' \in Seq(Row)
  <1>1. Len(table) \in Nat /\ i \in Int /\ i >= 1 /\ i <= Len(table)
    OBVIOUS
  <1>2. SubSeq(table, 1, i - 1) \in Seq(Row)
    <2>1. \A k \in 1..(i - 1) : table[k] \in Row
      BY <1>1
    <2> QED
      BY <1>1, <2>1, SubSeqProperties
  <1>3. SubSeq(table, i + 1, Len(table)) \in Seq(Row)
    <2>1. \A k \in (i + 1)..Len(table) : table[k] \in Row
      BY <1>1
    <2> QED
      BY <1>1, <2>1, SubSeqProperties
  <1> QED
    BY <1>2, <1>3, ConcatProperties DEF Delete

\* Every step keeps TypeOK.
LEMMA TypeOKStep == TypeOK /\ [Next]_vars => TypeOK'
  <1> SUFFICES ASSUME TypeOK, [Next]_vars PROVE TypeOK'
    OBVIOUS
  <1>1. CASE \E e \in Events : Insert(e)
    <2>1. PICK e \in Events : Insert(e)
      BY <1>1
    <2>2. next_id \in Nat /\ chain.prev_hash \in Hash /\ chain.chain_length \in Nat
      BY DEF TypeOK
    <2>3. /\ StoredRow(next_id, e) \in Row
          /\ Digest(chain.prev_hash, BuildPayload(e)) \in Hash
      BY <2>2, StoredRowType
    <2>4. table' \in Seq(Row) /\ honest' \in Seq(Row)
      BY <2>1, <2>3 DEF Insert, TypeOK
    <2>5. chain' \in [prev_hash : Hash, chain_length : Nat]
      BY <2>1, <2>2, <2>3 DEF Insert, Advance
    <2>6. /\ next_id' \in Nat /\ tampers' = tampers /\ restarts' = restarts
          /\ UNCHANGED verifyVars
      BY <2>1, <2>2 DEF Insert
    <2> QED
      BY <2>4, <2>5, <2>6 DEF TypeOK, verifyVars
  <1>2. CASE \E i \in 1..Len(table) : (\E u \in Updates(table[i]) : Alter(i, u)) \/ Delete(i)
    <2>1. PICK i \in 1..Len(table) : (\E u \in Updates(table[i]) : Alter(i, u)) \/ Delete(i)
      BY <1>2
    <2>2. table \in Seq(Row) /\ tampers \in Nat
      BY DEF TypeOK
    <2>3. table' \in Seq(Row)
      BY <2>1, <2>2, AlterType, DeleteType
    <2>4. tampers' = tampers + 1 /\ UNCHANGED <<honest, chain, next_id, restarts, verifyVars>>
      BY <2>1 DEF Alter, Delete
    <2>5. tampers' \in Nat
      BY <2>2, <2>4
    <2>6. /\ honest' = honest /\ chain' = chain /\ next_id' = next_id
          /\ restarts' = restarts /\ UNCHANGED verifyVars
      BY <2>4
    <2> QED
      BY <2>3, <2>5, <2>6 DEF TypeOK, verifyVars
  <1>3. CASE Call
    BY <1>3 DEF Call, TypeOK, tableVars, Hash, NoHash
  <1>4. CASE LoopBroken
    <2>1. cursor[row_count + 1] \in Row
      BY <1>4 DEF LoopBroken, TypeOK
    <2>2. cursor[row_count + 1].id \in Nat
      BY <2>1 DEF Row
    <2>3. row_count' \in 0..Len(cursor') /\ checked_count' \in 0..Len(cursor')
      BY <1>4 DEF LoopBroken, TypeOK
    <2>4. UNCHANGED tableVars /\ pc' = "returned" /\ cursor' = cursor /\ prev' = prev
      BY <1>4 DEF LoopBroken
    <2>5. valid' \in BOOLEAN /\ first_broken_id' \in Nat
      BY <1>4, <2>2 DEF LoopBroken
    <2> QED
      BY <2>3, <2>4, <2>5 DEF TypeOK, tableVars
  <1>5. CASE LoopGood
    <2>1. cursor[row_count + 1] \in Row
      BY <1>5 DEF LoopGood, TypeOK
    <2>2. cursor[row_count + 1].event_hash \in Hash
      BY <2>1 DEF Row
    <2> QED
      BY <1>5, <2>2 DEF LoopGood, TypeOK, tableVars
  <1>6. CASE LoopEnd
    <2>1. row_count \in 0..Len(cursor)
      BY DEF TypeOK
    <2>2. checked_count' \in (0..Len(cursor')) \union {Null}
      BY <1>6, <2>1 DEF LoopEnd
    <2> QED
      BY <1>6, <2>2 DEF LoopEnd, TypeOK, tableVars
  <1>7. CASE UNCHANGED vars
    BY <1>7 DEF vars, tableVars, verifyVars, TypeOK
  <1>8. CASE Restart
    <2>1. NewChain \in [prev_hash : Hash, chain_length : Nat]
      BY DEF NewChain, NoHash, Hash
    <2> QED
      BY <1>8, <2>1 DEF Restart, TypeOK, verifyVars
  <1> QED
    BY <1>1, <1>2, <1>3, <1>4, <1>5, <1>6, <1>7, <1>8 DEF Next

\* The initial state has its type.
LEMMA InitTypeOK == Init => TypeOK
  <1>1. NoHash \in Hash /\ NewChain \in [prev_hash : Hash, chain_length : Nat]
    BY DEF NewChain, NoHash, Hash
  <1>2. << >> \in Seq(Row) /\ Len(<< >>) = 0
    OBVIOUS
  <1> SUFFICES ASSUME Init PROVE TypeOK
    OBVIOUS
  <1>3. table \in Seq(Row) /\ honest \in Seq(Row) /\ cursor \in Seq(Row)
    BY <1>2 DEF Init
  <1>4. chain \in [prev_hash : Hash, chain_length : Nat] /\ prev \in Hash
    BY <1>1 DEF Init
  <1>5. next_id \in Nat /\ tampers \in Nat /\ restarts \in Nat /\ row_count \in 0..Len(cursor)
    BY <1>2 DEF Init
  <1>6. /\ pc \in {"idle", "loop", "returned"} /\ valid \in BOOLEAN
        /\ first_broken_id \in Nat \union {Null}
        /\ checked_count \in (0..Len(cursor)) \union {Null}
    BY DEF Init
  <1> QED
    BY <1>3, <1>4, <1>5, <1>6 DEF TypeOK

\* The state always has its type, and the loop never reads past its cursor.
THEOREM TypeCorrect == Spec => []TypeOK
  BY InitTypeOK, TypeOKStep, PTL DEF Spec

-----------------------------------------------------------------------------
(***************************************************************************)
(* The verdict.                                                            *)
(***************************************************************************)

\* A row that the loop does not call broken is good where it stands.
LEMMA BrokenIsNotGood ==
  ASSUME TypeOK, LoopInv, pc = "loop", row_count < Len(cursor)
  PROVE  Broken(cursor[row_count + 1]) <=> ~GoodAt(cursor, row_count + 1, EventPayload)
  <1>1. prev = HashBefore(cursor, row_count + 1)
    BY DEF LoopInv
  <1> QED
    BY <1>1 DEF Broken, GoodAt

\* Every step keeps the loop invariant and the verdict.
LEMMA VerdictStep ==
  TypeOK /\ LoopInv /\ VerdictCorrect /\ [Next]_vars => LoopInv' /\ VerdictCorrect'
  <1> SUFFICES ASSUME TypeOK, LoopInv, VerdictCorrect, [Next]_vars
               PROVE  LoopInv' /\ VerdictCorrect'
    OBVIOUS
  <1>1. cursor \in Seq(Row) /\ Len(cursor) \in Nat /\ row_count \in Nat /\ row_count <= Len(cursor)
    BY DEF TypeOK
  <1>2. CASE Call
    <2>1. /\ pc' = "loop" /\ valid' /\ first_broken_id' = Null
          /\ prev' = NoHash /\ row_count' = 0
      BY <1>2 DEF Call
    <2>2. LoopInv'
      BY <2>1 DEF LoopInv, HashBefore
    <2> QED
      BY <2>1, <2>2 DEF VerdictCorrect
  <1>3. CASE LoopBroken
    <2>1. /\ pc = "loop" /\ row_count < Len(cursor)
          /\ Broken(cursor[row_count + 1])
          /\ pc' = "returned" /\ cursor' = cursor /\ valid' = FALSE
          /\ checked_count' = row_count + 1
          /\ first_broken_id' = cursor[row_count + 1].id
      BY <1>3 DEF LoopBroken
    <2>2. ~GoodAt(cursor, row_count + 1, EventPayload)
      BY <2>1, BrokenIsNotGood
    <2>3. \A i \in 1..row_count : GoodAt(cursor, i, EventPayload)
      BY <2>1 DEF LoopInv
    <2>4. \A i \in 1..row_count + 1 :
            GoodAt(cursor, i, EventPayload) <=> i < row_count + 1
      BY <1>1, <2>2, <2>3
    <2>5. row_count + 1 \in 1..Len(cursor)
      BY <1>1, <2>1
    <2>6. VerdictCorrect'
      BY <2>1, <2>4, <2>5 DEF VerdictCorrect, GoodAt, HashBefore, EventPayload
    <2> QED
      BY <2>1, <2>6 DEF LoopInv
  <1>4. CASE LoopGood
    <2>1. /\ pc = "loop" /\ row_count < Len(cursor)
          /\ ~Broken(cursor[row_count + 1])
          /\ pc' = "loop" /\ cursor' = cursor /\ valid' = valid
          /\ first_broken_id' = first_broken_id
          /\ row_count' = row_count + 1
          /\ prev' = cursor[row_count + 1].event_hash
      BY <1>4 DEF LoopGood
    <2>2. GoodAt(cursor, row_count + 1, EventPayload)
      BY <2>1, BrokenIsNotGood
    <2>3. \A i \in 1..row_count : GoodAt(cursor, i, EventPayload)
      BY <2>1 DEF LoopInv
    <2>4. \A i \in 1..row_count + 1 : GoodAt(cursor, i, EventPayload)
      BY <1>1, <2>2, <2>3
    <2>5. prev' = HashBefore(cursor, (row_count + 1) + 1)
      BY <1>1, <2>1 DEF HashBefore
    <2>6. LoopInv'
      BY <2>1, <2>4, <2>5 DEF LoopInv, GoodAt, HashBefore, EventPayload
    <2> QED
      BY <2>1, <2>6 DEF VerdictCorrect
  <1>5. CASE LoopEnd
    <2>1. /\ pc = "loop" /\ row_count = Len(cursor)
          /\ pc' = "returned" /\ cursor' = cursor /\ valid' = valid
          /\ first_broken_id' = first_broken_id
          /\ checked_count' = row_count
      BY <1>5 DEF LoopEnd
    <2>2. valid /\ first_broken_id = Null
      BY <2>1 DEF LoopInv
    <2>3. ChainValid(cursor, EventPayload)
      BY <2>1 DEF LoopInv, ChainValid
    <2>4. VerdictCorrect'
      BY <2>1, <2>2, <2>3
         DEF VerdictCorrect, ChainValid, GoodAt, HashBefore, EventPayload
    <2> QED
      BY <2>1, <2>4 DEF LoopInv
  <1>6. CASE UNCHANGED verifyVars
    BY <1>6 DEF verifyVars, LoopInv, VerdictCorrect, ChainValid, GoodAt, HashBefore,
                EventPayload
  <1> QED
    BY <1>2, <1>3, <1>4, <1>5, <1>6 DEF Next, Insert, Restart, Alter, Delete, vars

\* Whenever verify_chain() has returned, valid says whether the rows it saw
\* form one chain, and otherwise first_broken_id and checked_count name the
\* first row that does not fit.
THEOREM VerdictIsCorrect == Spec => []VerdictCorrect
  <1>1. Init => LoopInv /\ VerdictCorrect
    BY DEF Init, LoopInv, VerdictCorrect
  <1> QED
    BY <1>1, TypeCorrect, VerdictStep, PTL DEF Spec

-----------------------------------------------------------------------------
(***************************************************************************)
(* What an accepted table proves.                                          *)
(***************************************************************************)

\* A row's payload is a text.
LEMMA PayloadIsText ==
  ASSUME NEW r \in Row
  PROVE  EventPayload(r) \in Text
  <1>1. r.session_user \in Text \union {Null} /\ r.query_text \in Text \union {Null}
    BY DEF Row
  <1> QED
    BY <1>1, JoinIsText DEF EventPayload

\* The hash in a row of a table is a hash.
LEMMA RowHash ==
  ASSUME NEW s \in Seq(Row), NEW i \in 1..Len(s)
  PROVE  s[i].event_hash \in Hash
  <1>1. s[i] \in Row
    OBVIOUS
  <1> QED
    BY <1>1 DEF Row

\* Rows stored later do not change what a hash covers.
LEMMA CoversStable ==
  ASSUME NEW s \in Seq(Row), NEW r \in Row, NEW h \in Hash, NEW k \in 0..Len(s),
         Covers(h, s, k)
  PROVE  Covers(h, Append(s, r), k)
  <1>1. Len(h) \in Nat /\ Len(s) \in Nat /\ Len(h) <= k
    BY LenProperties DEF Hash, Covers
  <1>2. \A m \in 1..Len(s) : Append(s, r)[m] = s[m]
    BY AppendProperties
  <1>3. \A j \in 1..Len(h) : k - Len(h) + j \in 1..Len(s)
    BY <1>1
  <1> QED
    BY <1>1, <1>2, <1>3 DEF Covers

\* The hash of a row on top of h covers the row and what h covers.
LEMMA CoversNext ==
  ASSUME NEW s \in Seq(Row), NEW k \in Nat, k < Len(s), NEW h \in Hash, Covers(h, s, k)
  PROVE  /\ Covers(Digest(h, EventPayload(s[k + 1])), s, k + 1)
         /\ Len(Digest(h, EventPayload(s[k + 1]))) = Len(h) + 1
  <1> DEFINE x == EventPayload(s[k + 1])
             d == Append(h, x)
  <1>1. s[k + 1] \in Row
    BY LenProperties
  <1>2. Len(h) \in Nat /\ Len(h) <= k /\ x \in Text /\ h \in Seq(Text)
    BY <1>1, LenProperties, PayloadIsText DEF Hash, Covers
  <1>3. /\ Len(d) = Len(h) + 1 /\ d[Len(h) + 1] = x
        /\ \A j \in 1..Len(h) : d[j] = h[j]
    BY <1>2, AppendProperties
  <1>4. \A j \in 1..Len(h) : h[j] = EventPayload(s[k - Len(h) + j])
    BY DEF Covers
  <1> HIDE DEF d, x
  <1>5. ASSUME NEW j \in 1..Len(d)
        PROVE  d[j] = EventPayload(s[(k + 1) - Len(d) + j])
    <2>1. CASE j = Len(h) + 1
      <3>1. (k + 1) - Len(d) + j = k + 1
        BY <1>2, <1>3, <2>1
      <3> QED
        BY <1>3, <2>1, <3>1 DEF x
    <2>2. CASE j # Len(h) + 1
      <3>1. j \in 1..Len(h) /\ (k + 1) - Len(d) + j = k - Len(h) + j
        BY <1>2, <1>3, <2>2
      <3> QED
        BY <1>3, <1>4, <3>1
    <2> QED
      BY <2>1, <2>2
  <1>6. Covers(d, s, k + 1) /\ Len(d) = Len(h) + 1
    BY <1>2, <1>3, <1>5 DEF Covers
  <1> QED
    BY <1>6 DEF d, x, Digest

\* Every step keeps HonestChain: hashes are made at one place, and what was stored
\* is not forgotten.
LEMMA HonestChainStep == TypeOK /\ HonestChain /\ [Next]_vars => HonestChain'
  <1> SUFFICES ASSUME TypeOK, HonestChain, [Next]_vars PROVE HonestChain'
    OBVIOUS
  <1>1. honest \in Seq(Row) /\ Len(honest) \in Nat /\ chain.prev_hash \in Hash
    BY LenProperties DEF TypeOK
  <1>2. CASE \E e \in Events : Insert(e)
    <2>1. PICK e \in Events : Insert(e)
      BY <1>2
    <2> DEFINE r == StoredRow(next_id, e)
               n == Len(honest)
    <2>2. r \in Row
      BY StoredRowType DEF TypeOK
    <2>3. r.event_hash = Digest(chain.prev_hash, EventPayload(r))
      BY DEF StoredRow, EventPayload, BuildPayload
    <2>4. honest' = Append(honest, r) /\ chain'.prev_hash = r.event_hash
      BY <2>1 DEF Insert, Advance, StoredRow
    <2> HIDE DEF r
    <2>5. /\ Len(honest') = n + 1 /\ honest'[n + 1] = r
          /\ \A k \in 1..n : honest'[k] = honest[k]
      BY <1>1, <2>2, <2>4, AppendProperties
    <2>6. Covers(r.event_hash, honest', n + 1)
      <3>1. Covers(chain.prev_hash, honest', n)
        BY <1>1, <2>2, <2>4, CoversStable DEF HonestChain
      <3>2. honest' \in Seq(Row) /\ n \in Nat /\ n < Len(honest')
        BY <1>1, <2>2, <2>4, <2>5, AppendProperties
      <3> QED
        BY <1>1, <2>3, <2>5, <3>1, <3>2, CoversNext
    <2>7. ASSUME NEW k \in 1..n
          PROVE  Covers(honest'[k].event_hash, honest', k)
      <3>1. Covers(honest[k].event_hash, honest, k) /\ k \in 0..n
        BY <1>1 DEF HonestChain
      <3>2. honest[k].event_hash \in Hash
        BY <1>1, RowHash
      <3> QED
        BY <1>1, <2>2, <2>4, <2>5, <3>1, <3>2, CoversStable
    <2>8. \A k \in 1..Len(honest') : k \in 1..n \/ k = n + 1
      BY <1>1, <2>5
    <2> QED
      BY <2>4, <2>5, <2>6, <2>7, <2>8 DEF HonestChain
  <1>3. CASE Restart
    <2>1. Len(chain'.prev_hash) = 0 /\ honest' = honest
      BY <1>3 DEF Restart, NewChain, NoHash
    <2>2. Covers(chain'.prev_hash, honest, Len(honest))
      BY <1>1, <2>1 DEF Covers
    <2> QED
      BY <2>1, <2>2 DEF HonestChain
  <1>4. CASE UNCHANGED <<honest, chain>>
    BY <1>4 DEF HonestChain
  <1> QED
    BY <1>2, <1>3, <1>4
       DEF Next, Alter, Delete, Call, LoopBroken, LoopGood, LoopEnd, vars, tableVars

\* Every step keeps RowsCovered: a row passes when its hash is made from prev and
\* its own payload.
LEMMA RowsCoveredStep == TypeOK /\ RowsCovered /\ [Next]_vars => RowsCovered'
  <1> SUFFICES ASSUME TypeOK, RowsCovered, [Next]_vars PROVE RowsCovered'
    OBVIOUS
  <1>1. /\ cursor \in Seq(Row) /\ Len(cursor) \in Nat /\ prev \in Hash
        /\ row_count \in Nat
    BY LenProperties DEF TypeOK
  <1>2. CASE Call
    <2>1. pc' = "loop" /\ Len(prev') = 0 /\ row_count' = 0
      BY <1>2 DEF Call, NoHash
    <2> QED
      BY <2>1 DEF RowsCovered, CoversAll, Covers
  <1>3. CASE LoopBroken
    BY <1>3 DEF LoopBroken, RowsCovered
  <1>4. CASE LoopGood
    <2> DEFINE h == cursor[row_count + 1].event_hash
    <2>1. /\ pc = "loop" /\ pc' = "loop" /\ cursor' = cursor
          /\ row_count' = row_count + 1 /\ prev' = h
          /\ row_count < Len(cursor)
          /\ h = Digest(prev, EventPayload(cursor[row_count + 1]))
      BY <1>4 DEF LoopGood, Broken
    <2>2. Len(prev) = row_count /\ Covers(prev, cursor, row_count)
      BY <2>1 DEF RowsCovered, CoversAll
    <2>3. CoversAll(h, cursor, row_count + 1)
      BY <1>1, <2>1, <2>2, CoversNext DEF CoversAll
    <2>4. \A i \in 1..row_count : CoversAll(cursor[i].event_hash, cursor, i)
      BY <2>1 DEF RowsCovered
    <2> HIDE DEF h
    <2>5. \A i \in 1..row_count + 1 : CoversAll(cursor[i].event_hash, cursor, i)
      <3> TAKE i \in 1..row_count + 1
      <3>1. i \in 1..row_count \/ i = row_count + 1
        BY <1>1
      <3> QED
        BY <2>3, <2>4, <3>1 DEF h
    <2> QED
      BY <2>1, <2>3, <2>5 DEF RowsCovered
  <1>5. CASE LoopEnd
    BY <1>5 DEF LoopEnd, RowsCovered
  <1>6. CASE UNCHANGED verifyVars
    BY <1>6 DEF verifyVars, RowsCovered
  <1> QED
    BY <1>2, <1>3, <1>4, <1>5, <1>6 DEF Next, Insert, Restart, Alter, Delete, vars

\* A hash that covers all rows of the table up to i and the forwarder's events up
\* to k makes them agree, payload by payload.
LEMMA CoveredAlike ==
  ASSUME NEW h \in Hash, NEW s \in Seq(Row), NEW t \in Seq(Row),
         NEW i \in 1..Len(s), NEW k \in 1..Len(t),
         CoversAll(h, s, i), Covers(h, t, k), NEW j \in 0..i-1
  PROVE  k - j \in 1..Len(t) /\ EventPayload(s[i - j]) = EventPayload(t[k - j])
  <1>1. Len(h) = i /\ i <= k /\ i \in Nat /\ k \in Nat /\ Len(t) \in Nat /\ k <= Len(t)
    BY LenProperties DEF CoversAll, Covers
  <1>2. i - j \in 1..Len(h) /\ k - j \in 1..Len(t)
    BY <1>1
  <1>3. h[i - j] = EventPayload(s[i - Len(h) + (i - j)])
    BY <1>2 DEF CoversAll, Covers
  <1>4. h[i - j] = EventPayload(t[k - Len(h) + (i - j)])
    BY <1>2 DEF Covers
  <1>5. i - Len(h) + (i - j) = i - j /\ k - Len(h) + (i - j) = k - j
    BY <1>1
  <1> QED
    BY <1>2, <1>3, <1>4, <1>5

\* One hash that is known to be the forwarder's protects the payloads of all rows
\* before it in an accepted table, whatever was changed or deleted, hashes
\* included, however often the forwarder was restarted, and whatever is stored
\* while verify_chain() runs.
THEOREM KnownHashProtects == Spec => []AnchorProtects
  <1>1. Init => HonestChain /\ RowsCovered
    <2> SUFFICES ASSUME Init PROVE HonestChain /\ RowsCovered
      OBVIOUS
    <2>1. Len(honest) = 0 /\ Len(chain.prev_hash) = 0 /\ pc = "idle"
      BY DEF Init, NewChain, NoHash
    <2> QED
      BY <2>1 DEF HonestChain, RowsCovered, Covers
  <1>2. TypeOK /\ HonestChain /\ RowsCovered => AnchorProtects
    <2> SUFFICES ASSUME TypeOK, HonestChain, RowsCovered, pc = "returned", valid,
                        NEW i \in 1..Len(cursor), NEW k \in 1..Len(honest),
                        cursor[i].event_hash = honest[k].event_hash,
                        NEW j \in 0..i-1
                 PROVE  /\ k - j \in 1..Len(honest)
                        /\ EventPayload(cursor[i - j]) = EventPayload(honest[k - j])
      BY DEF AnchorProtects
    <2>1. cursor \in Seq(Row) /\ honest \in Seq(Row)
      BY DEF TypeOK
    <2>2. cursor[i].event_hash \in Hash
      BY <2>1, RowHash
    <2>3. CoversAll(cursor[i].event_hash, cursor, i)
      BY DEF RowsCovered
    <2>4. Covers(cursor[i].event_hash, honest, k)
      BY DEF HonestChain
    <2> QED
      BY <2>1, <2>2, <2>3, <2>4, CoveredAlike
  <1> QED
    BY <1>1, <1>2, TypeCorrect, HonestChainStep, RowsCoveredStep, PTL DEF Spec
=============================================================================
