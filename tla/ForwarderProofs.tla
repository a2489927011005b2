--------------------------- MODULE ForwarderProofs ---------------------------
(***************************************************************************)
(* Proofs about the forwarder's pipeline, for every channel capacity,      *)
(* batch size, retry limit and set of faults, and any number of events.    *)
(***************************************************************************)
EXTENDS Forwarder, SequenceTheorems, WellFoundedInduction, TLAPS

-----------------------------------------------------------------------------
(***************************************************************************)
(* The retry queue.                                                        *)
(***************************************************************************)

\* Requeue keeps the newest events, at most MaxRetry of them.
LEMMA RequeueProperties ==
  ASSUME NEW S, NEW q \in Seq(S), NEW es \in Seq(S)
  PROVE  /\ Requeue(q, es) \in Seq(S)
         /\ Len(Requeue(q, es)) <= MaxRetry
         /\ \E n \in 0..Len(q \o es) :
              Requeue(q, es) = SubSeq(q \o es, Len(q \o es) - n + 1, Len(q \o es))
  <1> DEFINE s == q \o es
  <1>1. s \in Seq(S) /\ Len(s) \in Nat
    OBVIOUS
  <1>2. MaxRetry \in Nat
    BY SizesAssumption
  <1>3. Requeue(q, es) = IF Len(s) <= MaxRetry THEN s
                         ELSE SubSeq(s, Len(s) - MaxRetry + 1, Len(s))
    BY DEF Requeue
  <1> HIDE DEF s
  <1>4. CASE Len(s) <= MaxRetry
    <2>1. s = SubSeq(s, 1, Len(s))
      BY <1>1, SubSeqFull
    <2>2. Len(s) \in 0..Len(s) /\ Len(s) - Len(s) + 1 = 1
      BY <1>1
    <2>3. s = SubSeq(s, Len(s) - Len(s) + 1, Len(s))
      BY <2>1, <2>2
    <2>4. \E n \in 0..Len(s) : s = SubSeq(s, Len(s) - n + 1, Len(s))
      BY <2>2, <2>3
    <2> QED
      BY <1>1, <1>3, <1>4, <2>4 DEF s
  <1>5. CASE ~(Len(s) <= MaxRetry)
    <2> DEFINE m == Len(s) - MaxRetry + 1
    <2>1. m \in Int /\ Len(s) \in Int /\ m <= Len(s) + 1 /\ m >= 1
      BY <1>1, <1>2, <1>5
    <2>2. \A i \in m..Len(s) : s[i] \in S
      BY <1>1, <2>1
    <2>3. /\ SubSeq(s, m, Len(s)) \in Seq(S)
          /\ Len(SubSeq(s, m, Len(s))) = IF m <= Len(s) THEN Len(s) - m + 1 ELSE 0
      BY <2>1, <2>2, SubSeqProperties
    <2>4. Len(SubSeq(s, m, Len(s))) <= MaxRetry
      BY <1>1, <1>2, <2>1, <2>3
    <2>5. MaxRetry \in 0..Len(s)
      BY <1>1, <1>2, <1>5
    <2> QED
      BY <1>3, <1>5, <2>3, <2>4, <2>5 DEF s
  <1> QED
    BY <1>4, <1>5

\* Induction, for a set: the naturals are the only set of naturals with 0 and
\* with every successor.
LEMMA AllNaturals ==
  ASSUME NEW T, T \subseteq Nat, 0 \in T, \A n \in T : n + 1 \in T
  PROVE  T = Nat
  <1> SUFFICES ASSUME Nat \ T # {} PROVE FALSE
    OBVIOUS
  <1>1. PICK x \in Nat \ T : \A y \in Nat \ T : ~(<<y, x>> \in OpToRel(<, Nat))
    BY NatLessThanWellFounded, WFMin
  <1>2. x - 1 \in Nat /\ x - 1 < x
    OBVIOUS
  <1>3. <<x - 1, x>> \in OpToRel(<, Nat)
    BY <1>1, <1>2 DEF OpToRel
  <1>4. x - 1 \in T
    BY <1>1, <1>2, <1>3
  <1>5. (x - 1) + 1 = x
    OBVIOUS
  <1> QED
    BY <1>1, <1>4, <1>5

\* After i events of es the queue holds the newest events of s = q \o es so far:
\* all of the first m of them, or MaxRetry.
NewestOf(g, s, m) ==
  /\ Len(g) <= MaxRetry /\ Len(g) <= m /\ (Len(g) = m \/ Len(g) = MaxRetry)
  /\ \A k \in 1..Len(g) : g[k] = s[m - Len(g) + k]

\* One round of the loop.
LEMMA PushKeepsNewest ==
  ASSUME NEW S, NEW s \in Seq(S), NEW m \in Nat, m + 1 <= Len(s),
         NEW g \in Seq(S), NewestOf(g, s, m)
  PROVE  /\ PushEvicting(g, s[m + 1]) \in Seq(S)
         /\ NewestOf(PushEvicting(g, s[m + 1]), s, m + 1)
  <1> DEFINE e == s[m + 1]
             b == IF Len(g) >= MaxRetry THEN Tail(g) ELSE g
             a == Append(b, e)
  <1>1. Len(s) \in Nat /\ Len(g) \in Nat /\ MaxRetry \in Nat /\ MaxRetry >= 1
    BY LenProperties, SizesAssumption
  <1>2. e \in S
    <2>1. m + 1 \in 1..Len(s)
      BY <1>1
    <2> QED
      BY <2>1, ElementOfSeq
  <1>3. /\ Len(g) <= MaxRetry /\ Len(g) <= m /\ (Len(g) = m \/ Len(g) = MaxRetry)
        /\ \A k \in 1..Len(g) : g[k] = s[m - Len(g) + k]
    BY DEF NewestOf
  <1>4. /\ b \in Seq(S) /\ Len(b) \in Nat
        /\ Len(b) + 1 <= MaxRetry /\ Len(b) + 1 <= m + 1
        /\ (Len(b) + 1 = m + 1 \/ Len(b) + 1 = MaxRetry)
        /\ \A k \in 1..Len(b) : b[k] = s[m - Len(b) + k]
    <2>1. CASE Len(g) >= MaxRetry
      <3>1. Len(g) = MaxRetry /\ g # << >> /\ b = Tail(g)
        <4>1. Len(g) = MaxRetry /\ Len(g) # 0
          BY <1>1, <1>3, <2>1
        <4> QED
          BY <2>1, <4>1, EmptySeq
      <3>2. /\ b \in Seq(S) /\ Len(b) = Len(g) - 1
            /\ \A k \in 1..Len(b) : b[k] = g[k + 1]
        BY <3>1, HeadTailProperties
      <3> HIDE DEF b
      <3>3. ASSUME NEW k \in 1..Len(b) PROVE b[k] = s[m - Len(b) + k]
        <4>1. k + 1 \in 1..Len(g) /\ m - Len(g) + (k + 1) = m - Len(b) + k
          BY <1>1, <3>2
        <4>2. b[k] = g[k + 1] /\ g[k + 1] = s[m - Len(g) + (k + 1)]
          BY <1>3, <3>2, <4>1
        <4> QED
          BY <4>1, <4>2
      <3>4. /\ Len(b) \in Nat /\ Len(b) + 1 <= MaxRetry /\ Len(b) + 1 <= m + 1
            /\ Len(b) + 1 = MaxRetry
        BY <1>1, <1>3, <3>1, <3>2
      <3> QED
        BY <3>2, <3>3, <3>4
    <2>2. CASE ~(Len(g) >= MaxRetry)
      <3>1. b = g
        BY <2>2
      <3>2. Len(g) = m /\ Len(g) + 1 <= MaxRetry
        BY <1>1, <1>3, <2>2
      <3> HIDE DEF b
      <3> QED
        BY <1>1, <1>3, <3>1, <3>2
    <2> QED
      BY <2>1, <2>2
  <1> HIDE DEF b, e
  <1>5. /\ a \in Seq(S) /\ Len(a) = Len(b) + 1
        /\ \A k \in 1..Len(b) : a[k] = b[k]
        /\ a[Len(b) + 1] = e
    BY <1>2, <1>4, AppendProperties
  <1> HIDE DEF a
  <1>6. ASSUME NEW k \in 1..Len(a) PROVE a[k] = s[(m + 1) - Len(a) + k]
    <2>1. CASE k \in 1..Len(b)
      <3>1. (m + 1) - Len(a) + k = m - Len(b) + k
        BY <1>4, <1>5
      <3> QED
        BY <1>4, <1>5, <2>1, <3>1
    <2>2. CASE k = Len(b) + 1
      <3>1. (m + 1) - Len(a) + k = m + 1
        BY <1>4, <1>5, <2>2
      <3> QED
        BY <1>5, <2>2, <3>1 DEF e
    <2> QED
      BY <1>4, <1>5, <2>1, <2>2
  <1>7. NewestOf(a, s, m + 1)
    <2>1. /\ Len(a) <= MaxRetry /\ Len(a) <= m + 1
          /\ (Len(a) = m + 1 \/ Len(a) = MaxRetry)
      BY <1>4, <1>5
    <2> QED
      BY <1>6, <2>1 DEF NewestOf
  <1> QED
    BY <1>5, <1>7 DEF PushEvicting, a, b, e

\* Requeue is the push-and-evict loop of write_batch and enqueue_retries, run
\* over any number of events from any queue within its limit: f[i] is the queue
\* after i rounds.
THEOREM RequeueIsTheLoop ==
  ASSUME NEW S, NEW q \in Seq(S), NEW es \in Seq(S), Len(q) <= MaxRetry,
         NEW f, f[0] = q, \A i \in 1..Len(es) : f[i] = PushEvicting(f[i-1], es[i])
  PROVE  f[Len(es)] = Requeue(q, es)
  <1> DEFINE s == q \o es
             n == Len(q)
  <1>1. Len(q) \in Nat /\ Len(es) \in Nat /\ MaxRetry \in Nat
    BY LenProperties, SizesAssumption
  <1>2. /\ s \in Seq(S) /\ Len(s) = n + Len(es)
        /\ \A k \in 1..Len(s) : s[k] = IF k <= n THEN q[k] ELSE es[k - n]
    BY ConcatProperties
  <1> HIDE DEF s
  <1> DEFINE T == {i \in Nat : i <= Len(es) => f[i] \in Seq(S) /\ NewestOf(f[i], s, n + i)}
  <1>3. 0 \in T
    <2>1. \A k \in 1..n : q[k] = s[(n + 0) - n + k]
      BY <1>1, <1>2
    <2>2. NewestOf(q, s, n + 0)
      BY <1>1, <2>1 DEF NewestOf
    <2> QED
      BY <2>2
  <1>4. ASSUME NEW i \in T PROVE i + 1 \in T
    <2> SUFFICES ASSUME i + 1 <= Len(es)
                 PROVE  f[i + 1] \in Seq(S) /\ NewestOf(f[i + 1], s, n + (i + 1))
      OBVIOUS
    <2>1. i \in Nat /\ i <= Len(es) /\ i + 1 \in 1..Len(es) /\ (i + 1) - 1 = i
      BY <1>1
    <2>2. f[i] \in Seq(S) /\ NewestOf(f[i], s, n + i)
      BY <2>1
    <2>3. n + i \in Nat /\ (n + i) + 1 <= Len(s) /\ (n + i) + 1 = n + (i + 1)
      BY <1>1, <1>2, <2>1
    <2>4. s[(n + i) + 1] = es[i + 1]
      <3>1. (n + i) + 1 \in 1..Len(s) /\ ~((n + i) + 1 <= n) /\ ((n + i) + 1) - n = i + 1
        BY <1>1, <2>1, <2>3
      <3> QED
        BY <1>2, <3>1
    <2>5. f[i + 1] = PushEvicting(f[i], es[i + 1])
      BY <2>1
    <2> HIDE DEF n
    <2>6. /\ PushEvicting(f[i], s[(n + i) + 1]) \in Seq(S)
          /\ NewestOf(PushEvicting(f[i], s[(n + i) + 1]), s, (n + i) + 1)
      BY <1>2, <2>2, <2>3, PushKeepsNewest
    <2> QED
      BY <2>3, <2>4, <2>5, <2>6
  <1>5. T = Nat
    <2> HIDE DEF T
    <2>1. T \subseteq Nat
      BY DEF T
    <2> QED
      BY <1>3, <1>4, <2>1, AllNaturals
  <1> DEFINE g == f[Len(es)]
             r == Requeue(q, es)
  <1>6. g \in Seq(S) /\ NewestOf(g, s, Len(s))
    <2>1. \A i \in Nat : i <= Len(es) => f[i] \in Seq(S) /\ NewestOf(f[i], s, n + i)
      BY <1>5
    <2>2. Len(es) <= Len(es)
      BY <1>1
    <2> HIDE DEF T
    <2>3. f[Len(es)] \in Seq(S) /\ NewestOf(f[Len(es)], s, n + Len(es))
      BY <1>1, <2>1, <2>2
    <2> QED
      BY <1>2, <2>3
  <1>7. r = IF Len(s) <= MaxRetry THEN s ELSE SubSeq(s, Len(s) - MaxRetry + 1, Len(s))
    BY DEF Requeue, s
  <1> HIDE DEF g, r, T, n
  <1>8. /\ Len(g) \in Nat /\ Len(s) \in Nat
        /\ Len(g) <= MaxRetry /\ Len(g) <= Len(s) /\ (Len(g) = Len(s) \/ Len(g) = MaxRetry)
        /\ \A k \in 1..Len(g) : g[k] = s[Len(s) - Len(g) + k]
    BY <1>2, <1>6, LenProperties DEF NewestOf
  <1>9. g = r
    <2>1. CASE Len(s) <= MaxRetry
      <3>1. Len(g) = Len(s) /\ r = s
        BY <1>1, <1>7, <1>8, <2>1
      <3>2. \A k \in 1..Len(g) : g[k] = s[k]
        BY <1>8, <3>1
      <3> QED
        BY <1>2, <1>6, <3>1, <3>2, SeqEqual
    <2>2. CASE ~(Len(s) <= MaxRetry)
      <3> DEFINE lo == Len(s) - MaxRetry + 1
      <3>1. r = SubSeq(s, lo, Len(s)) /\ Len(g) = MaxRetry
        BY <1>1, <1>7, <1>8, <2>2
      <3>2. lo \in Int /\ Len(s) \in Int /\ lo <= Len(s) + 1 /\ lo >= 1
        BY <1>1, <1>8, <2>2
      <3>3. \A k \in lo..Len(s) : s[k] \in S
        BY <1>2, <1>8, <3>2, ElementOfSeq
      <3>4. /\ r \in Seq(S)
            /\ Len(r) = IF lo <= Len(s) THEN Len(s) - lo + 1 ELSE 0
            /\ \A k \in 1..(Len(s) - lo + 1) : r[k] = s[lo + k - 1]
        BY <3>1, <3>2, <3>3, SubSeqProperties
      <3>5. Len(r) = Len(g) /\ Len(s) - lo + 1 = Len(g)
        BY <1>1, <1>8, <2>2, <3>1, <3>4
      <3>6. ASSUME NEW k \in 1..Len(g) PROVE g[k] = r[k]
        <4>1. lo + k - 1 = Len(s) - Len(g) + k
          BY <1>1, <1>8, <3>1
        <4> QED
          BY <1>8, <3>4, <3>5, <4>1
      <3> QED
        BY <1>6, <3>4, <3>5, <3>6, SeqEqual
    <2> QED
      BY <2>1, <2>2
  <1> QED
    BY <1>9 DEF g, r

-----------------------------------------------------------------------------
(***************************************************************************)
(* Type correctness and the limits of the buffers.                         *)
(***************************************************************************)

\* What write_batch leaves behind when it has queued events again.
LEMMA EndWriteTypeOK ==
  ASSUME TypeOK, EndWrite, pc \in {"pool", "insert"},
         UNCHANGED <<emitted, channel, chain, event, health, db, restarts>>,
         rows' \in Seq(ChainedEvents),
         retry_queue' \in Seq(ChainedEvents), Len(retry_queue') <= MaxRetry
  PROVE  TypeOK'
  <1>1. /\ batch' = << >> /\ retries' = << >> /\ client' = "none" /\ pc' = "select"
    BY DEF EndWrite
  <1>2. BatchSize \in Nat \ {0} /\ MaxRetry \in Nat \ {0}
    BY SizesAssumption
  <1> QED
    BY <1>1, <1>2 DEF TypeOK

\* Every step of the pipeline keeps TypeOK.
LEMMA TypeOKStep == TypeOK /\ [Next]_vars => TypeOK'
  <1> SUFFICES ASSUME TypeOK, [Next]_vars PROVE TypeOK'
    OBVIOUS
  <1> USE SizesAssumption, BoundsAssumption
  <1>1. CASE \E kind \in Kinds : Arrive(kind)
    <2>1. PICK kind \in Kinds : Arrive(kind)
      BY <1>1
    <2>2. [id |-> emitted + 1, kind |-> kind] \in RawEvent
      BY DEF TypeOK, RawEvent
    <2>3. channel' \in Seq(RawEvent) /\ Len(channel') <= ChannelCap
      BY <2>1, <2>2 DEF Arrive, TypeOK
    <2> QED
      BY <2>1, <2>3 DEF Arrive, TypeOK
  <1>2. CASE Recv
    <2> DEFINE e == Head(channel)
    <2>1. e \in RawEvent /\ channel' \in Seq(RawEvent) /\ Len(channel') <= ChannelCap
      BY <1>2 DEF Recv, TypeOK
    <2>2. e.id \in Nat \ {0} /\ e.kind \in Kinds
      BY <2>1 DEF RawEvent
    <2>3. chain.prev_hash \in Seq(Nat) /\ chain.chain_length \in Nat
      BY DEF TypeOK
    <2>4. Digest(chain.prev_hash, e.id) \in Seq(Nat)
      BY <2>2, <2>3 DEF Digest
    <2>5. event' \in Seq(ChainedEvents) /\ Len(event') = 1
      BY <1>2, <2>2, <2>3, <2>4 DEF Recv, Applied, Payload, ChainedEvents
    <2>6. chain' \in [prev_hash : Seq(Nat), chain_length : Nat]
      BY <1>2, <2>3, <2>4 DEF Recv, Advance, Payload
    <2>7. health' \in [events_processed : Nat, chain_length : Nat, udp_events : Nat]
      <3>1. health.events_processed \in Nat /\ health.udp_events \in Nat
        BY DEF TypeOK
      <3>2. (IF IsWal(e) THEN health.udp_events ELSE health.udp_events + 1) \in Nat
        BY <3>1
      <3> QED
        BY <1>2, <2>3, <3>1, <3>2 DEF Recv
    <2> QED
      BY <1>2, <2>1, <2>5, <2>6, <2>7 DEF Recv, TypeOK
  <1>3. CASE GelfSent
    <2>1. batch' \in Seq(ChainedEvents) /\ Len(batch') = Len(batch) + 1
      <3>1. /\ batch' = batch \o event /\ Len(event) = 1
            /\ batch \in Seq(ChainedEvents) /\ event \in Seq(ChainedEvents)
        BY <1>3 DEF GelfSent, TypeOK
      <3>2. /\ batch \o event \in Seq(ChainedEvents)
            /\ Len(batch \o event) = Len(batch) + Len(event)
        BY <3>1, ConcatProperties
      <3> QED
        BY <3>1, <3>2
    <2>2. Len(batch') \in 1..BatchSize
      BY <1>3, <2>1 DEF GelfSent, TypeOK
    <2> QED
      BY <1>3, <2>1, <2>2 DEF GelfSent, StartWrite, TypeOK
  <1>4. CASE Tick
    <2>1. batch # << >> => Len(batch) \in 1..BatchSize
      BY <1>4 DEF Tick, TypeOK
    <2> QED
      BY <1>4, <2>1 DEF Tick, StartWrite, TypeOK
  <1>5. CASE PoolGetOk
    BY <1>5 DEF PoolGetOk, TypeOK
  <1>6. CASE PoolGetErr
    <2>1. /\ retry_queue' \in Seq(ChainedEvents)
          /\ Len(retry_queue') <= MaxRetry
      BY <1>6, RequeueProperties DEF PoolGetErr, TypeOK
    <2>2. pc \in {"pool", "insert"} /\ rows' \in Seq(ChainedEvents)
      BY <1>6 DEF PoolGetErr, TypeOK
    <2> QED
      BY <1>6, <2>1, <2>2, EndWriteTypeOK DEF PoolGetErr
  <1>7. CASE InsertOk
    <2>1. rows' \in Seq(ChainedEvents) /\ pc \in {"pool", "insert"}
      BY <1>7 DEF InsertOk, AllEvents, TypeOK
    <2>2. retry_queue' \in Seq(ChainedEvents) /\ Len(retry_queue') <= MaxRetry
      BY <1>7 DEF InsertOk, TypeOK
    <2> QED
      BY <1>7, <2>1, <2>2, EndWriteTypeOK DEF InsertOk
  <1>8. CASE InsertErr \/ InsertLostReply
    <2>1. AllEvents \in Seq(ChainedEvents)
      BY DEF AllEvents, TypeOK
    <2>2. rows' \in Seq(ChainedEvents) /\ pc \in {"pool", "insert"}
      <3>1. rows \in Seq(ChainedEvents) /\ rows \o AllEvents \in Seq(ChainedEvents)
        BY <2>1, ConcatProperties DEF TypeOK
      <3> QED
        BY <1>8, <3>1 DEF InsertErr, InsertLostReply
    <2>3. /\ retry_queue' \in Seq(ChainedEvents)
          /\ Len(retry_queue') <= MaxRetry
      BY <1>8, <2>1, RequeueProperties DEF InsertErr, InsertLostReply, AfterError, TypeOK
    <2> QED
      BY <1>8, <2>2, <2>3, EndWriteTypeOK DEF InsertErr, InsertLostReply
  <1>9. CASE DbFails
    BY <1>9 DEF DbFails, TypeOK
  <1>10. CASE DbRecovers
    BY <1>10 DEF DbRecovers, TypeOK
  <1>11. CASE Restart
    <2>1. rows' \in Seq(ChainedEvents)
      <3>1. /\ rows \in Seq(ChainedEvents) /\ AllEvents \in Seq(ChainedEvents)
        BY DEF AllEvents, TypeOK
      <3>2. rows \o AllEvents \in Seq(ChainedEvents)
        BY <3>1, ConcatProperties
      <3> QED
        BY <1>11, <3>1, <3>2 DEF Restart
    <2> QED
      BY <1>11, <2>1 DEF Restart, NewChain, NoHash, TypeOK
  <1>12. CASE UNCHANGED vars
    BY <1>12 DEF vars, TypeOK
  <1> QED
    BY <1>1, <1>2, <1>3, <1>4, <1>5, <1>6, <1>7, <1>8, <1>9, <1>10, <1>11, <1>12
       DEF Next

\* The state always has its type, and channel, batch and retry queue never
\* exceed their limits.
THEOREM TypeCorrect == Spec => []TypeOK
  <1>1. Init => TypeOK
    BY SizesAssumption DEF Init, NewChain, NoHash, TypeOK
  <1> QED
    BY <1>1, TypeOKStep, PTL DEF Spec

-----------------------------------------------------------------------------
(***************************************************************************)
(* The numbering of the events in the channel.                             *)
(***************************************************************************)

\* Every step keeps the channel numbered.
LEMMA ChannelNumberedStep ==
  TypeOK /\ ChannelNumbered /\ [Next]_vars => ChannelNumbered'
  <1> SUFFICES ASSUME TypeOK, ChannelNumbered, [Next]_vars PROVE ChannelNumbered'
    OBVIOUS
  <1>1. emitted \in Nat /\ channel \in Seq(RawEvent) /\ Len(channel) \in Nat
    BY DEF TypeOK
  <1>2. CASE \E kind \in Kinds : Arrive(kind)
    <2>1. PICK kind \in Kinds : Arrive(kind)
      BY <1>2
    <2>2. [id |-> emitted + 1, kind |-> kind] \in RawEvent
      BY <1>1 DEF RawEvent
    <2>3. /\ emitted' = emitted + 1
          /\ Len(channel') = Len(channel) + 1
          /\ \A i \in 1..Len(channel) : channel'[i] = channel[i]
          /\ channel'[Len(channel) + 1].id = emitted + 1
      BY <1>1, <2>1, <2>2, AppendProperties DEF Arrive
    <2>4. /\ Len(channel) <= emitted
          /\ \A i \in 1..Len(channel) : channel[i].id = emitted - Len(channel) + i
      BY DEF ChannelNumbered
    <2>5. ASSUME NEW i \in 1..Len(channel')
          PROVE  channel'[i].id = emitted' - Len(channel') + i
      <3>1. CASE i <= Len(channel)
        <4>1. i \in 1..Len(channel)
          BY <1>1, <3>1
        <4>2. channel'[i].id = emitted - Len(channel) + i
          BY <2>3, <2>4, <4>1
        <4> QED
          BY <1>1, <2>3, <4>2
      <3>2. CASE i = Len(channel) + 1
        <4>1. channel'[i].id = emitted + 1
          BY <2>3, <3>2
        <4> QED
          BY <1>1, <2>3, <3>2, <4>1
      <3> QED
        BY <1>1, <2>3, <3>1, <3>2
    <2>6. Len(channel') <= emitted'
      BY <1>1, <2>3, <2>4
    <2> QED
      BY <2>5, <2>6 DEF ChannelNumbered
  <1>3. CASE Recv
    <2>1. /\ Len(channel) >= 1
          /\ Len(channel') = Len(channel) - 1
          /\ \A i \in 1..Len(channel') : channel'[i] = channel[i + 1]
          /\ emitted' = emitted
      BY <1>1, <1>3, HeadTailProperties DEF Recv
    <2>2. ASSUME NEW i \in 1..Len(channel')
          PROVE  channel'[i].id = emitted' - Len(channel') + i
      <3>1. i + 1 \in 1..Len(channel)
        BY <1>1, <2>1
      <3>2. channel[i + 1].id = emitted - Len(channel) + (i + 1)
        BY <3>1 DEF ChannelNumbered
      <3> QED
        BY <1>1, <2>1, <3>2
    <2> QED
      BY <1>1, <2>1, <2>2 DEF ChannelNumbered
  <1>4. CASE Restart
    BY <1>1, <1>4 DEF Restart, ChannelNumbered
  <1>5. CASE UNCHANGED <<emitted, channel>>
    BY <1>5 DEF ChannelNumbered
  <1> QED
    BY <1>2, <1>3, <1>4, <1>5
       DEF Next, vars, GelfSent, Tick, PoolGetOk, PoolGetErr, InsertOk, InsertErr,
           InsertLostReply, DbFails, DbRecovers

-----------------------------------------------------------------------------
(***************************************************************************)
(* Refinement of AuditTrail.                                               *)
(***************************************************************************)

\* What is pending, by where the processor waits.
LEMMA PendingByPhase ==
  ASSUME TypeOK
  PROVE  /\ Pending \in Seq(ChainedEvents)
         /\ pc = "select" => Pending = retry_queue \o batch
         /\ pc = "gelf" => Pending = (retry_queue \o batch) \o event
         /\ pc \in {"pool", "insert"} => Pending = retries \o batch
  <1>1. /\ retry_queue \in Seq(ChainedEvents) /\ retries \in Seq(ChainedEvents)
        /\ batch \in Seq(ChainedEvents) /\ event \in Seq(ChainedEvents)
    BY DEF TypeOK
  <1>2. Pending \in Seq(ChainedEvents)
    BY <1>1, ConcatProperties DEF Pending
  <1>3. \A s \in Seq(ChainedEvents) : s \o << >> = s /\ << >> \o s = s
    BY ConcatEmptySeq
  <1>4. /\ retry_queue \o batch \in Seq(ChainedEvents)
        /\ retries \o batch \in Seq(ChainedEvents)
    BY <1>1, ConcatProperties
  <1>5. pc # "gelf" => event = << >>
    BY <1>1, EmptySeq DEF TypeOK
  <1>6. ASSUME pc = "select" PROVE Pending = retry_queue \o batch
    <2>1. retries = << >> /\ event = << >>
      BY <1>5, <1>6 DEF TypeOK
    <2> QED
      BY <1>1, <1>3, <1>4, <2>1 DEF Pending
  <1>7. ASSUME pc = "gelf" PROVE Pending = (retry_queue \o batch) \o event
    <2>1. retries = << >>
      BY <1>7 DEF TypeOK
    <2> QED
      BY <1>1, <1>3, <2>1 DEF Pending
  <1>8. ASSUME pc \in {"pool", "insert"} PROVE Pending = retries \o batch
    <2>1. retry_queue = << >> /\ event = << >>
      BY <1>5, <1>8 DEF TypeOK
    <2> QED
      BY <1>1, <1>3, <1>4, <2>1 DEF Pending
  <1> QED
    BY <1>2, <1>6, <1>7, <1>8

\* The same, after a step.
LEMMA PendingByPhaseNext ==
  ASSUME TypeOK'
  PROVE  /\ Pending' \in Seq(ChainedEvents)
         /\ pc' = "select" => Pending' = retry_queue' \o batch'
         /\ pc' = "gelf" => Pending' = (retry_queue' \o batch') \o event'
         /\ pc' \in {"pool", "insert"} => Pending' = retries' \o batch'
  <1>1. /\ retry_queue' \in Seq(ChainedEvents) /\ retries' \in Seq(ChainedEvents)
        /\ batch' \in Seq(ChainedEvents) /\ event' \in Seq(ChainedEvents)
    BY DEF TypeOK
  <1>2. Pending' \in Seq(ChainedEvents)
    BY <1>1, ConcatProperties DEF Pending
  <1>3. \A s \in Seq(ChainedEvents) : s \o << >> = s /\ << >> \o s = s
    BY ConcatEmptySeq
  <1>4. /\ retry_queue' \o batch' \in Seq(ChainedEvents)
        /\ retries' \o batch' \in Seq(ChainedEvents)
    BY <1>1, ConcatProperties
  <1>5. pc' # "gelf" => event' = << >>
    BY <1>1, EmptySeq DEF TypeOK
  <1>6. ASSUME pc' = "select" PROVE Pending' = retry_queue' \o batch'
    <2>1. retries' = << >> /\ event' = << >>
      BY <1>5, <1>6 DEF TypeOK
    <2> QED
      BY <1>1, <1>3, <1>4, <2>1 DEF Pending
  <1>7. ASSUME pc' = "gelf" PROVE Pending' = (retry_queue' \o batch') \o event'
    <2>1. retries' = << >>
      BY <1>7 DEF TypeOK
    <2> QED
      BY <1>1, <1>3, <2>1 DEF Pending
  <1>8. ASSUME pc' \in {"pool", "insert"} PROVE Pending' = retries' \o batch'
    <2>1. retry_queue' = << >> /\ event' = << >>
      BY <1>5, <1>8 DEF TypeOK
    <2> QED
      BY <1>1, <1>3, <1>4, <2>1 DEF Pending
  <1> QED
    BY <1>2, <1>6, <1>7, <1>8

\* The newest n of some events are the newest n when older ones precede them.
LEMMA SuffixOfConcat ==
  ASSUME NEW S, NEW s \in Seq(S), NEW t \in Seq(S), NEW n \in 0..Len(t)
  PROVE  SubSeq(t, Len(t) - n + 1, Len(t)) =
           SubSeq(s \o t, Len(s \o t) - n + 1, Len(s \o t))
  <1> DEFINE st == s \o t
             a == SubSeq(t, Len(t) - n + 1, Len(t))
             b == SubSeq(st, Len(st) - n + 1, Len(st))
  <1>1. /\ st \in Seq(S) /\ Len(st) = Len(s) + Len(t)
        /\ \A i \in 1..Len(t) : st[Len(s) + i] = t[i]
        /\ Len(s) \in Nat /\ Len(t) \in Nat /\ n \in Nat /\ n <= Len(t)
    BY ConcatProperties
  <1> HIDE DEF st
  <1>2. /\ a \in Seq(S) /\ Len(a) = n
        /\ \A i \in 1..n : a[i] = t[Len(t) - n + i]
    <2>1. /\ Len(t) - n + 1 \in Int /\ Len(t) \in Int
          /\ Len(t) - n + 1 <= Len(t) + 1 /\ Len(t) - n + 1 >= 1
      BY <1>1
    <2>2. \A i \in (Len(t) - n + 1)..Len(t) : t[i] \in S
      BY <1>1, <2>1
    <2> QED
      BY <1>1, <2>1, <2>2, SubSeqProperties
  <1>3. /\ b \in Seq(S) /\ Len(b) = n
        /\ \A i \in 1..n : b[i] = st[Len(st) - n + i]
    <2>1. /\ Len(st) - n + 1 \in Int /\ Len(st) \in Int
          /\ Len(st) - n + 1 <= Len(st) + 1 /\ Len(st) - n + 1 >= 1
      BY <1>1
    <2>2. \A i \in (Len(st) - n + 1)..Len(st) : st[i] \in S
      BY <1>1, <2>1
    <2> QED
      BY <1>1, <2>1, <2>2, SubSeqProperties
  <1> HIDE DEF a, b
  <1>4. ASSUME NEW i \in 1..n PROVE a[i] = b[i]
    <2>1. Len(t) - n + i \in 1..Len(t)
      BY <1>1
    <2>2. st[Len(s) + (Len(t) - n + i)] = t[Len(t) - n + i]
      BY <1>1, <2>1
    <2>3. Len(s) + (Len(t) - n + i) = Len(st) - n + i
      BY <1>1
    <2> QED
      BY <1>2, <1>3, <2>2, <2>3
  <1>5. a = b
    BY <1>2, <1>3, <1>4, SeqEqual
  <1> QED
    BY <1>5 DEF a, b, st

\* Pushing the event onto the batch and starting to write it only move events.
LEMMA PendingMoved ==
  ASSUME TypeOK, TypeOK', GelfSent \/ Tick
  PROVE  Pending' = Pending
  <1>1. CASE GelfSent
    <2>1. /\ retry_queue \in Seq(ChainedEvents) /\ batch \in Seq(ChainedEvents)
          /\ event \in Seq(ChainedEvents)
      BY DEF TypeOK
    <2>2. (retry_queue \o batch) \o event = retry_queue \o (batch \o event)
      BY <2>1, ConcatAssociative
    <2>3. Pending = (retry_queue \o batch) \o event
      BY <1>1, PendingByPhase DEF GelfSent
    <2>4. Pending' = retry_queue \o (batch \o event)
      BY <1>1, PendingByPhaseNext DEF GelfSent, StartWrite
    <2> QED
      BY <2>2, <2>3, <2>4
  <1>2. CASE Tick
    <2>1. Pending = retry_queue \o batch
      BY <1>2, PendingByPhase DEF Tick
    <2>2. Pending' = retry_queue \o batch
      BY <1>2, PendingByPhaseNext DEF Tick, StartWrite
    <2> QED
      BY <2>1, <2>2
  <1> QED
    BY <1>1, <1>2

\* When write_batch returns it held every pending event, and what it queued
\* again is what is pending then.
LEMMA PendingAtWriteEnd ==
  ASSUME TypeOK, TypeOK', PoolGetErr \/ InsertOk \/ InsertErr \/ InsertLostReply
  PROVE  /\ Pending = AllEvents /\ Pending' = retry_queue'
         /\ retry_queue = << >>
         /\ retries \in Seq(ChainedEvents) /\ batch \in Seq(ChainedEvents)
         /\ AllEvents \in Seq(ChainedEvents)
  <1>1. pc \in {"pool", "insert"} /\ pc' = "select" /\ batch' = << >>
    BY DEF PoolGetErr, InsertOk, InsertErr, InsertLostReply, EndWrite
  <1>2. /\ retries \in Seq(ChainedEvents) /\ batch \in Seq(ChainedEvents)
        /\ retry_queue = << >> /\ retry_queue' \in Seq(ChainedEvents)
    BY <1>1 DEF TypeOK
  <1>3. Pending = AllEvents /\ Pending \in Seq(ChainedEvents)
    BY <1>1, PendingByPhase DEF AllEvents
  <1>4. Pending' = retry_queue' \o << >>
    BY <1>1, PendingByPhaseNext
  <1>5. retry_queue' \o << >> = retry_queue'
    BY <1>2, ConcatEmptySeq
  <1> QED
    BY <1>2, <1>3, <1>4, <1>5

\* AuditTrail's steps other than its Restart.
RunningStep ==
  \/ \E kind \in Kinds : AT!Chain(kind)
  \/ \E n \in 0..Len(Pending) : AT!Commit(n) \/ AT!Forget(n)
  \/ UNCHANGED AT!vars

\* Each step of the pipeline is a step of AuditTrail, or changes nothing there;
\* only a restart of the process is a restart there.
LEMMA StepMapped ==
  TypeOK /\ TypeOK' /\ ChannelNumbered /\ [Next]_vars =>
    \/ RunningStep /\ restarts' = restarts
    \/ Restart /\ AT!Restart
  <1> SUFFICES ASSUME TypeOK, TypeOK', ChannelNumbered, [Next]_vars
               PROVE  (RunningStep /\ restarts' = restarts) \/ (Restart /\ AT!Restart)
    OBVIOUS
  <1>1. /\ emitted \in Nat /\ channel \in Seq(RawEvent) /\ Len(channel) \in Nat
        /\ Pending \in Seq(ChainedEvents) /\ Len(Pending) \in Nat
        /\ rows \in Seq(ChainedEvents)
    <2>1. Pending \in Seq(ChainedEvents)
      BY PendingByPhase
    <2>2. Len(Pending) \in Nat
      BY <2>1, LenProperties
    <2>3. emitted \in Nat /\ channel \in Seq(RawEvent) /\ rows \in Seq(ChainedEvents)
      BY DEF TypeOK
    <2> QED
      BY <2>1, <2>2, <2>3
  <1>2. CASE \E kind \in Kinds : Arrive(kind)
    <2>1. PICK kind \in Kinds : Arrive(kind)
      BY <1>2
    <2>2. emitted' - Len(channel') = emitted - Len(channel)
      BY <1>1, <2>1 DEF Arrive
    <2> QED
      BY <2>1, <2>2 DEF Arrive, AT!vars, Pending, RunningStep, Received, ChainHead
  <1>3. CASE Recv
    <2> DEFINE e == Head(channel)
    <2>1. e \in RawEvent /\ e.kind \in Kinds /\ e = channel[1] /\ Len(channel) >= 1
      <3>1. e \in RawEvent /\ e = channel[1] /\ Len(channel) >= 1
        BY <1>1, <1>3 DEF Recv
      <3> QED
        BY <3>1 DEF RawEvent
    <2>2. e.id = emitted - Len(channel) + 1
      BY <1>1, <2>1 DEF ChannelNumbered
    <2>3. emitted' - Len(channel') = (emitted - Len(channel)) + 1
      BY <1>1, <1>3 DEF Recv
    <2>4. Pending' = Append(Pending, Applied(e))
      <3>1. Pending = retry_queue \o batch
        BY <1>3, PendingByPhase DEF Recv
      <3>2. Pending' = (retry_queue \o batch) \o <<Applied(e)>>
        BY <1>3, PendingByPhaseNext DEF Recv
      <3>3. Applied(e) \in ChainedEvents
        BY <1>3, <2>1 DEF Recv, TypeOK
      <3> QED
        BY <1>1, <3>1, <3>2, <3>3, AppendIsConcat
    <2>5. Applied(e) = AT!ChainedEvent(e.id, e.kind, chain.prev_hash)
      BY DEF Applied, Payload, AT!ChainedEvent, AT!Digest, Digest
    <2>6. chain'.prev_hash = Digest(chain.prev_hash, e.id)
      BY <1>3 DEF Recv, Advance, Payload
    <2>7. AT!Chain(e.kind)
      BY <1>3, <2>2, <2>3, <2>4, <2>5, <2>6 DEF Recv, AT!Chain, AT!Digest, Digest, Received, ChainHead
    <2> QED
      BY <1>3, <2>1, <2>7 DEF Recv, RunningStep
  <1>4. CASE GelfSent
    BY <1>4, PendingMoved DEF GelfSent, AT!vars, RunningStep, Received, ChainHead
  <1>5. CASE Tick
    BY <1>5, PendingMoved DEF Tick, AT!vars, RunningStep, Received, ChainHead
  <1>6. CASE PoolGetOk \/ DbFails \/ DbRecovers \/ UNCHANGED vars
    BY <1>6 DEF PoolGetOk, DbFails, DbRecovers, vars, AT!vars, Pending,
           RunningStep, Received, ChainHead
  <1>7. ASSUME PoolGetErr \/ InsertOk \/ InsertErr \/ InsertLostReply
        PROVE  /\ Pending = AllEvents /\ Pending' = retry_queue'
               /\ retry_queue = << >>
               /\ retries \in Seq(ChainedEvents) /\ batch \in Seq(ChainedEvents)
               /\ AllEvents \in Seq(ChainedEvents)
    BY <1>7, PendingAtWriteEnd
  <1>8. CASE PoolGetErr
    <2>1. << >> \o batch = batch
      BY <1>7, <1>8, ConcatEmptySeq
    <2>2. retry_queue' = Requeue(<< >>, batch)
      BY <1>7, <1>8 DEF PoolGetErr
    <2>3. PICK n \in 0..Len(batch) :
            retry_queue' = SubSeq(batch, Len(batch) - n + 1, Len(batch))
      <3>1. batch \in Seq(ChainedEvents) /\ << >> \in Seq(ChainedEvents)
        BY <1>7, <1>8
      <3>2. \E n \in 0..Len(<< >> \o batch) :
              Requeue(<< >>, batch) =
                SubSeq(<< >> \o batch, Len(<< >> \o batch) - n + 1, Len(<< >> \o batch))
        BY <3>1, RequeueProperties
      <3> QED
        BY <2>1, <2>2, <3>2
    <2>4. retry_queue' = AT!LastN(Pending, n)
      <3>1. Pending = retries \o batch
        BY <1>7, <1>8 DEF AllEvents
      <3>2. retries \in Seq(ChainedEvents) /\ batch \in Seq(ChainedEvents)
        BY <1>7, <1>8
      <3>3. SubSeq(batch, Len(batch) - n + 1, Len(batch)) =
              SubSeq(retries \o batch, Len(retries \o batch) - n + 1, Len(retries \o batch))
        BY <3>2, SuffixOfConcat
      <3> QED
        BY <2>3, <3>1, <3>3 DEF AT!LastN
    <2>5. n \in 0..Len(Pending)
      BY <1>1, <1>7, <1>8, ConcatProperties DEF AllEvents
    <2>6. AT!Forget(n)
      BY <1>7, <1>8, <2>4 DEF PoolGetErr, AT!Forget, Received, ChainHead
    <2> QED
      BY <1>8, <2>5, <2>6 DEF PoolGetErr, RunningStep
  <1>9. ASSUME InsertErr \/ InsertLostReply
        PROVE  \E n \in 0..Len(Pending) : Pending' = AT!LastN(Pending, n)
    <2>1. << >> \o AllEvents = AllEvents
      BY <1>7, <1>9, ConcatEmptySeq
    <2>2. retry_queue' = Requeue(<< >>, AllEvents)
      BY <1>7, <1>9 DEF InsertErr, InsertLostReply, AfterError
    <2>3. PICK n \in 0..Len(AllEvents) :
            retry_queue' = SubSeq(AllEvents, Len(AllEvents) - n + 1, Len(AllEvents))
      <3>1. AllEvents \in Seq(ChainedEvents) /\ << >> \in Seq(ChainedEvents)
        BY <1>7, <1>9
      <3>2. \E n \in 0..Len(<< >> \o AllEvents) :
              Requeue(<< >>, AllEvents) =
                SubSeq(<< >> \o AllEvents, Len(<< >> \o AllEvents) - n + 1,
                       Len(<< >> \o AllEvents))
        BY <3>1, RequeueProperties
      <3> QED
        BY <2>1, <2>2, <3>2
    <2> QED
      BY <1>7, <1>9, <2>3 DEF AT!LastN
  <1>10. CASE InsertErr
    <2>1. PICK n \in 0..Len(Pending) : Pending' = AT!LastN(Pending, n)
      BY <1>9, <1>10
    <2>2. AT!Forget(n)
      BY <1>10, <2>1 DEF InsertErr, AT!Forget, Received, ChainHead
    <2> QED
      BY <1>10, <2>2 DEF InsertErr, RunningStep
  <1>11. CASE InsertLostReply
    <2>1. PICK n \in 0..Len(Pending) : Pending' = AT!LastN(Pending, n)
      BY <1>9, <1>11
    <2>2. AT!Commit(n)
      BY <1>7, <1>11, <2>1 DEF InsertLostReply, AT!Commit, Received, ChainHead
    <2> QED
      BY <1>11, <2>2 DEF InsertLostReply, RunningStep
  <1>12. CASE InsertOk
    <2>1. Pending' = << >>
      BY <1>7, <1>12 DEF InsertOk
    <2>2. AT!LastN(Pending, 0) = << >>
      <3>1. Len(Pending) - 0 + 1 \in Int /\ Len(Pending) \in Int
        BY <1>1
      <3>2. \A i \in (Len(Pending) - 0 + 1)..Len(Pending) : Pending[i] \in ChainedEvents
        BY <1>1
      <3> QED
        BY <1>1, <3>1, <3>2, SubSeqProperties, EmptySeq DEF AT!LastN
    <2>3. AT!Commit(0)
      BY <1>7, <1>12, <2>1, <2>2 DEF InsertOk, AT!Commit, Received, ChainHead
    <2>4. 0 \in 0..Len(Pending)
      BY <1>1
    <2> QED
      BY <1>12, <2>3, <2>4 DEF InsertOk, RunningStep
  <1>13. CASE Restart
    <2>1. Pending' = << >>
      <3>1. pc' = "select" /\ retry_queue' = << >> /\ batch' = << >>
        BY <1>13 DEF Restart
      <3>2. Pending' = << >> \o << >>
        BY <3>1, PendingByPhaseNext
      <3> QED
        BY <3>2
    <2>2. emitted' - Len(channel') \in Nat /\ emitted' - Len(channel') >= emitted - Len(channel)
      BY <1>1, <1>13 DEF Restart
    <2>3. rows' = rows \/ rows' = rows \o Pending
      <3>1. pc = "insert" => Pending = AllEvents
        BY PendingByPhase DEF AllEvents
      <3> QED
        BY <1>13, <3>1 DEF Restart
    <2>4. AT!Restart
      BY <1>13, <2>1, <2>2, <2>3 DEF Restart, NewChain, NoHash, AT!Restart, AT!NoHash, Received, ChainHead
    <2> QED
      BY <1>13, <2>4
  <1> QED
    BY <1>2, <1>3, <1>4, <1>5, <1>6, <1>8, <1>10, <1>11, <1>12, <1>13 DEF Next

\* Each step of the pipeline refines AuditTrail's next-state relation.
LEMMA StepRefines ==
  TypeOK /\ TypeOK' /\ ChannelNumbered /\ [Next]_vars => [AT!Next]_(AT!vars)
  BY StepMapped DEF RunningStep, AT!Next

\* The pipeline starts with nothing received and nothing held.
LEMMA NothingPendingAtFirst ==
  ASSUME Init
  PROVE  Pending = << >> /\ emitted - Len(channel) = 0
  <1>1. Pending = << >> \o << >> \o << >> \o << >>
    BY DEF Init, Pending
  <1>2. Pending = << >>
    <2>1. << >> \o << >> = << >>
      OBVIOUS
    <2> QED
      BY <1>1, <2>1
  <1>3. emitted - Len(channel) = 0
    <2>1. channel = << >>
      BY DEF Init
    <2>2. Len(channel) = 0
      BY <2>1
    <2>3. emitted = 0
      BY DEF Init
    <2> QED
      BY <2>2, <2>3
  <1> QED
    BY <1>2, <1>3

\* Batching, the retry queue, failed connections, lost replies and restarts
\* never show outside as anything but AuditTrail's steps, for every size of
\* the channel, the batch and the retry queue.
THEOREM Refinement == Spec => ImplementsAuditTrail
  <1>1. Init => ChannelNumbered
    BY DEF Init, ChannelNumbered
  <1>2. Init => AT!Init
    <2> SUFFICES ASSUME Init PROVE AT!Init
      OBVIOUS
    <2>1. Pending = << >> /\ emitted - Len(channel) = 0
      BY NothingPendingAtFirst
    <2> QED
      BY <2>1 DEF Init, NewChain, NoHash, AT!Init, AT!NoHash
  <1> QED
    BY <1>1, <1>2, TypeCorrect, ChannelNumberedStep, StepRefines, PTL
       DEF Spec, ImplementsAuditTrail, AT!Spec

-----------------------------------------------------------------------------
(***************************************************************************)
(* What AuditTrail promises, through the mapping of the pipeline's state:  *)
(* its own actions keep its inductive invariant. Nothing here expands the  *)
(* mapping (Received, ChainHead, Pending).                                 *)
(***************************************************************************)

\* A digest is not the empty hash, and shows what it was made of.
LEMMA DigestLast ==
  ASSUME NEW p \in Seq(Nat), NEW x \in Nat
  PROVE  /\ Append(p, x) # << >>
         /\ Append(p, x)[Len(Append(p, x))] = x
  BY AppendProperties

\* The elements of LastN(s, n).
LEMMA LastNProperties ==
  ASSUME NEW S, NEW s \in Seq(S), NEW n \in 0..Len(s)
  PROVE  /\ AT!LastN(s, n) \in Seq(S)
         /\ Len(AT!LastN(s, n)) = n
         /\ \A i \in 1..n : /\ AT!LastN(s, n)[i] = s[Len(s) - n + i]
                            /\ Len(s) - n + i \in 1..Len(s)
  <1>1. Len(s) \in Nat
    OBVIOUS
  <1>2. \A i \in (Len(s) - n + 1)..Len(s) : s[i] \in S
    BY <1>1
  <1>3. /\ SubSeq(s, Len(s) - n + 1, Len(s)) \in Seq(S)
        /\ Len(SubSeq(s, Len(s) - n + 1, Len(s)))
             = IF Len(s) - n + 1 <= Len(s) THEN Len(s) - (Len(s) - n + 1) + 1 ELSE 0
        /\ \A i \in 1..(Len(s) - (Len(s) - n + 1) + 1) :
             SubSeq(s, Len(s) - n + 1, Len(s))[i] = s[(Len(s) - n + 1) + i - 1]
    <2>1. Len(s) - n + 1 \in Int /\ Len(s) \in Int
      BY <1>1
    <2> QED
      BY <1>2, <2>1, SubSeqProperties
  <1> QED
    BY <1>1, <1>3 DEF AT!LastN

\* Dropping the oldest pending events, or all, keeps what is known of them.
LEMMA SuffixKeepsRun ==
  ASSUME AT!Inv, NEW n \in 0..Len(Pending)
  PROVE  LET q == AT!LastN(Pending, n) IN
         /\ q \in Seq(AT!Records)
         /\ Len(q) = n
         /\ \A i \in 1..n : \E m \in 1..Len(Pending) : q[i] = Pending[m]
         /\ \A i, j \in 1..n : i < j => q[i].id < q[j].id
         /\ AT!Linked(q)
         /\ q # << >> => q[Len(q)].event_hash = ChainHead
  <1> DEFINE q == AT!LastN(Pending, n)
  <1>1. /\ Pending \in Seq(AT!Records)
        /\ Len(Pending) \in Nat
    BY DEF AT!Inv, AT!TypeOK
  <1>2. /\ q \in Seq(AT!Records)
        /\ Len(q) = n
        /\ \A i \in 1..n : /\ q[i] = Pending[Len(Pending) - n + i]
                           /\ Len(Pending) - n + i \in 1..Len(Pending)
    BY <1>1, LastNProperties
  <1> HIDE DEF q
  <1>3. \A i, j \in 1..n : i < j => q[i].id < q[j].id
    <2> SUFFICES ASSUME NEW i \in 1..n, NEW j \in 1..n, i < j
                 PROVE  q[i].id < q[j].id
      OBVIOUS
    <2>1. Len(Pending) - n + i < Len(Pending) - n + j
      BY <1>1
    <2> QED
      BY <1>2, <2>1 DEF AT!Inv, AT!PendingOrdered
  <1>4. AT!Linked(q)
    <2> SUFFICES ASSUME NEW i \in 1..n, NEW j \in 1..n, j = i + 1
                 PROVE  q[j].prev_hash = q[i].event_hash
      BY <1>2 DEF AT!Linked
    <2> DEFINE x == Len(Pending) - n + i
               y == Len(Pending) - n + j
    <2>1. x \in 1..Len(Pending) /\ y \in 1..Len(Pending) /\ y = x + 1
      BY <1>1, <1>2
    <2>2. q[i] = Pending[x] /\ q[j] = Pending[y]
      BY <1>2
    <2>3. \A k, m \in 1..Len(Pending) :
            m = k + 1 => Pending[m].prev_hash = Pending[k].event_hash
      BY DEF AT!Inv, AT!PendingIsChainRun, AT!Linked
    <2> HIDE DEF x, y
    <2> QED
      BY <2>1, <2>2, <2>3
  <1>5. ASSUME q # << >> PROVE q[Len(q)].event_hash = ChainHead
    <2>1. n >= 1
      BY <1>2, <1>5, EmptySeq
    <2>2. q[n] = Pending[Len(Pending)] /\ Pending # << >>
      BY <1>1, <1>2, <2>1
    <2> QED
      BY <1>2, <2>2 DEF AT!Inv, AT!PendingIsChainRun
  <1> QED
    BY <1>2, <1>3, <1>4, <1>5 DEF q

\* The invariant holds at the start.
LEMMA InitInv == AT!Init => AT!Inv
  BY DEF AT!Init, AT!Inv, AT!TypeOK, AT!PendingIsChainRun, AT!Linked, AT!AllChained,
         AT!PendingOrdered, AT!PendingNewOrStored, AT!ReplayOnly, AT!NoHash

-----------------------------------------------------------------------------
\* Chaining one more event keeps the invariant.
LEMMA ChainInv ==
  ASSUME AT!Inv, NEW kind \in Kinds, AT!Chain(kind)
  PROVE  AT!Inv'
  <1> DEFINE e == AT!ChainedEvent(Received + 1, kind, ChainHead)
             n == Len(Pending)
  <1>1. /\ Received \in Nat /\ ChainHead \in Seq(Nat) /\ n \in Nat
        /\ Pending \in Seq(AT!Records) /\ rows \in Seq(AT!Records)
    BY DEF AT!Inv, AT!TypeOK
  <1>2. /\ e \in AT!Records
        /\ e.id = Received + 1
        /\ e.prev_hash = ChainHead
        /\ e.event_hash = AT!Digest(ChainHead, Received + 1)
    BY <1>1 DEF AT!ChainedEvent, AT!Records, AT!Digest
  <1>3. /\ Pending' \in Seq(AT!Records)
        /\ Len(Pending') = n + 1
        /\ \A i \in 1..n : Pending'[i] = Pending[i]
        /\ Pending'[n + 1] = e
    BY <1>1, <1>2 DEF AT!Chain
  <1>4. /\ ChainHead' \in Seq(Nat)
        /\ ChainHead' # AT!NoHash
        /\ ChainHead'[Len(ChainHead')] = Received + 1
        /\ ChainHead' = AT!Digest(ChainHead, Received + 1)
    <2>1. ChainHead' = Append(ChainHead, Received + 1) /\ Received + 1 \in Nat
      BY <1>1 DEF AT!Chain, AT!Digest
    <2>2. /\ ChainHead' \in Seq(Nat) /\ ChainHead' # << >>
          /\ Len(ChainHead') = Len(ChainHead) + 1 /\ ChainHead'[Len(ChainHead) + 1] = Received + 1
      BY <1>1, <2>1, AppendProperties
    <2> QED
      BY <2>1, <2>2 DEF AT!Digest, AT!NoHash
  <1>5. Received' = Received + 1 /\ rows' = rows
    BY DEF AT!Chain
  <1> HIDE DEF e, n
  <1>6. AT!TypeOK'
    BY <1>1, <1>3, <1>4, <1>5 DEF AT!TypeOK
  <1>7. AT!PendingIsChainRun'
    <2>1. AT!Linked(Pending')
      <3> SUFFICES ASSUME NEW i \in 1..(n + 1), NEW j \in 1..(n + 1), j = i + 1
                   PROVE  Pending'[j].prev_hash = Pending'[i].event_hash
        BY <1>3 DEF AT!Linked
      <3>1. CASE j <= n
        <4>1. \A k, m \in 1..n : m = k + 1 => Pending[m].prev_hash = Pending[k].event_hash
          BY DEF AT!Inv, AT!PendingIsChainRun, AT!Linked, n
        <4>2. i \in 1..n /\ j \in 1..n
          BY <1>1, <3>1
        <4> QED
          BY <1>3, <4>1, <4>2
      <3>2. CASE j = n + 1
        <4>1. i = n /\ n >= 1
          BY <1>1, <3>2
        <4>2. Pending # << >> /\ Pending[n].event_hash = ChainHead
          BY <1>1, <4>1 DEF AT!Inv, AT!PendingIsChainRun, n
        <4> QED
          BY <1>1, <1>2, <1>3, <3>2, <4>1, <4>2
      <3> QED
        BY <1>1, <3>1, <3>2
    <2> QED
      BY <1>1, <1>2, <1>3, <1>4, <2>1 DEF AT!PendingIsChainRun
  <1>8. AT!AllChained'
    <2>1. \A r \in AT!Records : AT!Chained(r, Received) => AT!Chained(r, Received + 1)
      BY <1>1 DEF AT!Chained, AT!Records
    <2>2. AT!Chained(e, Received + 1)
      BY <1>1, <1>2 DEF AT!Inv, AT!AllChained, AT!Chained
    <2>3. ASSUME NEW i \in 1..(n + 1) PROVE AT!Chained(Pending'[i], Received + 1)
      <3>1. CASE i <= n
        <4>1. i \in 1..n /\ Pending[i] \in AT!Records /\ AT!Chained(Pending[i], Received)
          BY <1>1, <3>1 DEF AT!Inv, AT!AllChained, n
        <4> QED
          BY <1>3, <2>1, <4>1
      <3>2. CASE i = n + 1
        BY <1>3, <2>2, <3>2
      <3> QED
        BY <1>1, <3>1, <3>2
    <2>4. ASSUME NEW i \in 1..Len(rows) PROVE AT!Chained(rows[i], Received + 1)
      <3>1. rows[i] \in AT!Records /\ AT!Chained(rows[i], Received)
        BY <1>1 DEF AT!Inv, AT!AllChained
      <3> QED
        BY <2>1, <3>1
    <2> QED
      BY <1>3, <1>4, <1>5, <2>3, <2>4 DEF AT!AllChained
  <1>9. \A i \in 1..n : Pending[i].id <= Received
    BY DEF AT!Inv, AT!AllChained, AT!Chained, n
  <1>10. \A i \in 1..Len(rows) : rows[i].id <= Received
    BY DEF AT!Inv, AT!AllChained, AT!Chained
  <1>11. AT!PendingOrdered'
    <2> SUFFICES ASSUME NEW i \in 1..(n + 1), NEW j \in 1..(n + 1), i < j
                 PROVE  Pending'[i].id < Pending'[j].id
      BY <1>3 DEF AT!PendingOrdered
    <2>1. CASE j <= n
      <3>1. i \in 1..n /\ j \in 1..n
        BY <1>1, <2>1
      <3>2. Pending[i].id < Pending[j].id
        BY <3>1 DEF AT!Inv, AT!PendingOrdered, n
      <3> QED
        BY <1>3, <3>1, <3>2
    <2>2. CASE j = n + 1
      <3>1. i \in 1..n /\ Pending[i] \in AT!Records
        BY <1>1, <2>2 DEF n
      <3>2. Pending[i].id \in Nat /\ Pending[i].id <= Received
        BY <1>9, <3>1 DEF AT!Records
      <3>3. Pending'[i] = Pending[i] /\ Pending'[j].id = Received + 1
        BY <1>2, <1>3, <2>2, <3>1
      <3> QED
        BY <1>1, <3>2, <3>3
    <2> QED
      BY <1>1, <2>1, <2>2
  <1>12. AT!PendingNewOrStored'
    <2> SUFFICES ASSUME NEW i \in 1..(n + 1), NEW k \in 1..Len(rows),
                        rows[k].id >= Pending'[i].id
                 PROVE  \E m \in 1..Len(rows) : rows[m] = Pending'[i]
      BY <1>3, <1>5 DEF AT!PendingNewOrStored
    <2>1. CASE i <= n
      <3>1. i \in 1..Len(Pending) /\ Pending'[i] = Pending[i]
        BY <1>1, <1>3, <2>1 DEF n
      <3> QED
        BY <3>1 DEF AT!Inv, AT!PendingNewOrStored
    <2>2. CASE i = n + 1
      <3>1. rows[k].id \in Nat
        <4>1. rows[k] \in AT!Records
          BY <1>1
        <4> QED
          BY <4>1 DEF AT!Records
      <3>2. rows[k].id <= Received
        BY <1>10
      <3>3. Pending'[i].id = Received + 1
        BY <1>2, <1>3, <2>2
      <3> QED
        BY <1>1, <3>1, <3>2, <3>3
    <2> QED
      BY <1>1, <2>1, <2>2
  <1>13. AT!ReplayOnly'
    BY <1>5 DEF AT!Inv, AT!ReplayOnly
  <1> QED
    BY <1>6, <1>7, <1>8, <1>11, <1>12, <1>13 DEF AT!Inv

-----------------------------------------------------------------------------
\* What a step that only shortens the run to a suffix leaves to be shown.
LEMMA ForgetInv ==
  ASSUME AT!Inv, NEW n \in 0..Len(Pending), AT!Forget(n)
  PROVE  AT!Inv'
  <1>1. /\ Received' = Received /\ ChainHead' = ChainHead /\ rows' = rows
        /\ Pending' = AT!LastN(Pending, n)
    BY DEF AT!Forget
  <1>2. /\ Pending' \in Seq(AT!Records)
        /\ Len(Pending') = n
        /\ \A i \in 1..n : \E m \in 1..Len(Pending) : Pending'[i] = Pending[m]
        /\ \A i, j \in 1..n : i < j => Pending'[i].id < Pending'[j].id
        /\ AT!Linked(Pending')
        /\ Pending' # << >> => Pending'[Len(Pending')].event_hash = ChainHead
    BY <1>1, SuffixKeepsRun
  <1>3. AT!TypeOK' /\ AT!PendingIsChainRun' /\ AT!PendingOrdered'
    BY <1>1, <1>2 DEF AT!Inv, AT!TypeOK, AT!PendingIsChainRun, AT!PendingOrdered
  <1>4. AT!AllChained'
    BY <1>1, <1>2 DEF AT!Inv, AT!AllChained
  <1>5. AT!PendingNewOrStored'
    <2> SUFFICES ASSUME NEW i \in 1..n, NEW k \in 1..Len(rows),
                        rows[k].id >= Pending'[i].id
                 PROVE  \E m \in 1..Len(rows) : rows[m] = Pending'[i]
      BY <1>1, <1>2 DEF AT!PendingNewOrStored
    <2>1. PICK m \in 1..Len(Pending) : Pending'[i] = Pending[m]
      BY <1>2
    <2> QED
      BY <2>1 DEF AT!Inv, AT!PendingNewOrStored
  <1>6. AT!ReplayOnly'
    BY <1>1 DEF AT!Inv, AT!ReplayOnly
  <1> QED
    BY <1>3, <1>4, <1>5, <1>6 DEF AT!Inv

\* Appending the whole run to the table keeps the table a chain with replays
\* only, and makes every pending event a stored one.
LEMMA CommitTrail ==
  ASSUME AT!Inv
  PROVE  LET t == rows \o Pending IN
         /\ t \in Seq(AT!Records)
         /\ \A i \in 1..Len(t) : AT!Chained(t[i], Received)
         /\ \A i \in 1..Len(Pending) : \E m \in 1..Len(t) : t[m] = Pending[i]
         /\ \A i \in 1..Len(t) : \A j \in i+1..Len(t) :
              t[j].id <= t[i].id => \E k \in 1..i : t[k] = t[j]
  <1> DEFINE t == rows \o Pending
             a == Len(rows)
             b == Len(Pending)
  <1>1. /\ Received \in Nat /\ a \in Nat /\ b \in Nat
        /\ Pending \in Seq(AT!Records) /\ rows \in Seq(AT!Records)
    BY DEF AT!Inv, AT!TypeOK
  <1>2. /\ t \in Seq(AT!Records)
        /\ Len(t) = a + b
        /\ \A i \in 1..(a + b) : t[i] = IF i <= a THEN rows[i] ELSE Pending[i - a]
    BY <1>1, ConcatProperties
  <1> HIDE DEF t, a, b
  <1>3. \A i \in 1..a : t[i] = rows[i] /\ rows[i] \in AT!Records
    BY <1>1, <1>2 DEF a
  <1>4. \A i \in 1..b : a + i \in 1..(a + b) /\ t[a + i] = Pending[i]
    BY <1>1, <1>2
  <1>5. \A i \in 1..(a + b) : i \in 1..a \/ \E m \in 1..b : i = a + m
    <2> TAKE i \in 1..(a + b)
    <2>1. CASE i <= a
      BY <1>1, <2>1
    <2>2. CASE ~(i <= a)
      <3>1. i - a \in 1..b /\ i = a + (i - a)
        BY <1>1, <2>2
      <3> QED
        BY <3>1
    <2> QED
      BY <2>1, <2>2
  <1>6. \A i \in 1..(a + b) : AT!Chained(t[i], Received)
    BY <1>3, <1>4, <1>5 DEF AT!Inv, AT!AllChained, a, b
  <1>7. ASSUME NEW i \in 1..(a + b), NEW j \in i+1..(a + b), t[j].id <= t[i].id
        PROVE  \E k \in 1..i : t[k] = t[j]
    <2>1. CASE j <= a
      <3>1. i \in 1..a /\ j \in i+1..a
        BY <1>1, <2>1
      <3>2. PICK k \in 1..i : rows[k] = rows[j]
        BY <1>1, <1>3, <1>7, <3>1 DEF AT!Inv, AT!ReplayOnly, a
      <3> QED
        BY <1>1, <1>3, <3>1, <3>2
    <2>2. CASE i <= a /\ j > a
      <3>1. i \in 1..a /\ t[i] = rows[i] /\ rows[i] \in AT!Records
        BY <1>1, <1>3, <2>2
      <3>2. PICK p \in 1..b : j = a + p /\ t[j] = Pending[p] /\ Pending[p] \in AT!Records
        <4>1. j - a \in 1..b /\ j = a + (j - a)
          BY <1>1, <2>2
        <4>2. Pending[j - a] \in AT!Records
          BY <1>1, <4>1 DEF b
        <4> QED
          BY <1>4, <4>1, <4>2
      <3>3. rows[i].id >= Pending[p].id
        BY <1>7, <3>1, <3>2 DEF AT!Records
      <3>4. PICK m \in 1..a : rows[m] = Pending[p]
        BY <3>1, <3>2, <3>3 DEF AT!Inv, AT!PendingNewOrStored, a, b
      <3>5. CASE m <= i
        BY <1>1, <1>3, <3>1, <3>2, <3>4, <3>5
      <3>6. CASE m > i
        <4>1. m \in i+1..a
          BY <1>1, <3>1, <3>6
        <4>2. rows[m].id <= rows[i].id
          BY <3>1, <3>2, <3>3, <3>4 DEF AT!Records
        <4>3. PICK k \in 1..i : rows[k] = rows[m]
          BY <3>1, <4>1, <4>2 DEF AT!Inv, AT!ReplayOnly, a
        <4> QED
          BY <1>1, <1>3, <3>1, <3>2, <3>4, <4>3
      <3> QED
        BY <1>1, <3>1, <3>5, <3>6
    <2>3. CASE i > a
      <3>1. /\ i - a \in 1..b /\ i = a + (i - a)
            /\ j - a \in 1..b /\ j = a + (j - a)
            /\ i - a < j - a
        BY <1>1, <2>3
      <3>2. t[i] = Pending[i - a] /\ t[j] = Pending[j - a]
        BY <1>4, <3>1
      <3>3. Pending[i - a] \in AT!Records /\ Pending[j - a] \in AT!Records
        BY <1>1, <3>1 DEF b
      <3>4. Pending[i - a].id < Pending[j - a].id
        BY <3>1 DEF AT!Inv, AT!PendingOrdered, b
      <3> QED
        BY <1>7, <3>2, <3>3, <3>4 DEF AT!Records
    <2> QED
      BY <1>1, <2>1, <2>2, <2>3
  <1>8. \A i \in 1..b : \E m \in 1..(a + b) : t[m] = Pending[i]
    BY <1>4
  <1> QED
    BY <1>2, <1>6, <1>7, <1>8 DEF t, a, b

\* Storing the run, and keeping a suffix of it, keeps the invariant.
LEMMA CommitInv ==
  ASSUME AT!Inv, NEW n \in 0..Len(Pending), AT!Commit(n)
  PROVE  AT!Inv'
  <1>1. /\ Received' = Received /\ ChainHead' = ChainHead /\ rows' = rows \o Pending
        /\ Pending' = AT!LastN(Pending, n)
    BY DEF AT!Commit
  <1>2. /\ Pending' \in Seq(AT!Records)
        /\ Len(Pending') = n
        /\ \A i \in 1..n : \E m \in 1..Len(Pending) : Pending'[i] = Pending[m]
        /\ \A i, j \in 1..n : i < j => Pending'[i].id < Pending'[j].id
        /\ AT!Linked(Pending')
        /\ Pending' # << >> => Pending'[Len(Pending')].event_hash = ChainHead
    BY <1>1, SuffixKeepsRun
  <1>3. /\ rows' \in Seq(AT!Records)
        /\ \A i \in 1..Len(rows') : AT!Chained(rows'[i], Received)
        /\ \A i \in 1..Len(Pending) : \E m \in 1..Len(rows') : rows'[m] = Pending[i]
        /\ \A i \in 1..Len(rows') : \A j \in i+1..Len(rows') :
             rows'[j].id <= rows'[i].id => \E k \in 1..i : rows'[k] = rows'[j]
    <2> DEFINE t == rows \o Pending
    <2>1. /\ t \in Seq(AT!Records)
          /\ \A i \in 1..Len(t) : AT!Chained(t[i], Received)
          /\ \A i \in 1..Len(Pending) : \E m \in 1..Len(t) : t[m] = Pending[i]
          /\ \A i \in 1..Len(t) : \A j \in i+1..Len(t) :
               t[j].id <= t[i].id => \E k \in 1..i : t[k] = t[j]
      BY CommitTrail
    <2>2. rows' = t
      BY <1>1
    <2> HIDE DEF t
    <2>3. \A i \in 1..Len(t) : \A j \in i+1..Len(t) :
            t[j].id <= t[i].id => \E k \in 1..i : t[k] = t[j]
      BY <2>1
    <2>4. \A i \in 1..Len(rows') : \A j \in i+1..Len(rows') :
            rows'[j].id <= rows'[i].id => \E k \in 1..i : rows'[k] = rows'[j]
      <3> SUFFICES ASSUME NEW i \in 1..Len(t), NEW j \in i+1..Len(t), t[j].id <= t[i].id
                   PROVE  \E k \in 1..i : t[k] = t[j]
        BY <2>2
      <3> QED
        BY <2>3
    <2> QED
      BY <2>1, <2>2, <2>4
  <1>4. AT!TypeOK'
    <2>1. Received \in Nat /\ ChainHead \in Seq(Nat)
      BY DEF AT!Inv, AT!TypeOK
    <2>2. Pending' \in Seq(AT!Records) /\ rows' \in Seq(AT!Records)
      BY <1>2, <1>3
    <2> QED
      BY <1>1, <2>1, <2>2 DEF AT!TypeOK
  <1>5. AT!PendingIsChainRun'
    <2>1. AT!Linked(Pending') /\ (Pending' # << >> => Pending'[Len(Pending')].event_hash = ChainHead)
      BY <1>2
    <2>2. ChainHead' = ChainHead
      BY <1>1
    <2> QED
      BY <2>1, <2>2 DEF AT!PendingIsChainRun
  <1>6. AT!PendingOrdered'
    <2>1. /\ Len(Pending') = n
          /\ \A i, j \in 1..n : i < j => Pending'[i].id < Pending'[j].id
      BY <1>2
    <2> QED
      BY <2>1 DEF AT!PendingOrdered
  <1>7. AT!AllChained'
    <2>1. \A i \in 1..Len(Pending) : AT!Chained(Pending[i], Received)
      BY DEF AT!Inv, AT!AllChained
    <2>2. \A i \in 1..n : AT!Chained(Pending'[i], Received)
      <3> TAKE i \in 1..n
      <3>1. PICK m \in 1..Len(Pending) : Pending'[i] = Pending[m]
        BY <1>2
      <3> QED
        BY <2>1, <3>1
    <2>3. ChainHead # AT!NoHash => ChainHead[Len(ChainHead)] = Received
      BY DEF AT!Inv, AT!AllChained
    <2>4. Len(Pending') = n /\ Received' = Received /\ ChainHead' = ChainHead
      BY <1>1, <1>2
    <2>5. \A i \in 1..Len(rows') : AT!Chained(rows'[i], Received)
      BY <1>3
    <2> QED
      BY <2>2, <2>3, <2>4, <2>5 DEF AT!AllChained
  <1>8. AT!PendingNewOrStored'
    <2> SUFFICES ASSUME NEW i \in 1..n
                 PROVE  \E m \in 1..Len(rows') : rows'[m] = Pending'[i]
      BY <1>2 DEF AT!PendingNewOrStored
    <2>1. PICK k \in 1..Len(Pending) : Pending'[i] = Pending[k]
      BY <1>2
    <2>2. PICK m \in 1..Len(rows') : rows'[m] = Pending[k]
      BY <1>3
    <2> QED
      BY <2>1, <2>2
  <1>9. AT!ReplayOnly'
    BY <1>3 DEF AT!ReplayOnly
  <1> QED
    BY <1>4, <1>5, <1>6, <1>7, <1>8, <1>9 DEF AT!Inv

\* A restart keeps the invariant, whether or not the last INSERT got through.
LEMMA RestartInv ==
  ASSUME AT!Inv, AT!Restart
  PROVE  AT!Inv'
  <1>1. /\ Received' \in Nat /\ Received' >= Received /\ Received \in Nat
        /\ ChainHead' = AT!NoHash /\ Pending' = << >>
        /\ rows' = rows \/ rows' = rows \o Pending
    BY DEF AT!Restart, AT!Inv, AT!TypeOK
  <1>2. /\ rows' \in Seq(AT!Records)
        /\ \A i \in 1..Len(rows') : AT!Chained(rows'[i], Received)
        /\ \A i \in 1..Len(rows') : \A j \in i+1..Len(rows') :
             rows'[j].id <= rows'[i].id => \E k \in 1..i : rows'[k] = rows'[j]
    <2>1. CASE rows' = rows
      <3>1. rows \in Seq(AT!Records) /\ \A i \in 1..Len(rows) : AT!Chained(rows[i], Received)
        BY DEF AT!Inv, AT!TypeOK, AT!AllChained
      <3>2. \A i \in 1..Len(rows) : \A j \in i+1..Len(rows) :
              rows[j].id <= rows[i].id => \E k \in 1..i : rows[k] = rows[j]
        BY DEF AT!Inv, AT!ReplayOnly
      <3> QED
        BY <2>1, <3>1, <3>2
    <2>2. CASE rows' = rows \o Pending
      <3> DEFINE t == rows \o Pending
      <3>1. /\ t \in Seq(AT!Records)
            /\ \A i \in 1..Len(t) : AT!Chained(t[i], Received)
            /\ \A i \in 1..Len(t) : \A j \in i+1..Len(t) :
                 t[j].id <= t[i].id => \E k \in 1..i : t[k] = t[j]
        BY CommitTrail
      <3>2. rows' = t
        BY <2>2
      <3> HIDE DEF t
      <3> QED
        BY <3>1, <3>2
    <2> QED
      BY <1>1, <2>1, <2>2
  <1>3. \A i \in 1..Len(rows') : AT!Chained(rows'[i], Received')
    <2> TAKE i \in 1..Len(rows')
    <2>1. rows'[i] \in AT!Records /\ AT!Chained(rows'[i], Received)
      BY <1>2
    <2> QED
      BY <1>1, <2>1 DEF AT!Chained, AT!Records
  <1>4. AT!TypeOK'
    BY <1>1, <1>2 DEF AT!TypeOK, AT!NoHash
  <1>5. AT!PendingIsChainRun' /\ AT!PendingOrdered' /\ AT!PendingNewOrStored'
    BY <1>1 DEF AT!PendingIsChainRun, AT!Linked, AT!PendingOrdered, AT!PendingNewOrStored
  <1>6. AT!AllChained'
    BY <1>1, <1>3 DEF AT!AllChained
  <1>7. AT!ReplayOnly'
    BY <1>2 DEF AT!ReplayOnly
  <1> QED
    BY <1>4, <1>5, <1>6, <1>7 DEF AT!Inv

-----------------------------------------------------------------------------
\* AuditTrail keeps its inductive invariant.
THEOREM AuditTrailInv == AT!Spec => []AT!Inv
  <1>1. AT!Inv /\ [AT!Next]_(AT!vars) => AT!Inv'
    <2> SUFFICES ASSUME AT!Inv, [AT!Next]_(AT!vars) PROVE AT!Inv'
      OBVIOUS
    <2>1. CASE \E kind \in Kinds : AT!Chain(kind)
      BY <2>1, ChainInv
    <2>2. CASE \E n \in 0..Len(Pending) : AT!Commit(n)
      BY <2>2, CommitInv
    <2>3. CASE \E n \in 0..Len(Pending) : AT!Forget(n)
      BY <2>3, ForgetInv
    <2>4. CASE AT!Restart
      BY <2>4, RestartInv
    <2>5. CASE UNCHANGED AT!vars
      <3>1. /\ Received' = Received /\ ChainHead' = ChainHead
            /\ Pending' = Pending /\ rows' = rows
        BY <2>5 DEF AT!vars
      <3>2. AT!TypeOK' /\ AT!AllChained' /\ AT!PendingOrdered'
        BY <3>1 DEF AT!Inv, AT!TypeOK, AT!AllChained, AT!PendingOrdered
      <3>3. AT!PendingIsChainRun'
        BY <3>1 DEF AT!Inv, AT!PendingIsChainRun
      <3>4. AT!PendingNewOrStored' /\ AT!ReplayOnly'
        BY <3>1 DEF AT!Inv, AT!PendingNewOrStored, AT!ReplayOnly
      <3> QED
        BY <3>2, <3>3, <3>4 DEF AT!Inv
    <2> QED
      BY <2>1, <2>2, <2>3, <2>4, <2>5 DEF AT!Next
  <1> QED
    BY InitInv, <1>1, PTL DEF AT!Spec

\* In every state the invariant describes, linked rows are of consecutive events.
LEMMA InvImpliesComplete == AT!Inv => AT!ValidMeansComplete
  <1> SUFFICES ASSUME AT!Inv,
                      NEW i \in 1..Len(rows), NEW j \in 1..Len(rows),
                      rows[j].prev_hash = rows[i].event_hash
               PROVE  rows[j].id = rows[i].id + 1
    BY DEF AT!ValidMeansComplete
  <1>1. /\ rows[i] \in AT!Records /\ rows[j] \in AT!Records
        /\ AT!Chained(rows[i], Received) /\ AT!Chained(rows[j], Received)
    BY DEF AT!Inv, AT!TypeOK, AT!AllChained
  <1>2. rows[j].prev_hash = Append(rows[i].prev_hash, rows[i].id)
    BY <1>1 DEF AT!Chained, AT!Digest
  <1>3. /\ rows[j].prev_hash # << >>
        /\ rows[j].prev_hash[Len(rows[j].prev_hash)] = rows[i].id
    <2>1. rows[i].prev_hash \in Seq(Nat) /\ rows[i].id \in Nat
      BY <1>1 DEF AT!Records
    <2> QED
      BY <1>2, <2>1, DigestLast
  <1> QED
    BY <1>1, <1>3 DEF AT!Chained, AT!NoHash, AT!Records

-----------------------------------------------------------------------------
(***************************************************************************)
(* What AuditTrail's invariant says about the pipeline.                    *)
(***************************************************************************)

\* AuditTrail's inductive invariant, read through the refinement.
LEMMA PipelineInv == Spec => []AT!Inv
  BY Refinement, AuditTrailInv, PTL DEF ImplementsAuditTrail

\* The events the forwarder holds are always an unbroken run of the chain that
\* ends at its head, whatever was queued, evicted or given up before.
THEOREM HeldIsChainRun == Spec => []PendingIsChainRun
  <1>1. AT!Inv => PendingIsChainRun
    BY DEF AT!Inv, AT!PendingIsChainRun, PendingIsChainRun, Linked, AT!Linked, Received, ChainHead
  <1> QED
    BY <1>1, PipelineInv, PTL

\* Rows of vibe_audit.events that are out of order are always replays.
THEOREM TableReplayOnly == Spec => []ReplayOnly
  <1>1. AT!Inv => ReplayOnly
    BY DEF AT!Inv, AT!ReplayOnly, ReplayOnly
  <1> QED
    BY <1>1, PipelineInv, PTL

\* Rows that are linked are always of consecutive events: what verify_chain()
\* accepts has no hole, whatever was evicted or lost.
THEOREM ValidIsComplete == Spec => []ValidMeansComplete
  <1>1. AT!Inv => ValidMeansComplete
    BY InvImpliesComplete DEF AT!ValidMeansComplete, ValidMeansComplete
  <1> QED
    BY <1>1, PipelineInv, PTL

-----------------------------------------------------------------------------
(***************************************************************************)
(* Why verify_chain() can reject a table that only the forwarder wrote.    *)
(***************************************************************************)

\* Chaining event n + 1 to the events 1, ..., n.
LEMMA HashOfFirstGrows ==
  ASSUME NEW n \in Nat
  PROVE  /\ HashOfFirst(n) \in Seq(Nat)
         /\ Digest(HashOfFirst(n), n + 1) = HashOfFirst(n + 1)
         /\ HashOfFirst(0) = NoHash
  <1>1. /\ HashOfFirst(n) \in Seq(Nat) /\ Len(HashOfFirst(n)) = n
        /\ HashOfFirst(n + 1) \in Seq(Nat) /\ Len(HashOfFirst(n + 1)) = n + 1
    BY DEF HashOfFirst
  <1> DEFINE d == Append(HashOfFirst(n), n + 1)
  <1>2. /\ d \in Seq(Nat) /\ Len(d) = n + 1
        /\ \A i \in 1..n : d[i] = HashOfFirst(n)[i]
        /\ d[n + 1] = n + 1
    BY <1>1, AppendProperties
  <1> HIDE DEF d
  <1>3. \A i \in 1..n+1 : d[i] = i
    BY <1>2 DEF HashOfFirst
  <1>4. \A i \in 1..n+1 : HashOfFirst(n + 1)[i] = i
    BY DEF HashOfFirst
  <1>5. d = HashOfFirst(n + 1)
    BY <1>1, <1>2, <1>3, <1>4, SeqEqual
  <1>6. HashOfFirst(0) = << >>
    BY DEF HashOfFirst
  <1> QED
    BY <1>1, <1>5, <1>6 DEF d, Digest, NoHash

\* The events that stay held after a step of the running process are events
\* held before, and the rows are old rows or events held before.
LEMMA UnbrokenKept ==
  ASSUME Pending \in Seq(ChainedEvents), rows \in Seq(ChainedEvents),
         \A i \in 1..Len(Pending) : Unbroken(Pending[i]),
         \A i \in 1..Len(rows) : Unbroken(rows[i]),
         NEW n \in 0..Len(Pending)
  PROVE  /\ \A i \in 1..Len(AT!LastN(Pending, n)) : Unbroken(AT!LastN(Pending, n)[i])
         /\ \A i \in 1..Len(rows \o Pending) : Unbroken((rows \o Pending)[i])
  <1>1. /\ Len(AT!LastN(Pending, n)) = n
        /\ \A i \in 1..n : /\ AT!LastN(Pending, n)[i] = Pending[Len(Pending) - n + i]
                           /\ Len(Pending) - n + i \in 1..Len(Pending)
    BY LastNProperties
  <1>2. \A i \in 1..Len(rows \o Pending) :
          (rows \o Pending)[i] =
            IF i <= Len(rows) THEN rows[i] ELSE Pending[i - Len(rows)]
    BY ConcatProperties
  <1>3. /\ Len(rows \o Pending) = Len(rows) + Len(Pending)
        /\ Len(rows) \in Nat /\ Len(Pending) \in Nat
    BY ConcatProperties, LenProperties
  <1>4. ASSUME NEW i \in 1..Len(rows \o Pending)
        PROVE  Unbroken((rows \o Pending)[i])
    <2>1. CASE i <= Len(rows)
      <3>1. i \in 1..Len(rows) /\ (rows \o Pending)[i] = rows[i]
        BY <1>2, <1>3, <2>1
      <3> QED
        BY <3>1
    <2>2. CASE ~(i <= Len(rows))
      <3>1. /\ i - Len(rows) \in 1..Len(Pending)
            /\ (rows \o Pending)[i] = Pending[i - Len(rows)]
        BY <1>2, <1>3, <2>2
      <3> QED
        BY <3>1
    <2> QED
      BY <2>1, <2>2
  <1>5. ASSUME NEW i \in 1..Len(AT!LastN(Pending, n))
        PROVE  Unbroken(AT!LastN(Pending, n)[i])
    BY <1>1
  <1> QED
    BY <1>4, <1>5

\* Every step keeps the chain of the first run unbroken.
LEMMA FirstRunStep ==
  TypeOK /\ TypeOK' /\ ChannelNumbered /\ FirstRunUnbroken /\ [Next]_vars
    => FirstRunUnbroken'
  <1> SUFFICES ASSUME TypeOK, TypeOK', ChannelNumbered, FirstRunUnbroken,
                      [Next]_vars, restarts' = 0
               PROVE  FirstRunUnbroken'
    BY DEF FirstRunUnbroken
  <1> DEFINE last == emitted - Len(channel)
  <1>1. RunningStep /\ restarts = 0
    <2>1. CASE RunningStep /\ restarts' = restarts
      BY <2>1
    <2>2. CASE Restart
      <3>1. restarts \in Nat /\ restarts' = restarts + 1
        BY <2>2 DEF Restart, TypeOK
      <3> QED
        BY <3>1
    <2> QED
      BY <2>1, <2>2, StepMapped
  <1>2. /\ chain.prev_hash = HashOfFirst(last)
        /\ \A i \in 1..Len(Pending) : Unbroken(Pending[i])
        /\ \A i \in 1..Len(rows) : Unbroken(rows[i])
    BY <1>1 DEF FirstRunUnbroken
  <1>3. /\ Pending \in Seq(ChainedEvents) /\ rows \in Seq(ChainedEvents)
        /\ last \in Nat
    BY PendingByPhase DEF TypeOK, ChannelNumbered
  <1>4. ASSUME NEW kind \in Kinds, AT!Chain(kind)
        PROVE  FirstRunUnbroken'
    <2> DEFINE r == AT!ChainedEvent(last + 1, kind, chain.prev_hash)
    <2>1. /\ last' = last + 1
          /\ chain'.prev_hash = Digest(chain.prev_hash, last + 1)
          /\ Pending' = Append(Pending, r)
          /\ rows' = rows
      BY <1>4 DEF AT!Chain, AT!Digest, Digest, Received, ChainHead
    <2>2. /\ HashOfFirst(last) \in Seq(Nat)
          /\ Digest(HashOfFirst(last), last + 1) = HashOfFirst(last + 1)
      BY <1>3, HashOfFirstGrows
    <2>3. /\ r.id = last + 1
          /\ r.prev_hash = chain.prev_hash
          /\ r.event_hash = Digest(chain.prev_hash, last + 1)
          /\ r \in ChainedEvents
      BY <1>2, <1>3, <2>2 DEF AT!ChainedEvent, AT!Digest, Digest, ChainedEvents
    <2>4. Unbroken(r)
      <3>1. r.id - 1 = last
        BY <1>3, <2>3
      <3> QED
        BY <1>2, <2>2, <2>3, <3>1 DEF Unbroken
    <2> HIDE DEF r
    <2>5. /\ Len(Pending') = Len(Pending) + 1 /\ Len(Pending) \in Nat
          /\ \A i \in 1..Len(Pending) : Pending'[i] = Pending[i]
          /\ Pending'[Len(Pending) + 1] = r
      BY <1>3, <2>1, <2>3, AppendProperties
    <2>6. \A i \in 1..Len(Pending') : Unbroken(Pending'[i])
      <3> TAKE i \in 1..Len(Pending')
      <3>1. i \in 1..Len(Pending) \/ i = Len(Pending) + 1
        BY <2>5
      <3> QED
        BY <1>2, <2>4, <2>5, <3>1
    <2>7. \A i \in 1..Len(rows') : Unbroken(rows'[i])
      BY <1>2, <2>1
    <2>8. chain'.prev_hash = HashOfFirst(last')
      BY <1>2, <2>1, <2>2
    <2> QED
      BY <2>6, <2>7, <2>8 DEF FirstRunUnbroken, Unbroken
  <1>5. ASSUME NEW n \in 0..Len(Pending), AT!Commit(n) \/ AT!Forget(n)
        PROVE  FirstRunUnbroken'
    <2>1. /\ last' = last /\ chain'.prev_hash = chain.prev_hash
          /\ Pending' = AT!LastN(Pending, n)
          /\ rows' = rows \/ rows' = rows \o Pending
      BY <1>5 DEF AT!Commit, AT!Forget, Received, ChainHead
    <2>2. \A i \in 1..Len(Pending') : Unbroken(Pending'[i])
      BY <1>2, <1>3, <2>1, UnbrokenKept
    <2>3. \A i \in 1..Len(rows') : Unbroken(rows'[i])
      BY <1>2, <1>3, <2>1, UnbrokenKept
    <2>4. chain'.prev_hash = HashOfFirst(last')
      BY <1>2, <2>1
    <2> QED
      BY <2>2, <2>3, <2>4 DEF FirstRunUnbroken, Unbroken
  <1>6. CASE UNCHANGED AT!vars
    <2>1. /\ last' = last /\ chain'.prev_hash = chain.prev_hash
          /\ Pending' = Pending /\ rows' = rows
      BY <1>6 DEF AT!vars, Received, ChainHead
    <2> QED
      BY <1>2, <2>1 DEF FirstRunUnbroken, Unbroken
  <1> QED
    BY <1>1, <1>4, <1>5, <1>6 DEF RunningStep

\* Fewer records follow each other as well, also when a new chain begins.
LEMMA FollowsFewer ==
  ASSUME NEW R, NEW Q, Q \subseteq R, NEW l, NEW h, AT!FollowsIn(R, l, h)
  PROVE  /\ AT!FollowsIn(Q, l, h)
         /\ \A m : AT!FollowsIn(Q, m, AT!NoHash)
  BY DEF AT!FollowsIn

\* One more record, chained to the newest, follows as well.
LEMMA FollowsOneMore ==
  ASSUME NEW R, R \subseteq AT!Records, NEW l \in Nat, NEW h, AT!FollowsIn(R, l, h),
         \A r \in R : r.id <= l,
         NEW e \in AT!Records, e.id = l + 1, e.prev_hash = h
  PROVE  AT!FollowsIn(R \union {e}, l + 1, e.event_hash)
  <1>1. \A r \in R : r.id \in Nat /\ r.id # l + 1 /\ r.id # l + 2
    BY DEF AT!Records
  <1>2. ASSUME NEW r \in R \union {e}, NEW s \in R \union {e},
               s.id = r.id + 1, s.prev_hash # AT!NoHash
        PROVE  s.prev_hash = r.event_hash
    <2>1. CASE r \in R /\ s \in R
      BY <1>2, <2>1 DEF AT!FollowsIn
    <2>2. CASE r \in R /\ s = e
      <3>1. r.id = l /\ h # AT!NoHash
        BY <1>1, <1>2, <2>2
      <3> QED
        BY <2>2, <3>1 DEF AT!FollowsIn
    <2>3. CASE r = e
      <3>1. s.id = l + 2
        BY <1>2, <2>3
      <3> QED
        BY <1>1, <3>1
    <2> QED
      BY <2>1, <2>2, <2>3
  <1>3. \A r \in R \union {e} : r.id = l + 1 => r.event_hash = e.event_hash
    BY <1>1
  <1>4. \A r \in R \union {e} : r.prev_hash # AT!NoHash => r.id > 1
    BY DEF AT!FollowsIn
  <1>5. l + 1 > 0
    OBVIOUS
  <1> QED
    BY <1>2, <1>3, <1>4, <1>5 DEF AT!FollowsIn

\* AuditTrail's steps keep Follows: a record is made once, and only copied or
\* dropped after that.
LEMMA FollowsStep ==
  AT!Inv /\ AT!Follows /\ [AT!Next]_(AT!vars) => AT!Follows'
  <1> SUFFICES ASSUME AT!Inv, AT!Follows, [AT!Next]_(AT!vars) PROVE AT!Follows'
    OBVIOUS
  <1> DEFINE R == AT!RecordsIn(Pending, rows)
             Q == AT!RecordsIn(Pending', rows')
  <1>1. /\ Received \in Nat /\ Pending \in Seq(AT!Records) /\ rows \in Seq(AT!Records)
        /\ AT!FollowsIn(R, Received, ChainHead)
    BY DEF AT!Inv, AT!TypeOK, AT!Follows
  <1>2. R \subseteq AT!Records
    BY <1>1 DEF AT!RecordsIn
  <1>3. \A r \in R : r.id <= Received
    BY DEF AT!RecordsIn, AT!Inv, AT!AllChained, AT!Chained
  <1>4. SUFFICES AT!FollowsIn(Q, Received', ChainHead')
    BY DEF AT!Follows
  <1>5. CASE \E kind \in Kinds : AT!Chain(kind)
    <2>1. PICK kind \in Kinds : AT!Chain(kind)
      BY <1>5
    <2> DEFINE e == AT!ChainedEvent(Received + 1, kind, ChainHead)
               n == Len(Pending)
    <2>2. ChainHead \in Seq(Nat) /\ n \in Nat
      BY <1>1 DEF AT!Inv, AT!TypeOK
    <2>3. /\ e \in AT!Records /\ e.id = Received + 1 /\ e.prev_hash = ChainHead
          /\ e.event_hash = AT!Digest(ChainHead, Received + 1)
      BY <1>1, <2>2 DEF AT!ChainedEvent, AT!Records, AT!Digest
    <2>4. /\ Pending' = Append(Pending, e) /\ rows' = rows
          /\ Received' = Received + 1 /\ ChainHead' = e.event_hash
      BY <2>1, <2>3 DEF AT!Chain
    <2> HIDE DEF e, n
    <2>5. /\ Len(Pending') = n + 1 /\ Pending'[n + 1] = e
          /\ \A i \in 1..n : Pending'[i] = Pending[i]
      BY <1>1, <2>3, <2>4, AppendProperties DEF n
    <2>6. \A i \in 1..Len(Pending') : i \in 1..n \/ i = n + 1
      BY <2>2, <2>5
    <2>7. Q \subseteq R \union {e}
      BY <2>4, <2>5, <2>6 DEF AT!RecordsIn, n
    <2>8. AT!FollowsIn(R \union {e}, Received + 1, e.event_hash)
      BY <1>1, <1>2, <1>3, <2>3, FollowsOneMore
    <2> HIDE DEF Q, R
    <2> QED
      BY <2>4, <2>7, <2>8, FollowsFewer
  <1>6. ASSUME rows' = rows \/ rows' = rows \o Pending,
               \A i \in 1..Len(Pending') : \E m \in 1..Len(Pending) : Pending'[i] = Pending[m]
        PROVE  Q \subseteq R
    <2>1. \A i \in 1..Len(rows') : rows'[i] \in R
      <3>1. CASE rows' = rows
        BY <3>1 DEF AT!RecordsIn
      <3>2. CASE rows' = rows \o Pending
        <4> TAKE i \in 1..Len(rows')
        <4>1. \/ i \in 1..Len(rows) /\ rows'[i] = rows[i]
              \/ i - Len(rows) \in 1..Len(Pending) /\ rows'[i] = Pending[i - Len(rows)]
          BY <1>1, <3>2, ConcatProperties, LenProperties
        <4> QED
          BY <4>1 DEF AT!RecordsIn
      <3> QED
        BY <1>6, <3>1, <3>2
    <2> QED
      BY <1>6, <2>1 DEF AT!RecordsIn
  <1>7. CASE \E n \in 0..Len(Pending) : AT!Commit(n) \/ AT!Forget(n)
    <2>1. PICK n \in 0..Len(Pending) : AT!Commit(n) \/ AT!Forget(n)
      BY <1>7
    <2>2. /\ Received' = Received /\ ChainHead' = ChainHead
          /\ rows' = rows \/ rows' = rows \o Pending
          /\ Pending' = AT!LastN(Pending, n)
      BY <2>1 DEF AT!Commit, AT!Forget
    <2>3. \A i \in 1..Len(Pending') : \E m \in 1..Len(Pending) : Pending'[i] = Pending[m]
      BY <1>1, <2>2, LastNProperties
    <2> HIDE DEF Q, R
    <2> QED
      BY <1>1, <1>6, <2>2, <2>3, FollowsFewer
  <1>8. CASE AT!Restart
    <2>1. /\ ChainHead' = AT!NoHash /\ Len(Pending') = 0
          /\ rows' = rows \/ rows' = rows \o Pending
      BY <1>8 DEF AT!Restart
    <2> HIDE DEF Q, R
    <2> QED
      BY <1>1, <1>6, <2>1, FollowsFewer
  <1>9. CASE UNCHANGED AT!vars
    <2>1. /\ Received' = Received /\ ChainHead' = ChainHead
          /\ Pending' = Pending /\ rows' = rows
      BY <1>9 DEF AT!vars
    <2> QED
      BY <1>1, <2>1
  <1> QED
    BY <1>5, <1>7, <1>8, <1>9 DEF AT!Next

\* Follows, read through the refinement.
LEMMA PipelineFollows == Spec => []AT!Follows
  <1>1. AT!Init => AT!Follows
    <2> SUFFICES ASSUME AT!Init PROVE AT!Follows
      OBVIOUS
    <2>1. Len(Pending) = 0 /\ Len(rows) = 0 /\ ChainHead = AT!NoHash
      BY DEF AT!Init
    <2> QED
      BY <2>1 DEF AT!Follows, AT!FollowsIn, AT!RecordsIn
  <1>2. AT!Spec => []AT!Follows
    BY <1>1, AuditTrailInv, FollowsStep, PTL DEF AT!Spec
  <1> QED
    BY <1>2, Refinement, PTL DEF ImplementsAuditTrail

\* A row that continues the numbers of the row before it is good where it stands,
\* unless it begins the chain of a later start.
LEMMA FollowingIsGood ==
  ASSUME TypeOK, AT!Inv, AT!Follows, FirstRunUnbroken
  PROVE  BreakHasCause
  <1> SUFFICES ASSUME NEW i \in 1..Len(rows), rows[i].id = IdBefore(i) + 1,
                      ~(restarts > 0 /\ rows[i].prev_hash = NoHash)
               PROVE  GoodAt(rows, i, Payload)
    BY DEF BreakHasCause
  <1>1. /\ rows[i] \in ChainedEvents /\ Len(rows) \in Nat /\ restarts \in Nat
        /\ rows[i].event_hash = Digest(rows[i].prev_hash, rows[i].id)
    BY LenProperties DEF TypeOK, AT!Inv, AT!AllChained, AT!Chained, AT!Digest, Digest
  <1>2. rows[i].prev_hash = HashBefore(rows, i)
    <2>1. CASE i = 1
      <3>1. rows[i].id = 1
        BY <2>1 DEF IdBefore
      <3>2. rows[i].prev_hash = << >>
        <4>1. CASE restarts = 0
          <5>1. rows[i].prev_hash = HashOfFirst(rows[i].id - 1)
            BY <4>1 DEF FirstRunUnbroken, Unbroken
          <5>2. HashOfFirst(0) = NoHash
            BY HashOfFirstGrows
          <5> QED
            BY <3>1, <5>1, <5>2 DEF NoHash
        <4>2. CASE restarts # 0
          <5>1. rows[i] \in AT!RecordsIn(Pending, rows)
            BY DEF AT!RecordsIn
          <5>2. ~(rows[i].id > 1)
            BY <3>1
          <5> QED
            BY <5>1, <5>2 DEF AT!Follows, AT!FollowsIn, AT!NoHash
        <4> QED
          BY <4>1, <4>2
      <3> QED
        BY <2>1, <3>2 DEF HashBefore, NoHash
    <2>2. CASE i # 1
      <3>1. i - 1 \in 1..Len(rows) /\ rows[i].id = rows[i - 1].id + 1
        BY <1>1, <2>2 DEF IdBefore
      <3>2. CASE restarts = 0
        <4>1. /\ rows[i].prev_hash = HashOfFirst(rows[i].id - 1)
              /\ rows[i - 1].event_hash = HashOfFirst(rows[i - 1].id)
          BY <3>1, <3>2 DEF FirstRunUnbroken, Unbroken
        <4>2. rows[i - 1] \in ChainedEvents
          BY <3>1 DEF TypeOK
        <4>3. rows[i].id - 1 = rows[i - 1].id
          BY <3>1, <4>2 DEF ChainedEvents
        <4> QED
          BY <2>2, <4>1, <4>3 DEF HashBefore
      <3>3. CASE restarts # 0
        <4>1. rows[i].prev_hash # NoHash
          BY <1>1, <3>3
        <4>2. /\ rows[i] \in AT!RecordsIn(Pending, rows)
              /\ rows[i - 1] \in AT!RecordsIn(Pending, rows)
          BY <3>1 DEF AT!RecordsIn
        <4>3. rows[i].prev_hash = rows[i - 1].event_hash
          BY <3>1, <4>1, <4>2 DEF AT!Follows, AT!FollowsIn, AT!NoHash, NoHash
        <4> QED
          BY <2>2, <4>3 DEF HashBefore
      <3> QED
        BY <3>2, <3>3
    <2> QED
      BY <2>1, <2>2
  <1> QED
    BY <1>1, <1>2 DEF GoodAt, Payload

\* A row of a table that only the forwarder wrote is rejected by verify_chain()
\* only where events are missing or repeated, or where a restart began a new
\* chain; after any number of restarts.
THEOREM BreakCause == Spec => []BreakHasCause
  <1>1. Init => ChannelNumbered
    BY DEF Init, ChannelNumbered
  <1>2. Init => FirstRunUnbroken
    <2> SUFFICES ASSUME Init PROVE FirstRunUnbroken
      OBVIOUS
    <2>1. Pending = << >> /\ rows = << >> /\ emitted - Len(channel) = 0
      BY NothingPendingAtFirst DEF Init
    <2>2. chain.prev_hash = HashOfFirst(0)
      BY HashOfFirstGrows DEF Init, NewChain
    <2> QED
      BY <2>1, <2>2 DEF FirstRunUnbroken
  <1>3. Spec => []FirstRunUnbroken
    BY <1>1, <1>2, TypeCorrect, ChannelNumberedStep, FirstRunStep, PTL DEF Spec
  <1> QED
    BY <1>3, TypeCorrect, PipelineInv, PipelineFollows, FollowingIsGood, PTL

-----------------------------------------------------------------------------
(***************************************************************************)
(* How events can be lost.                                                 *)
(***************************************************************************)

\* A retry queue that is not filled by Requeue has lost nothing.
LEMMA RequeueLosesOnlyWhenFull ==
  ASSUME NEW S, NEW es \in Seq(S), Len(Requeue(<< >>, es)) # MaxRetry
  PROVE  Requeue(<< >>, es) = es
  <1>1. /\ << >> \o es = es /\ Len(es) \in Nat /\ MaxRetry \in Nat \ {0}
    BY ConcatEmptySeq, LenProperties, SizesAssumption
  <1>2. Requeue(<< >>, es) = IF Len(es) <= MaxRetry THEN es
                             ELSE SubSeq(es, Len(es) - MaxRetry + 1, Len(es))
    BY <1>1 DEF Requeue
  <1>3. ASSUME ~(Len(es) <= MaxRetry) PROVE FALSE
    <2> DEFINE m == Len(es) - MaxRetry + 1
    <2>1. m \in Int /\ Len(es) \in Int /\ m <= Len(es) /\ m >= 1
      BY <1>1, <1>3
    <2>2. \A i \in m..Len(es) : es[i] \in S
      BY <1>1, <2>1
    <2>3. Len(SubSeq(es, m, Len(es))) = Len(es) - m + 1
      BY <2>1, <2>2, SubSeqProperties
    <2>4. Len(es) - m + 1 = MaxRetry
      BY <1>1
    <2> QED
      BY <1>2, <1>3, <2>3, <2>4
  <1> QED
    BY <1>2, <1>3

\* What a run of events holds is in every run it is a part of.
LEMMA InConcat ==
  ASSUME NEW S, NEW s \in Seq(S), NEW t \in Seq(S)
  PROVE  /\ \A i \in 1..Len(s) : IsIn(s[i], s \o t)
         /\ \A i \in 1..Len(t) : IsIn(t[i], s \o t)
  <1>1. /\ Len(s \o t) = Len(s) + Len(t) /\ Len(s) \in Nat /\ Len(t) \in Nat
        /\ \A i \in 1..Len(s) : (s \o t)[i] = s[i]
        /\ \A i \in 1..Len(t) : (s \o t)[Len(s) + i] = t[i]
    BY ConcatProperties, LenProperties
  <1>2. ASSUME NEW i \in 1..Len(s) PROVE IsIn(s[i], s \o t)
    <2>1. i \in 1..Len(s \o t) /\ (s \o t)[i] = s[i]
      BY <1>1
    <2> QED
      BY <2>1 DEF IsIn
  <1>3. ASSUME NEW i \in 1..Len(t) PROVE IsIn(t[i], s \o t)
    <2>1. Len(s) + i \in 1..Len(s \o t) /\ (s \o t)[Len(s) + i] = t[i]
      BY <1>1
    <2> QED
      BY <2>1 DEF IsIn
  <1> QED
    BY <1>2, <1>3

\* No step loses an event for any other reason than the four named.
LEMMA LossStep ==
  ASSUME TypeOK, TypeOK', ChannelNumbered, [Next]_vars,
         NEW i \in 1..Len(Pending)
  PROVE  \/ IsIn(Pending[i], Pending') \/ IsIn(Pending[i], rows')
         \/ Len(retry_queue') = MaxRetry
         \/ restarts' # restarts
         \/ PoolGetErr /\ i <= Len(retries)
  <1> DEFINE Goal == \/ IsIn(Pending[i], Pending') \/ IsIn(Pending[i], rows')
                     \/ Len(retry_queue') = MaxRetry
                     \/ restarts' # restarts
                     \/ PoolGetErr /\ i <= Len(retries)
  <1>1. /\ Pending \in Seq(ChainedEvents) /\ rows \in Seq(ChainedEvents)
        /\ retries \in Seq(ChainedEvents) /\ batch \in Seq(ChainedEvents)
        /\ retry_queue \in Seq(ChainedEvents) /\ event \in Seq(ChainedEvents)
        /\ Len(Pending) \in Nat /\ restarts \in Nat
    BY PendingByPhase, LenProperties DEF TypeOK
  <1>2. ASSUME Pending' = Pending PROVE Goal
    BY <1>2 DEF IsIn
  <1>3. CASE \/ \E kind \in Kinds : Arrive(kind)
             \/ PoolGetOk \/ DbFails \/ DbRecovers \/ UNCHANGED vars
    BY <1>2, <1>3 DEF Arrive, PoolGetOk, DbFails, DbRecovers, vars, Pending
  <1>4. CASE Recv
    <2>1. Pending = retry_queue \o batch
      BY <1>4, PendingByPhase DEF Recv
    <2>2. Pending' = Pending \o event'
      BY <1>4, <2>1, PendingByPhaseNext DEF Recv
    <2>3. event' \in Seq(ChainedEvents)
      BY DEF TypeOK
    <2>4. IsIn(Pending[i], Pending \o event')
      BY <1>1, <2>3, InConcat
    <2> QED
      BY <2>2, <2>4
  <1>5. CASE GelfSent \/ Tick
    BY <1>2, <1>5, PendingMoved
  <1>7. ASSUME PoolGetErr \/ InsertOk \/ InsertErr \/ InsertLostReply
        PROVE  /\ Pending = retries \o batch /\ AllEvents = Pending
               /\ retry_queue = << >> /\ Pending' = retry_queue'
    BY <1>7, PendingAtWriteEnd DEF AllEvents
  <1>8. CASE PoolGetErr
    <2>1. CASE i <= Len(retries)
      BY <1>8, <2>1
    <2>2. CASE ~(i <= Len(retries))
      <3>1. /\ i - Len(retries) \in 1..Len(batch)
            /\ Pending[i] = batch[i - Len(retries)]
        BY <1>1, <1>7, <1>8, <2>2, ConcatProperties
      <3>2. retry_queue' = Requeue(<< >>, batch)
        BY <1>7, <1>8 DEF PoolGetErr
      <3>3. Len(retry_queue') # MaxRetry => Pending' = batch
        BY <1>1, <1>7, <1>8, <3>2, RequeueLosesOnlyWhenFull
      <3>4. IsIn(Pending[i], batch)
        BY <3>1 DEF IsIn
      <3> QED
        BY <3>3, <3>4
    <2> QED
      BY <2>1, <2>2
  <1>9. CASE InsertOk \/ InsertLostReply
    <2>1. rows' = rows \o Pending
      BY <1>7, <1>9 DEF InsertOk, InsertLostReply
    <2>2. IsIn(Pending[i], rows \o Pending)
      BY <1>1, InConcat
    <2> QED
      BY <2>1, <2>2
  <1>10. CASE InsertErr
    <2>1. retry_queue' = Requeue(<< >>, Pending)
      BY <1>7, <1>10 DEF InsertErr, AfterError
    <2>2. Len(retry_queue') # MaxRetry => Pending' = Pending
      BY <1>1, <1>7, <1>10, <2>1, RequeueLosesOnlyWhenFull
    <2> QED
      BY <1>2, <2>2
  <1>11. CASE Restart
    BY <1>1, <1>11 DEF Restart
  <1> QED
    BY <1>3, <1>4, <1>5, <1>8, <1>9, <1>10, <1>11 DEF Next

\* An event that is neither stored nor held any longer was evicted from a full
\* retry queue, died with the process, or had been taken from the retry queue
\* when no connection was to be had.
THEOREM LossCause == Spec => LossHasCause
  <1>1. Init => ChannelNumbered
    BY DEF Init, ChannelNumbered
  <1>2. TypeOK /\ TypeOK' /\ ChannelNumbered /\ [Next]_vars =>
          [\A i \in 1..Len(Pending) :
             \/ IsIn(Pending[i], Pending') \/ IsIn(Pending[i], rows')
             \/ Len(retry_queue') = MaxRetry
             \/ restarts' # restarts
             \/ PoolGetErr /\ i <= Len(retries)]_vars
    BY LossStep
  <1> QED
    BY <1>1, <1>2, TypeCorrect, ChannelNumberedStep, PTL DEF Spec, LossHasCause

-----------------------------------------------------------------------------
(***************************************************************************)
(* What the limit of a statement does to a long retry queue.               *)
(***************************************************************************)

\* Requeue keeps all events up to the limit, and fills the queue beyond it.
LEMMA RequeueLength ==
  ASSUME NEW S, NEW es \in Seq(S)
  PROVE  Len(Requeue(<< >>, es)) = MaxRetry \/ Requeue(<< >>, es) = es
  BY RequeueLosesOnlyWhenFull

\* No step shortens what waits, once it no longer fits into a statement.
LEMMA OverlongStep ==
  ASSUME TypeOK, TypeOK', ChannelNumbered, [Next]_vars,
         Waiting >= MaxInsertRows, restarts' = restarts, ~PoolGetErr
  PROVE  rows' = rows /\ Waiting' >= MaxInsertRows
  <1>1. /\ retries \in Seq(ChainedEvents) /\ batch \in Seq(ChainedEvents)
        /\ retry_queue \in Seq(ChainedEvents)
        /\ Len(retries) \in Nat /\ Len(retry_queue) \in Nat /\ Len(batch) \in Nat
        /\ MaxInsertRows \in Nat /\ MaxRetry \in Nat /\ MaxInsertRows < MaxRetry
    BY LenProperties, SizesAssumption, OrderAssumption DEF TypeOK
  <1>2. CASE retries' = retries /\ retry_queue' = retry_queue /\ rows' = rows
    BY <1>2 DEF Waiting
  <1>3. CASE StartWrite /\ retries = << >> /\ rows' = rows
    <2>1. /\ Len(retries') = Len(retry_queue) /\ Len(retry_queue') = 0
          /\ Len(retries) = 0
      BY <1>3 DEF StartWrite
    <2> QED
      BY <1>1, <1>3, <2>1 DEF Waiting
  <1>4. ASSUME pc = "insert"
        PROVE  /\ AllEvents \in Seq(ChainedEvents)
               /\ Len(AllEvents) = Len(retries) + Len(batch)
               /\ Len(batch) >= 1 /\ retry_queue = << >> /\ Len(retry_queue) = 0
    <2>1. Len(batch) \in 1..BatchSize /\ retry_queue = << >>
      BY <1>4 DEF TypeOK
    <2>2. Len(retry_queue) = 0
      BY <2>1
    <2>3. Len(batch) >= 1
      BY <2>1, SizesAssumption
    <2> QED
      BY <1>1, <2>1, <2>2, <2>3, ConcatProperties DEF AllEvents
  <1>5. ASSUME pc = "insert" PROVE Len(AllEvents) > MaxInsertRows
    BY <1>1, <1>4, <1>5 DEF Waiting
  <1>6. CASE InsertErr
    <2>1. /\ pc = "insert" /\ rows' = rows /\ Len(retries') = 0
          /\ retry_queue' = Requeue(<< >>, AllEvents)
      BY <1>4, <1>6 DEF InsertErr, AfterError, EndWrite
    <2>2. Len(retry_queue') = MaxRetry \/ retry_queue' = AllEvents
      BY <1>4, <2>1, RequeueLength
    <2>3. Len(retry_queue') >= MaxInsertRows
      BY <1>1, <1>4, <1>5, <2>1, <2>2
    <2>4. Len(retry_queue') \in Nat
      BY LenProperties DEF TypeOK
    <2> QED
      BY <1>1, <2>1, <2>3, <2>4 DEF Waiting
  <1>7. CASE InsertOk \/ InsertLostReply
    <2>1. pc = "insert" /\ Len(AllEvents) <= MaxInsertRows
      BY <1>7 DEF InsertOk, InsertLostReply, Insertable
    <2> QED
      BY <1>1, <1>4, <1>5, <2>1
  <1>8. CASE Restart
    <2>1. restarts \in Nat /\ restarts' = restarts + 1
      BY <1>8 DEF Restart, TypeOK
    <2> QED
      BY <2>1
  <1>9. CASE GelfSent
    <2>1. retries = << >>
      BY <1>9 DEF GelfSent, TypeOK
    <2> QED
      BY <1>2, <1>3, <1>9, <2>1 DEF GelfSent
  <1>10. CASE Tick
    <2>1. retries = << >>
      BY <1>10 DEF Tick, TypeOK
    <2> QED
      BY <1>2, <1>3, <1>10, <2>1 DEF Tick
  <1>11. CASE \/ \E kind \in Kinds : Arrive(kind)
              \/ Recv \/ PoolGetOk \/ DbFails \/ DbRecovers \/ UNCHANGED vars
    BY <1>2, <1>11 DEF Arrive, Recv, PoolGetOk, DbFails, DbRecovers, vars
  <1> QED
    BY <1>6, <1>7, <1>8, <1>9, <1>10, <1>11 DEF Next

\* Once as many events wait as a statement can hold, nothing is stored any more
\* and no fewer wait, until a restart or until a failed pool drops them.
THEOREM OverlongStays == Spec => OverlongQueueStays
  <1>1. Init => ChannelNumbered
    BY DEF Init, ChannelNumbered
  <1>2. TypeOK /\ TypeOK' /\ ChannelNumbered /\ [Next]_vars =>
          [Waiting >= MaxInsertRows /\ restarts' = restarts =>
             PoolGetErr \/ (rows' = rows /\ Waiting' >= MaxInsertRows)]_vars
    BY OverlongStep
  <1> QED
    BY <1>1, <1>2, TypeCorrect, ChannelNumberedStep, PTL DEF Spec, OverlongQueueStays
=============================================================================
