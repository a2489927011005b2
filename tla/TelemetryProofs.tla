--------------------------- MODULE TelemetryProofs ---------------------------
(***************************************************************************)
(* Proofs about what the forwarder tells of itself, for every sequence of  *)
(* WAL lines and their LSNs, every size of the channel and any number of   *)
(* datagrams, heartbeats and requests at a time.                           *)
(***************************************************************************)
EXTENDS Telemetry, SequenceTheorems, FiniteSetTheorems, TLAPS

-----------------------------------------------------------------------------
(***************************************************************************)
(* Counting: the lines with a row change, the copies in the GELF stream,   *)
(* the capture's events in the channel.                                    *)
(***************************************************************************)

\* The members of a set up to n + 1 are those up to n, and n + 1 if it is one.
LEMMA CountOneMore ==
  ASSUME NEW S, NEW n \in Nat
  PROVE  /\ Cardinality(S \intersect (1..n)) \in Nat
         /\ Cardinality(S \intersect (1..n + 1)) =
              Cardinality(S \intersect (1..n)) + (IF n + 1 \in S THEN 1 ELSE 0)
  <1> DEFINE T == S \intersect (1..n)
  <1>1. IsFiniteSet(1..n)
    BY FS_Interval
  <1>2. IsFiniteSet(T)
    BY <1>1, FS_Subset
  <1>3. Cardinality(T) \in Nat
    BY <1>2, FS_CardinalityType
  <1>4. CASE n + 1 \in S
    <2>1. S \intersect (1..n + 1) = T \union {n + 1}
      BY <1>4
    <2>2. n + 1 \notin T
      OBVIOUS
    <2> HIDE DEF T
    <2>3. Cardinality(T \union {n + 1}) = Cardinality(T) + 1
      BY <1>2, <2>2, FS_AddElement
    <2> QED
      BY <1>3, <1>4, <2>1, <2>3 DEF T
  <1>5. CASE n + 1 \notin S
    <2>1. S \intersect (1..n + 1) = T
      BY <1>5
    <2> HIDE DEF T
    <2> QED
      BY <1>3, <1>5, <2>1 DEF T
  <1> QED
    BY <1>4, <1>5

\* The members of a set up to n are no more than those up to a larger number.
LEMMA CountMonotone ==
  ASSUME NEW S, NEW n \in Nat, NEW k \in Nat, k <= n
  PROVE  Cardinality(S \intersect (1..k)) <= Cardinality(S \intersect (1..n))
  <1>1. IsFiniteSet(1..n)
    BY FS_Interval
  <1>2. IsFiniteSet(S \intersect (1..n))
    BY <1>1, FS_Subset
  <1>3. S \intersect (1..k) \subseteq S \intersect (1..n)
    OBVIOUS
  <1> QED
    BY <1>2, <1>3, FS_Subset

\* Line by line, the row changes are counted; there are none before the first.
LEMMA RowsOneMore ==
  ASSUME NEW k \in Nat \ {0}
  PROVE  /\ RowsBefore(k) \in Nat
         /\ RowsBefore(k + 1) = RowsBefore(k) + (IF IsRow(k) THEN 1 ELSE 0)
  <1> DEFINE S == {n \in Nat : IsRow(n)}
  <1>1. PICK j \in Nat : k = j + 1
    <2>1. k - 1 \in Nat /\ k = (k - 1) + 1
      OBVIOUS
    <2> QED
      BY <2>1
  <1>2. {n \in 1..k - 1 : IsRow(n)} = S \intersect (1..j)
    BY <1>1
  <1>3. {n \in 1..(k + 1) - 1 : IsRow(n)} = S \intersect (1..j + 1)
    BY <1>1
  <1>4. (j + 1 \in S) <=> IsRow(k)
    BY <1>1
  <1> HIDE DEF S
  <1>5. /\ Cardinality(S \intersect (1..j)) \in Nat
        /\ Cardinality(S \intersect (1..j + 1)) =
             Cardinality(S \intersect (1..j)) + (IF j + 1 \in S THEN 1 ELSE 0)
    BY <1>1, CountOneMore
  <1> QED
    BY <1>2, <1>3, <1>4, <1>5 DEF RowsBefore

LEMMA RowsMonotone ==
  ASSUME NEW k \in Nat, NEW n \in Nat \ {0}, k <= n
  PROVE  RowsBefore(k) \in Nat /\ RowsBefore(k) <= RowsBefore(n)
  <1> DEFINE T == {i \in 1..k - 1 : IsRow(i)}
             U == {i \in 1..n - 1 : IsRow(i)}
  <1>1. IsFiniteSet(1..n - 1) /\ IsFiniteSet(1..k - 1)
    BY FS_Interval
  <1>2. IsFiniteSet(U) /\ IsFiniteSet(T)
    BY <1>1, FS_Subset
  <1>3. T \subseteq U
    OBVIOUS
  <1> HIDE DEF T, U
  <1>4. Cardinality(T) \in Nat /\ Cardinality(T) <= Cardinality(U)
    BY <1>2, <1>3, FS_Subset, FS_CardinalityType
  <1> QED
    BY <1>4 DEF RowsBefore, T, U

\* Message by message, the copies are counted.
LEMMA CopiesOneMore ==
  ASSUME NEW messages, NEW n \in Nat
  PROVE  /\ CopiesIn(messages, n) \in Nat
         /\ CopiesIn(messages, n + 1) =
              CopiesIn(messages, n) + (IF IsCopy(messages[n + 1]) THEN 1 ELSE 0)
  <1> DEFINE S == {m \in Nat : IsCopy(messages[m])}
  <1>1. /\ {m \in 1..n : IsCopy(messages[m])} = S \intersect (1..n)
        /\ {m \in 1..n + 1 : IsCopy(messages[m])} = S \intersect (1..n + 1)
    OBVIOUS
  <1>2. (n + 1 \in S) <=> IsCopy(messages[n + 1])
    OBVIOUS
  <1> HIDE DEF S
  <1> QED
    BY <1>1, <1>2, CountOneMore DEF CopiesIn

LEMMA CopiesMonotone ==
  ASSUME NEW messages, NEW n \in Nat, NEW k \in Nat, k <= n
  PROVE  CopiesIn(messages, k) <= CopiesIn(messages, n)
  <1> DEFINE S == {m \in Nat : IsCopy(messages[m])}
  <1>1. /\ {m \in 1..n : IsCopy(messages[m])} = S \intersect (1..n)
        /\ {m \in 1..k : IsCopy(messages[m])} = S \intersect (1..k)
    OBVIOUS
  <1> HIDE DEF S
  <1> QED
    BY <1>1, CountMonotone DEF CopiesIn

\* A copy's place in the chain is at least 1.
LEMMA CopyHasPlace ==
  ASSUME NEW messages, NEW m \in Nat \ {0}, IsCopy(messages[m])
  PROVE  CopiesIn(messages, m) \in Nat \ {0}
  <1>1. PICK j \in Nat : m = j + 1
    <2>1. m - 1 \in Nat /\ m = (m - 1) + 1
      OBVIOUS
    <2> QED
      BY <2>1
  <1>2. /\ CopiesIn(messages, j) \in Nat
        /\ CopiesIn(messages, j + 1) =
             CopiesIn(messages, j) + (IF IsCopy(messages[j + 1]) THEN 1 ELSE 0)
    BY <1>1, CopiesOneMore
  <1> QED
    BY <1>1, <1>2

\* A message at the end does not change the count before it.
LEMMA CopiesOfAppend ==
  ASSUME NEW messages \in Seq(Messages), NEW message \in Messages
  PROVE  /\ \A n \in 0..Len(messages) :
              CopiesIn(Append(messages, message), n) = CopiesIn(messages, n)
         /\ CopiesIn(Append(messages, message), Len(messages) + 1) =
              CopiesIn(messages, Len(messages)) + (IF IsCopy(message) THEN 1 ELSE 0)
  <1> DEFINE longer == Append(messages, message)
  <1>1. /\ longer \in Seq(Messages) /\ Len(longer) = Len(messages) + 1
        /\ \A i \in 1..Len(messages) : longer[i] = messages[i]
        /\ longer[Len(messages) + 1] = message
    BY AppendProperties
  <1>2. Len(messages) \in Nat
    BY LenProperties
  <1> HIDE DEF longer
  <1>3. ASSUME NEW n \in 0..Len(messages)
        PROVE  CopiesIn(longer, n) = CopiesIn(messages, n)
    <2>1. \A m \in 1..n : longer[m] = messages[m]
      BY <1>1, <1>2
    <2>2. {m \in 1..n : IsCopy(longer[m])} = {m \in 1..n : IsCopy(messages[m])}
      BY <2>1
    <2> QED
      BY <2>2 DEF CopiesIn
  <1>4. CopiesIn(longer, Len(messages)) = CopiesIn(messages, Len(messages))
    BY <1>2, <1>3
  <1>5. CopiesIn(longer, Len(messages) + 1) =
          CopiesIn(longer, Len(messages)) + (IF IsCopy(longer[Len(messages) + 1]) THEN 1 ELSE 0)
    BY <1>2, CopiesOneMore
  <1> QED
    BY <1>1, <1>3, <1>4, <1>5 DEF longer

\* What waits in the channel is counted.
LEMMA WaitingCount ==
  ASSUME NEW events \in Seq(Events), NEW n \in Nat
  PROVE  /\ IsFiniteSet(WalWaiting(events, n))
         /\ Cardinality(WalWaiting(events, n)) \in Nat
  <1>1. IsFiniteSet(n + 1..n + Len(events))
    BY FS_Interval, LenProperties
  <1>2. WalWaiting(events, n) \subseteq n + 1..n + Len(events)
    BY DEF WalWaiting
  <1> QED
    BY <1>1, <1>2, FS_Subset, FS_CardinalityType

\* tx.send adds one event.
LEMMA WaitingOfAppend ==
  ASSUME NEW events \in Seq(Events), NEW event \in Events, NEW n \in Nat
  PROVE  Cardinality(WalWaiting(Append(events, event), n)) =
           Cardinality(WalWaiting(events, n)) + (IF event.source = "wal" THEN 1 ELSE 0)
  <1> DEFINE longer == Append(events, event)
             last == n + Len(events) + 1
             S == WalWaiting(events, n)
             T == WalWaiting(longer, n)
  <1>1. /\ longer \in Seq(Events) /\ Len(longer) = Len(events) + 1
        /\ \A i \in 1..Len(events) : longer[i] = events[i]
        /\ longer[Len(events) + 1] = event
    BY AppendProperties
  <1>2. Len(events) \in Nat
    BY LenProperties
  <1> HIDE DEF longer
  <1>3. \A k \in n + 1..n + Len(events) : longer[k - n] = events[k - n]
    BY <1>1, <1>2
  <1>4. longer[last - n] = event /\ last \in Nat
    BY <1>1, <1>2
  <1>5. \A k \in n + 1..n + Len(longer) : k = last \/ k \in n + 1..n + Len(events)
    BY <1>1, <1>2
  <1>6. last \in n + 1..n + Len(longer) /\ last \notin n + 1..n + Len(events)
    BY <1>1, <1>2
  <1>7. \A k \in n + 1..n + Len(events) : k \in n + 1..n + Len(longer)
    BY <1>1, <1>2
  <1>8. last \notin S
    BY <1>6 DEF WalWaiting
  <1>9. IsFiniteSet(S) /\ Cardinality(S) \in Nat
    BY WaitingCount
  <1>10. CASE event.source = "wal"
    <2>1. T = S \union {last}
      <3> HIDE DEF last
      <3> QED
        BY <1>3, <1>4, <1>5, <1>6, <1>7, <1>10 DEF WalWaiting
    <2> HIDE DEF S, T, last
    <2>2. Cardinality(T) = Cardinality(S) + 1
      BY <1>8, <1>9, <2>1, FS_AddElement
    <2> QED
      BY <1>10, <2>2 DEF S, T, longer
  <1>11. CASE event.source # "wal"
    <2>1. T = S
      <3> HIDE DEF last
      <3> QED
        BY <1>3, <1>4, <1>5, <1>6, <1>7, <1>11 DEF WalWaiting
    <2> HIDE DEF S, T
    <2> QED
      BY <1>9, <1>11, <2>1 DEF S, T, longer
  <1> QED
    BY <1>10, <1>11

\* rx.recv takes the first.
LEMMA WaitingOfTail ==
  ASSUME NEW events \in Seq(Events), events # << >>, NEW n \in Nat
  PROVE  Cardinality(WalWaiting(events, n)) =
           Cardinality(WalWaiting(Tail(events), n + 1))
             + (IF Head(events).source = "wal" THEN 1 ELSE 0)
  <1> DEFINE rest == Tail(events)
             S == WalWaiting(events, n)
             T == WalWaiting(rest, n + 1)
  <1>1. /\ rest \in Seq(Events) /\ Len(rest) = Len(events) - 1
        /\ \A i \in 1..Len(rest) : rest[i] = events[i + 1]
        /\ Head(events) = events[1]
    BY HeadTailProperties
  <1>2. Len(events) \in Nat /\ Len(events) >= 1
    BY LenProperties, EmptySeq
  <1> HIDE DEF rest
  <1>3. \A k \in n + 2..n + Len(events) : rest[k - (n + 1)] = events[k - n]
    <2> TAKE k \in n + 2..n + Len(events)
    <2>1. k - (n + 1) \in 1..Len(rest) /\ (k - (n + 1)) + 1 = k - n
      BY <1>1, <1>2
    <2> QED
      BY <1>1, <2>1
  <1>4. (n + 1) + 1..(n + 1) + Len(rest) = n + 2..n + Len(events)
    BY <1>1, <1>2
  <1>5. events[(n + 1) - n] = Head(events)
    BY <1>1
  <1>6. \A k \in n + 1..n + Len(events) : k = n + 1 \/ k \in n + 2..n + Len(events)
    BY <1>2
  <1>7. n + 1 \in n + 1..n + Len(events) /\ n + 1 \notin n + 2..n + Len(events)
    BY <1>2
  <1>8. \A k \in n + 2..n + Len(events) : k \in n + 1..n + Len(events) /\ k # n + 1
    BY <1>2
  <1>9. T = {k \in n + 2..n + Len(events) : events[k - n].source = "wal"}
    BY <1>3, <1>4 DEF WalWaiting
  <1>10. IsFiniteSet(T) /\ Cardinality(T) \in Nat
    <2>1. n + 1 \in Nat
      OBVIOUS
    <2> QED
      BY <1>1, <2>1, WaitingCount
  <1>11. n + 1 \notin T
    BY <1>7, <1>9
  <1>12. CASE Head(events).source = "wal"
    <2>1. S = T \union {n + 1}
      <3> HIDE DEF T
      <3> QED
        BY <1>5, <1>6, <1>7, <1>8, <1>9, <1>12 DEF WalWaiting
    <2> HIDE DEF S, T
    <2>2. Cardinality(S) = Cardinality(T) + 1
      BY <1>10, <1>11, <2>1, FS_AddElement
    <2> QED
      BY <1>12, <2>2 DEF S, T, rest
  <1>13. CASE Head(events).source # "wal"
    <2>1. S = T
      <3> HIDE DEF T
      <3> QED
        BY <1>5, <1>6, <1>7, <1>8, <1>9, <1>13 DEF WalWaiting
    <2> HIDE DEF S, T
    <2> QED
      BY <1>10, <1>13, <2>1 DEF S, T, rest
  <1> QED
    BY <1>12, <1>13

-----------------------------------------------------------------------------
(***************************************************************************)
(* The shapes.                                                             *)
(***************************************************************************)

\* An event as it is sent.
LEMMA NewEvent ==
  ASSUME sent \in Nat, NEW source \in {"udp", "wal"}
  PROVE  [id |-> sent + 1, source |-> source, hash |-> Null] \in Events
  <1>1. sent + 1 \in Nat
    OBVIOUS
  <1> QED
    BY <1>1 DEF Events

\* tx.send: the channel gets one event longer and stays within its limit.
LEMMA SendEffect ==
  ASSUME Shapes, NEW source \in {"udp", "wal"}, Send(source)
  PROVE  /\ channel' = Append(channel, [id |-> sent + 1, source |-> source, hash |-> Null])
         /\ channel' \in Seq(Events)
         /\ Len(channel') = Len(channel) + 1 /\ Len(channel') <= ChannelCap
         /\ \A n \in Nat : Cardinality(WalWaiting(channel', n)) =
              Cardinality(WalWaiting(channel, n)) + (IF source = "wal" THEN 1 ELSE 0)
  <1> DEFINE event == [id |-> sent + 1, source |-> source, hash |-> Null]
  <1>1. event \in Events /\ event.source = source
    BY NewEvent DEF Shapes
  <1>2. /\ channel' = Append(channel, event) /\ channel \in Seq(Events)
        /\ Len(channel) < ChannelCap
    BY DEF Send, Enqueue, Shapes
  <1> HIDE DEF event
  <1>3. channel' \in Seq(Events) /\ Len(channel') = Len(channel) + 1
    BY <1>1, <1>2, AppendProperties
  <1>4. Len(channel') <= ChannelCap
    BY <1>2, <1>3, LenProperties, BoundsAssumption
  <1>5. \A n \in Nat : Cardinality(WalWaiting(channel', n)) =
          Cardinality(WalWaiting(channel, n)) + (IF source = "wal" THEN 1 ELSE 0)
    BY <1>1, <1>2, WaitingOfAppend
  <1> QED
    BY <1>2, <1>3, <1>4, <1>5 DEF event

\* What gelf.send hands to the socket.
LEMMA CopyEffect ==
  ASSUME Shapes, StreamInv, GelfSend
  PROVE  \E message \in Messages :
           /\ gelf' = Append(gelf, message)
           /\ IsCopy(message)
           /\ chain # << >> /\ message.event = chain[Len(chain)] /\ message.event_hash = chain
  <1>1. gelf' = Append(gelf, to_gelf(processor.event))
    BY DEF GelfSend, Copy
  <1> DEFINE message == [event |-> processor.event.id, event_hash |-> processor.event.hash]
  <1>2. /\ processor.event \in Events /\ chain # << >> /\ chain \in Seq(Nat)
        /\ processor.event.id = chain[Len(chain)] /\ processor.event.hash = chain
    BY DEF GelfSend, Shapes, StreamInv
  <1>3. processor.event.id \in Nat
    BY <1>2 DEF Events
  <1>4. message \in Messages
    BY <1>2, <1>3 DEF Messages
  <1>5. IsCopy(message)
    BY DEF IsCopy
  <1>6. gelf' = Append(gelf, message)
    BY <1>1 DEF to_gelf
  <1>7. message.event = chain[Len(chain)] /\ message.event_hash = chain
    BY <1>2
  <1> HIDE DEF message
  <1> QED
    BY <1>2, <1>4, <1>5, <1>6, <1>7

\* What heartbeat_loop hands to the socket.
LEMMA HeartbeatEffect ==
  ASSUME StreamInv, HeartbeatSend
  PROVE  \E message \in Messages :
           gelf' = Append(gelf, message) /\ ~IsCopy(message) /\ message.heartbeat = heartbeat
  <1> DEFINE message == [heartbeat |-> heartbeat]
  <1>1. message \in Messages
    BY DEF StreamInv, HeartbeatSend, Messages
  <1>2. ~IsCopy(message) /\ message.heartbeat = heartbeat
    BY DEF IsCopy
  <1>3. gelf' = Append(gelf, message)
    BY DEF HeartbeatSend
  <1> HIDE DEF message
  <1> QED
    BY <1>1, <1>2, <1>3

\* A step of the handler of request h.
HandlerMoves(h) == ReadHealth(h) \/ ReadLsn(h) \/ ReadWalEvents(h) \/ Respond(h)

\* EXCEPT changes a function at one place.
LEMMA ExceptAt ==
  ASSUME NEW S, NEW f, f = [x \in S |-> f[x]], NEW h \in S, NEW e
  PROVE  /\ [f EXCEPT ![h] = e] = [x \in S |-> [f EXCEPT ![h] = e][x]]
         /\ [f EXCEPT ![h] = e][h] = e
         /\ \A x \in S : x # h => [f EXCEPT ![h] = e][x] = f[x]
  <1> DEFINE g == [f EXCEPT ![h] = e]
  <1>1. DOMAIN f = S
    OBVIOUS
  <1>2. g = [x \in DOMAIN f |-> IF x = h THEN e ELSE f[x]]
    OBVIOUS
  <1>3. g = [x \in S |-> IF x = h THEN e ELSE f[x]]
    BY <1>1, <1>2
  <1> HIDE DEF g
  <1>4. /\ g = [x \in S |-> g[x]]
        /\ g[h] = e
        /\ \A x \in S : x # h => g[x] = f[x]
    BY <1>3
  <1> QED
    BY <1>4 DEF g

\* A step of one handler leaves the others and all counters alone.
LEMMA MoveEffect ==
  ASSUME Shapes, NEW h \in Handlers, HandlerMoves(h)
  PROVE  /\ handler' = [g \in Handlers |-> handler'[g]]
         /\ floor' = [g \in Handlers |-> floor'[g]]
         /\ \A g \in Handlers : handler'[g].pc \in {"idle", "lsn", "wal", "udp"}
         /\ \A g \in Handlers : g # h => handler'[g] = handler[g] /\ floor'[g] = floor[g]
         /\ UNCHANGED <<channel, senders, pipeline, heartbeat, heartbeats, gelf>>
  <1>0. /\ handler = [g \in Handlers |-> handler[g]] /\ floor = [g \in Handlers |-> floor[g]]
        /\ \A g \in Handlers : handler[g].pc \in {"idle", "lsn", "wal", "udp"}
    BY DEF Shapes
  <1>1. UNCHANGED <<channel, senders, pipeline, heartbeat, heartbeats, gelf>>
    BY DEF HandlerMoves, ReadHealth, ReadLsn, ReadWalEvents, Respond
  <1>2. \E r : handler' = [handler EXCEPT ![h] = r] /\ r.pc \in {"idle", "lsn", "wal", "udp"}
    <2>1. CASE ReadHealth(h)
      <3> DEFINE r == [pc |-> "lsn", health |-> Snapshot]
      <3>1. handler' = [handler EXCEPT ![h] = r] /\ r.pc = "lsn"
        BY <2>1 DEF ReadHealth
      <3> HIDE DEF r
      <3> QED
        BY <3>1
    <2>2. CASE ReadLsn(h)
      <3> DEFINE r == [pc |-> "wal", health |-> handler[h].health, wal_lsn |-> wal_lsn]
      <3>1. handler' = [handler EXCEPT ![h] = r] /\ r.pc = "wal"
        BY <2>2 DEF ReadLsn
      <3> HIDE DEF r
      <3> QED
        BY <3>1
    <2>3. CASE ReadWalEvents(h)
      <3> DEFINE r == [pc |-> "udp", health |-> handler[h].health,
                       wal_lsn |-> handler[h].wal_lsn, wal_events |-> wal_events]
      <3>1. handler' = [handler EXCEPT ![h] = r] /\ r.pc = "udp"
        BY <2>3 DEF ReadWalEvents
      <3> HIDE DEF r
      <3> QED
        BY <3>1
    <2>4. CASE Respond(h)
      <3> DEFINE r == [pc |-> "idle"]
      <3>1. handler' = [handler EXCEPT ![h] = r] /\ r.pc = "idle"
        BY <2>4 DEF Respond
      <3> HIDE DEF r
      <3> QED
        BY <3>1
    <2> QED
      BY <2>1, <2>2, <2>3, <2>4 DEF HandlerMoves
  <1>3. \E f : floor' = [floor EXCEPT ![h] = f] \/ floor' = floor
    BY DEF HandlerMoves, ReadHealth, ReadLsn, ReadWalEvents, Respond
  <1>4. PICK r : handler' = [handler EXCEPT ![h] = r] /\ r.pc \in {"idle", "lsn", "wal", "udp"}
    BY <1>2
  <1>5. /\ handler' = [g \in Handlers |-> handler'[g]] /\ handler'[h] = r
        /\ \A g \in Handlers : g # h => handler'[g] = handler[g]
    BY <1>0, <1>4, ExceptAt
  <1>6. PICK f : floor' = [floor EXCEPT ![h] = f] \/ floor' = floor
    BY <1>3
  <1>7. /\ floor' = [g \in Handlers |-> floor'[g]]
        /\ \A g \in Handlers : g # h => floor'[g] = floor[g]
    BY <1>0, <1>6, ExceptAt
  <1> QED
    BY <1>0, <1>1, <1>4, <1>5, <1>7

\* Every step keeps the shapes.
LEMMA ShapesStep == Inv /\ [Next]_vars => Shapes'
  <1> SUFFICES ASSUME Inv, [Next]_vars PROVE Shapes'
    OBVIOUS
  <1> USE DEF senders, pipeline, readers, endpoint
  <1>0. Shapes /\ Len(WalLines) \in Nat
    BY LinesAssumption, LenProperties DEF Inv
  <1>1. CASE UdpSend
    <2>1. channel' \in Seq(Events) /\ Len(channel') <= ChannelCap
      BY <1>0, <1>1, SendEffect DEF UdpSend
    <2>2. sent' \in Nat /\ udp_sent' \in Nat
      BY <1>0, <1>1 DEF UdpSend, Shapes
    <2>3. UNCHANGED <<capture, wal_events, wal_lsn, pipeline, readers, gelf>>
      BY <1>1 DEF UdpSend
    <2> QED
      BY <1>0, <2>1, <2>2, <2>3 DEF Shapes
  <1>2. CASE CaptureLine
    <2>1. capture.line \in 1..Len(WalLines) /\ capture.line + 1 \in 1..Len(WalLines) + 1
      BY <1>0, <1>2 DEF CaptureLine, Shapes
    <2>2. wal_lsn' \in Nat
      <3>1. WalLines[capture.line] \in [kind : {"ROW", "BEGIN", "COMMIT"}, lsn : Nat \ {0}]
        BY <2>1, LinesAssumption, ElementOfSeq
      <3> QED
        BY <1>2, <3>1 DEF CaptureLine
    <2>3. CASE IsRow(capture.line)
      <3>1. capture' = [capture EXCEPT !.pc = "count"]
        BY <1>2, <2>3 DEF CaptureLine
      <3>2. /\ capture' \in [pc : {"line", "count", "send"}, line : 1..Len(WalLines) + 1]
            /\ capture'.line <= Len(WalLines) /\ IsRow(capture'.line)
        <4>1. capture \in [pc : {"line", "count", "send"}, line : 1..Len(WalLines) + 1]
          BY <1>0 DEF Shapes
        <4>2. capture'.line = capture.line
          BY <3>1, <4>1
        <4> QED
          BY <1>0, <2>1, <2>3, <3>1, <4>1, <4>2
      <3> QED
        BY <1>0, <1>2, <2>2, <3>2 DEF CaptureLine, Shapes
    <2>4. CASE ~IsRow(capture.line)
      <3>1. capture' = [capture EXCEPT !.line = @ + 1] /\ capture.pc = "line"
        BY <1>2, <2>4 DEF CaptureLine
      <3>2. /\ capture' \in [pc : {"line", "count", "send"}, line : 1..Len(WalLines) + 1]
            /\ capture'.pc = "line"
        BY <1>0, <2>1, <3>1 DEF Shapes
      <3> QED
        BY <1>0, <1>2, <2>2, <3>2 DEF CaptureLine, Shapes
    <2> QED
      BY <2>3, <2>4
  <1>3. CASE CaptureCount
    <2>1. wal_events' \in Nat
      BY <1>0, <1>3 DEF CaptureCount, Shapes
    <2>2. capture' = [capture EXCEPT !.pc = "send"] /\ capture.pc = "count"
      BY <1>3 DEF CaptureCount
    <2>3. /\ capture' \in [pc : {"line", "count", "send"}, line : 1..Len(WalLines) + 1]
          /\ capture'.line <= Len(WalLines) /\ IsRow(capture'.line)
      BY <1>0, <2>2 DEF Shapes
    <2> QED
      BY <1>0, <1>3, <2>1, <2>3 DEF CaptureCount, Shapes
  <1>4. CASE CaptureSend
    <2>1. channel' \in Seq(Events) /\ Len(channel') <= ChannelCap
      BY <1>0, <1>4, SendEffect DEF CaptureSend
    <2>2. sent' \in Nat
      BY <1>0, <1>4 DEF CaptureSend, Shapes
    <2>3. capture.line + 1 \in 1..Len(WalLines) + 1
      BY <1>0, <1>4 DEF CaptureSend, Shapes
    <2>4. /\ capture' \in [pc : {"line", "count", "send"}, line : 1..Len(WalLines) + 1]
          /\ capture'.pc = "line"
      BY <1>4, <2>3 DEF CaptureSend
    <2> QED
      BY <1>0, <1>4, <2>1, <2>2, <2>4 DEF CaptureSend, Shapes
  <1>5. CASE Recv
    <2>1. /\ Head(channel) \in Events /\ Tail(channel) \in Seq(Events)
          /\ Len(Tail(channel)) = Len(channel) - 1
      BY <1>0, <1>5, HeadTailProperties DEF Recv, Shapes
    <2>2. channel' \in Seq(Events) /\ Len(channel') <= ChannelCap
      BY <1>0, <1>5, <2>1, BoundsAssumption, LenProperties DEF Recv, Shapes
    <2>3. udp_events' \in Nat
      BY <1>0, <1>5 DEF Recv, Shapes
    <2>4. processor'.pc = "apply" /\ processor'.event \in Events
      BY <1>5, <2>1 DEF Recv
    <2> QED
      BY <1>0, <1>5, <2>2, <2>3, <2>4 DEF Recv, Shapes
  <1>6. CASE Apply
    <2>1. processor.event \in Events /\ chain \in Seq(Nat)
      BY <1>0, <1>6 DEF Apply, Shapes
    <2>2. processor.event.id \in Nat
      BY <2>1 DEF Events
    <2>3. chain' \in Seq(Nat)
      BY <1>6, <2>1, <2>2, AppendProperties DEF Apply
    <2>4. [processor.event EXCEPT !.hash = chain'] \in Events
      BY <2>1, <2>3 DEF Events
    <2>5. processor'.pc = "gelf" /\ processor'.event \in Events
      BY <1>6, <2>4 DEF Apply
    <2> QED
      BY <1>0, <1>6, <2>3, <2>5 DEF Apply, Shapes
  <1>7. CASE GelfSend
    <2>1. gelf' \in Seq(Messages)
      <3>1. PICK message \in Messages : gelf' = Append(gelf, message)
        BY <1>0, <1>7, CopyEffect DEF Inv
      <3> QED
        BY <1>0, <3>1, AppendProperties DEF Shapes
    <2>2. processor'.pc = "select"
      BY <1>7 DEF GelfSend
    <2> QED
      BY <1>0, <1>7, <2>1, <2>2 DEF GelfSend, Shapes
  <1>8. ASSUME NEW h \in Handlers, HandlerMoves(h) PROVE Shapes'
    <2>1. /\ handler' = [g \in Handlers |-> handler'[g]] /\ floor' = [g \in Handlers |-> floor'[g]]
          /\ \A g \in Handlers : handler'[g].pc \in {"idle", "lsn", "wal", "udp"}
          /\ UNCHANGED <<channel, senders, pipeline, heartbeat, heartbeats, gelf>>
      BY <1>0, <1>8, MoveEffect
    <2> QED
      BY <1>0, <2>1 DEF Shapes
  <1>9. CASE HeartbeatRead
    <2>1. heartbeats' \in Nat
      BY <1>0, <1>9 DEF HeartbeatRead, Shapes
    <2> QED
      BY <1>0, <1>9, <2>1 DEF HeartbeatRead, Shapes
  <1>10. CASE HeartbeatSend
    <2>1. gelf' \in Seq(Messages)
      <3>1. PICK message \in Messages : gelf' = Append(gelf, message)
        BY <1>10, HeartbeatEffect DEF Inv
      <3> QED
        BY <1>0, <3>1, AppendProperties DEF Shapes
    <2> QED
      BY <1>0, <1>10, <2>1 DEF HeartbeatSend, Shapes
  <1>11. CASE UNCHANGED vars
    BY <1>0, <1>11 DEF vars, Shapes
  <1> QED
    BY <1>1, <1>2, <1>3, <1>4, <1>5, <1>6, <1>7, <1>8, <1>9, <1>10, <1>11 DEF Next, HandlerMoves

-----------------------------------------------------------------------------
(***************************************************************************)
(* The counters.                                                           *)
(***************************************************************************)

\* Received is a number and covers the chain.
LEMMA ReceivedNat ==
  ASSUME Shapes
  PROVE  /\ Received \in Nat /\ Len(chain) \in Nat /\ Len(chain) <= Received
         /\ Len(channel) \in Nat
  <1>1. Len(chain) \in Nat /\ Len(channel) \in Nat
    BY LenProperties DEF Shapes
  <1> QED
    BY <1>1 DEF Received

\* The two entrances have counted whatever was taken from the channel.
LEMMA EntrancesCount ==
  ASSUME Shapes, Counted
  PROVE  Len(chain) <= wal_events + udp_events
  <1> DEFINE waiting == Cardinality(WalWaiting(channel, Received))
             atSend == IF capture.pc = "send" THEN 1 ELSE 0
  <1>1. Received \in Nat /\ Len(chain) \in Nat /\ Len(chain) <= Received
    BY ReceivedNat
  <1>2. waiting \in Nat
    BY <1>1, WaitingCount DEF Shapes
  <1>3. atSend \in {0, 1}
    OBVIOUS
  <1>4. /\ wal_events + udp_sent = sent + atSend
        /\ Received + waiting + udp_sent = sent + udp_events
    BY DEF Counted
  <1>5. /\ sent \in Nat /\ udp_sent \in Nat /\ udp_events \in Nat /\ wal_events \in Nat
    BY DEF Shapes
  <1> HIDE DEF waiting, atSend
  <1> QED
    BY <1>1, <1>2, <1>3, <1>4, <1>5

\* Every step keeps the counters in step with each other.
LEMMA CountedStep == Inv /\ [Next]_vars => Counted'
  <1> SUFFICES ASSUME Inv, [Next]_vars PROVE Counted'
    OBVIOUS
  <1> USE DEF senders, pipeline, readers, endpoint
  <1> DEFINE waiting == Cardinality(WalWaiting(channel, Received))
  <1>0. Shapes /\ Counted /\ Len(WalLines) \in Nat
    BY LinesAssumption, LenProperties DEF Inv
  <1>n. /\ sent \in Nat /\ udp_sent \in Nat /\ udp_events \in Nat /\ wal_events \in Nat
        /\ wal_lsn \in Nat /\ capture.line \in Nat \ {0}
    BY <1>0 DEF Shapes
  <1>r. /\ Received \in Nat /\ Len(chain) \in Nat /\ Len(channel) \in Nat
    BY <1>0, ReceivedNat
  <1>w. waiting \in Nat
    BY <1>0, <1>r, WaitingCount DEF Shapes
  <1>c. /\ AsOf(health, chain) /\ health.events_processed = Len(chain)
        /\ Received + Len(channel) = sent
        /\ wal_events + udp_sent = sent + (IF capture.pc = "send" THEN 1 ELSE 0)
        /\ Received + waiting + udp_sent = sent + udp_events
        /\ RowsBefore(capture.line) + (IF capture.pc = "send" THEN 1 ELSE 0) <= wal_events
    BY <1>0 DEF Counted
  <1>b. /\ RowsBefore(capture.line) \in Nat
        /\ RowsBefore(capture.line + 1) =
             RowsBefore(capture.line) + (IF IsRow(capture.line) THEN 1 ELSE 0)
    BY <1>n, RowsOneMore
  <1>1. CASE UdpSend
    <2>1. /\ Len(channel') = Len(channel) + 1
          /\ Cardinality(WalWaiting(channel', Received)) = waiting
      <3>1. /\ Len(channel') = Len(channel) + 1
            /\ \A n \in Nat : Cardinality(WalWaiting(channel', n)) =
                 Cardinality(WalWaiting(channel, n)) + 0
        BY <1>0, <1>1, SendEffect DEF UdpSend
      <3> HIDE DEF waiting
      <3>2. Cardinality(WalWaiting(channel', Received)) = waiting + 0
        BY <1>r, <3>1 DEF waiting
      <3> QED
        BY <1>w, <3>1, <3>2
    <2>2. /\ sent' = sent + 1 /\ udp_sent' = udp_sent + 1 /\ Received' = Received
          /\ UNCHANGED <<capture, wal_events, wal_lsn, chain, health, udp_events>>
      BY <1>1 DEF UdpSend, Received
    <2> HIDE DEF waiting
    <2>3. /\ Received' + Len(channel') = sent'
          /\ Received' + Cardinality(WalWaiting(channel', Received)) + udp_sent'
               = sent' + udp_events'
      BY <1>n, <1>r, <1>w, <1>c, <2>1, <2>2
    <2>4. wal_events' + udp_sent' = sent' + (IF capture'.pc = "send" THEN 1 ELSE 0)
      BY <1>n, <1>c, <2>2
    <2> QED
      BY <1>c, <2>2, <2>3, <2>4 DEF Counted
  <1>2. CASE CaptureLine
    <2>1. /\ capture.pc = "line"
          /\ UNCHANGED <<channel, sent, udp_sent, wal_events, processor, chain, health, udp_events>>
          /\ Received' = Received
      BY <1>2 DEF CaptureLine, Received
    <2>2. capture \in [pc : {"line", "count", "send"}, line : 1..Len(WalLines) + 1]
      BY <1>0 DEF Shapes
    <2>3. /\ capture'.pc # "send"
          /\ RowsBefore(capture'.line) <= wal_events
      <3>1. CASE IsRow(capture.line)
        <4>1. capture' = [capture EXCEPT !.pc = "count"]
          BY <1>2, <3>1 DEF CaptureLine
        <4>2. capture'.line = capture.line /\ capture'.pc = "count"
          BY <2>2, <4>1
        <4>3. RowsBefore(capture.line) <= wal_events
          BY <1>n, <1>b, <1>c, <2>1
        <4> QED
          BY <1>n, <2>1, <4>2, <4>3
      <3>2. CASE ~IsRow(capture.line)
        <4>1. capture' = [capture EXCEPT !.line = @ + 1]
          BY <1>2, <3>2 DEF CaptureLine
        <4>2. capture'.line = capture.line + 1 /\ capture'.pc = "line"
          BY <2>1, <2>2, <4>1
        <4>3. RowsBefore(capture.line + 1) <= wal_events
          BY <1>n, <1>b, <1>c, <2>1, <3>2
        <4> QED
          BY <1>n, <2>1, <4>2, <4>3
      <3> QED
        BY <3>1, <3>2
    <2>4. RowsBefore(capture'.line) \in Nat
      <3>1. capture'.line \in Nat \ {0}
        <4>1. capture' \in [pc : {"line", "count", "send"}, line : 1..Len(WalLines) + 1]
          BY ShapesStep DEF Shapes
        <4> QED
          BY <1>0, <4>1
      <3> QED
        BY <3>1, RowsOneMore
    <2>5. RowsBefore(capture'.line) + 0 <= wal_events
      BY <1>n, <2>3, <2>4
    <2> QED
      BY <1>c, <2>1, <2>3, <2>5 DEF Counted
  <1>3. CASE CaptureCount
    <2>1. /\ capture.pc = "count" /\ wal_events' = wal_events + 1
          /\ UNCHANGED <<channel, sent, udp_sent, wal_lsn, processor, chain, health, udp_events>>
          /\ Received' = Received
      BY <1>3 DEF CaptureCount, Received
    <2>2. capture'.pc = "send" /\ capture'.line = capture.line
      BY <1>0, <1>3 DEF CaptureCount, Shapes
    <2>3. /\ wal_events' + udp_sent = sent + 1
          /\ RowsBefore(capture.line) + 1 <= wal_events'
      BY <1>n, <1>b, <1>c, <2>1
    <2> QED
      BY <1>c, <2>1, <2>2, <2>3 DEF Counted
  <1>4. CASE CaptureSend
    <2>1. /\ Len(channel') = Len(channel) + 1
          /\ Cardinality(WalWaiting(channel', Received)) = waiting + 1
      <3>1. /\ Len(channel') = Len(channel) + 1
            /\ \A n \in Nat : Cardinality(WalWaiting(channel', n)) =
                 Cardinality(WalWaiting(channel, n)) + 1
        BY <1>0, <1>4, SendEffect DEF CaptureSend
      <3> QED
        BY <1>r, <3>1
    <2>2. /\ sent' = sent + 1 /\ Received' = Received /\ capture.pc = "send"
          /\ capture'.pc = "line" /\ capture'.line = capture.line + 1
          /\ UNCHANGED <<udp_sent, wal_events, wal_lsn, chain, health, udp_events>>
      BY <1>4 DEF CaptureSend, Received
    <2>3. IsRow(capture.line)
      BY <1>0, <2>2 DEF Shapes
    <2> HIDE DEF waiting
    <2>4. /\ Received' + Len(channel') = sent'
          /\ Received' + Cardinality(WalWaiting(channel', Received)) + udp_sent'
               = sent' + udp_events'
      BY <1>n, <1>r, <1>w, <1>c, <2>1, <2>2
    <2>5. /\ wal_events' + udp_sent' = sent' + 0
          /\ RowsBefore(capture.line + 1) + 0 <= wal_events'
      BY <1>n, <1>b, <1>c, <2>2, <2>3
    <2> QED
      BY <1>c, <2>2, <2>4, <2>5 DEF Counted
  <1>5. CASE Recv
    <2>1. /\ channel \in Seq(Events) /\ channel # << >> /\ channel' = Tail(channel)
          /\ processor.pc = "select" /\ processor'.pc = "apply"
          /\ udp_events' = IF Head(channel).source = "wal" THEN udp_events ELSE udp_events + 1
          /\ UNCHANGED <<senders, chain, health>>
      BY <1>0, <1>5 DEF Recv, Shapes
    <2>2. Received = Len(chain) + 0 /\ Received' = Len(chain) + 1
      BY <2>1 DEF Received
    <2>3. Received' = Received + 1
      BY <1>r, <2>2
    <2>4. Len(channel') = Len(channel) - 1 /\ channel' \in Seq(Events)
      BY <2>1, HeadTailProperties
    <2> DEFINE rest == Cardinality(WalWaiting(Tail(channel), Received + 1))
    <2>5. waiting = rest + (IF Head(channel).source = "wal" THEN 1 ELSE 0)
      BY <1>r, <2>1, WaitingOfTail
    <2>6. rest \in Nat
      <3>1. Received + 1 \in Nat
        BY <1>r
      <3> QED
        BY <2>1, <2>4, <3>1, WaitingCount
    <2>7. rest = Cardinality(WalWaiting(channel', Received'))
      BY <2>1, <2>3
    <2> HIDE DEF waiting, rest
    <2>8. Received' + Len(channel') = sent
      BY <1>n, <1>r, <1>c, <2>3, <2>4
    <2>9. Received' + rest + udp_sent = sent + udp_events'
      BY <1>n, <1>r, <1>w, <1>c, <2>1, <2>3, <2>5, <2>6
    <2> QED
      BY <1>c, <2>1, <2>7, <2>8, <2>9 DEF Counted
  <1>6. CASE Apply
    <2>1. /\ processor.pc = "apply" /\ processor'.pc = "gelf"
          /\ chain \in Seq(Nat) /\ chain' = Append(chain, processor.event.id)
          /\ health' = [events_processed |-> health.events_processed + 1,
                        chain_length |-> Len(chain'), last_event_time |-> processor.event.id]
          /\ UNCHANGED <<channel, senders, udp_events>>
          /\ processor.event \in Events
      BY <1>0, <1>6 DEF Apply, Shapes
    <2>2. processor.event.id \in Nat
      BY <2>1 DEF Events
    <2>3. Len(chain') = Len(chain) + 1 /\ chain'[Len(chain) + 1] = processor.event.id
      BY <2>1, <2>2, AppendProperties
    <2>4. Received = Len(chain) + 1 /\ Received' = Len(chain') + 0
      BY <2>1 DEF Received
    <2>5. Received' = Received
      BY <1>r, <2>3, <2>4
    <2>6. health'.events_processed = Len(chain')
      BY <1>c, <2>1, <2>3
    <2>7. Len(chain') \in 0..Len(chain') /\ Len(chain') # 0
      BY <1>r, <2>3
    <2>8. AsOf(health', chain')
      BY <2>1, <2>3, <2>6, <2>7 DEF AsOf
    <2> QED
      BY <1>c, <2>1, <2>5, <2>6, <2>8 DEF Counted
  <1>7. CASE GelfSend
    <2>1. /\ processor.pc = "gelf" /\ processor'.pc = "select"
          /\ UNCHANGED <<channel, senders, chain, health, udp_events>>
      BY <1>7 DEF GelfSend
    <2>2. Received' = Received
      BY <2>1 DEF Received
    <2> QED
      BY <1>c, <2>1, <2>2 DEF Counted
  <1>8. ASSUME (\E h \in Handlers : HandlerMoves(h)) \/ HeartbeatRead \/ HeartbeatSend
                 \/ UNCHANGED vars
        PROVE  Counted'
    <2>1. UNCHANGED <<channel, senders, pipeline>>
      BY <1>0, <1>8, MoveEffect DEF HeartbeatRead, HeartbeatSend, vars
    <2>2. Received' = Received
      BY <2>1 DEF Received
    <2> QED
      BY <1>c, <2>1, <2>2 DEF Counted
  <1> QED
    BY <1>1, <1>2, <1>3, <1>4, <1>5, <1>6, <1>7, <1>8 DEF Next, HandlerMoves

-----------------------------------------------------------------------------
(***************************************************************************)
(* The handler and its responses.                                          *)
(***************************************************************************)

\* What HealthState held stays a beginning of a chain that grows.
LEMMA AsOfGrows ==
  ASSUME NEW events \in Seq(Nat), NEW more \in Seq(Nat), Len(events) <= Len(more),
         \A i \in 1..Len(events) : more[i] = events[i],
         NEW h, AsOf(h, events)
  PROVE  AsOf(h, more)
  <1>1. Len(events) \in Nat /\ Len(more) \in Nat
    BY LenProperties
  <1>2. /\ h.events_processed \in 0..Len(events) /\ h.chain_length = h.events_processed
        /\ h.last_event_time = IF h.chain_length = 0 THEN Null ELSE events[h.chain_length]
    BY DEF AsOf
  <1>3. h.events_processed \in 0..Len(more)
    BY <1>1, <1>2
  <1>4. h.chain_length # 0 => more[h.chain_length] = events[h.chain_length]
    <2>1. h.chain_length # 0 => h.chain_length \in 1..Len(events)
      BY <1>1, <1>2
    <2> QED
      BY <2>1
  <1> QED
    BY <1>2, <1>3, <1>4 DEF AsOf

\* No step takes a counter or the chain back.
LEMMA Grows ==
  ASSUME Inv, [Next]_vars
  PROVE  /\ wal_events \in Nat /\ wal_events' \in Nat /\ wal_events <= wal_events'
         /\ udp_events \in Nat /\ udp_events' \in Nat /\ udp_events <= udp_events'
         /\ chain \in Seq(Nat) /\ chain' \in Seq(Nat) /\ Len(chain) <= Len(chain')
         /\ \A i \in 1..Len(chain) : chain'[i] = chain[i]
  <1> USE DEF senders, pipeline, readers, endpoint
  <1>0. Shapes /\ Shapes'
    BY ShapesStep DEF Inv
  <1>1. /\ wal_events \in Nat /\ udp_events \in Nat /\ chain \in Seq(Nat)
        /\ wal_events' \in Nat /\ udp_events' \in Nat /\ chain' \in Seq(Nat)
        /\ Len(chain) \in Nat
    BY <1>0, LenProperties DEF Shapes
  <1>2. \/ UNCHANGED <<wal_events, udp_events, chain>>
        \/ CaptureCount \/ Recv \/ Apply
    <2>1. ASSUME NEW h \in Handlers, HandlerMoves(h)
          PROVE  UNCHANGED <<wal_events, udp_events, chain>>
      BY <1>0, <2>1, MoveEffect
    <2> QED
      BY <2>1 DEF Next, HandlerMoves, vars, UdpSend, CaptureLine, CaptureSend, GelfSend,
                  HeartbeatRead, HeartbeatSend
  <1>3. wal_events <= wal_events'
    <2>1. wal_events' = wal_events \/ wal_events' = wal_events + 1
      BY <1>2 DEF CaptureCount, Recv, Apply
    <2> QED
      BY <1>1, <2>1
  <1>4. udp_events <= udp_events'
    <2>1. udp_events' = udp_events \/ udp_events' = udp_events + 1
      BY <1>2 DEF CaptureCount, Recv, Apply
    <2> QED
      BY <1>1, <2>1
  <1>5. Len(chain) <= Len(chain') /\ \A i \in 1..Len(chain) : chain'[i] = chain[i]
    <2>1. CASE Apply
      <3>1. processor.event \in Events
        BY <1>0, <2>1 DEF Apply, Shapes
      <3>2. processor.event.id \in Nat
        BY <3>1 DEF Events
      <3>3. /\ Len(chain') = Len(chain) + 1
            /\ \A i \in 1..Len(chain) : chain'[i] = chain[i]
        BY <1>1, <2>1, <3>2, AppendProperties DEF Apply
      <3> QED
        BY <1>1, <3>3
    <2>2. CASE ~Apply
      <3>1. chain' = chain
        BY <1>2, <2>2 DEF CaptureCount, Recv
      <3> QED
        BY <1>1, <3>1
    <2> QED
      BY <2>1, <2>2
  <1> QED
    BY <1>1, <1>3, <1>4, <1>5

\* A step of anyone else leaves a handler alone.
LEMMA OthersLeaveHandler ==
  ASSUME Shapes, [Next]_vars, NEW h \in Handlers, ~HandlerMoves(h)
  PROVE  handler'[h] = handler[h] /\ floor'[h] = floor[h]
  <1>1. ASSUME NEW g \in Handlers, HandlerMoves(g)
        PROVE  handler'[h] = handler[h] /\ floor'[h] = floor[h]
    <2>1. g # h
      BY <1>1
    <2> QED
      BY <1>1, <2>1, MoveEffect
  <1>2. CASE \A g \in Handlers : ~HandlerMoves(g)
    <2>1. handler' = handler /\ floor' = floor
      BY <1>2 DEF Next, HandlerMoves, vars, readers, endpoint, UdpSend, CaptureLine,
                  CaptureCount, CaptureSend, Recv, Apply, GelfSend, HeartbeatRead, HeartbeatSend
    <2> QED
      BY <2>1
  <1> QED
    BY <1>1, <1>2

\* Only an answer changes the responses.
LEMMA OthersLeaveResponse ==
  ASSUME [Next]_vars, \A h \in Handlers : ~Respond(h)
  PROVE  response' = response /\ answered' = answered
  BY DEF Next, vars, readers, endpoint, ReadHealth, ReadLsn, ReadWalEvents, UdpSend, CaptureLine,
         CaptureCount, CaptureSend, Recv, Apply, GelfSend, HeartbeatRead, HeartbeatSend

\* What covers an LSN does so all the more when it grows.
LEMMA CoversMore ==
  ASSUME NEW lsn, NEW n \in Nat, NEW m \in Nat, n <= m, CoversLsn(lsn, n)
  PROVE  CoversLsn(lsn, m)
  <1>1. CASE lsn = 0
    BY <1>1 DEF CoversLsn
  <1>2. CASE lsn # 0
    <2>1. PICK k \in 1..Len(WalLines) : WalLines[k].lsn = lsn /\ RowsBefore(k) <= n
      BY <1>2 DEF CoversLsn
    <2>2. k \in Nat \ {0}
      BY LinesAssumption, LenProperties
    <2>3. RowsBefore(k) \in Nat
      BY <2>2, RowsOneMore
    <2>4. RowsBefore(k) <= m
      BY <2>1, <2>3
    <2> QED
      BY <2>1, <2>4 DEF CoversLsn
  <1> QED
    BY <1>1, <1>2

\* The row changes decoded before the line with the current LSN are counted.
LEMMA LsnCovered ==
  ASSUME Shapes, Counted, LsnInv
  PROVE  CoversLsn(wal_lsn, wal_events)
  <1>1. CASE wal_lsn = 0
    BY <1>1 DEF CoversLsn
  <1>2. CASE wal_lsn # 0
    <2>1. PICK k \in 1..Len(WalLines) : k <= capture.line /\ WalLines[k].lsn = wal_lsn
      BY <1>2 DEF LsnInv
    <2>2. k \in Nat \ {0} /\ capture.line \in Nat \ {0} /\ wal_events \in Nat
      BY LinesAssumption, LenProperties DEF Shapes
    <2>3. /\ RowsBefore(k) \in Nat /\ RowsBefore(k) <= RowsBefore(capture.line)
          /\ RowsBefore(capture.line) \in Nat
      BY <2>1, <2>2, RowsMonotone, RowsOneMore
    <2>4. RowsBefore(capture.line) <= wal_events
      BY <2>2, <2>3 DEF Counted
    <2>5. RowsBefore(k) <= wal_events
      BY <2>2, <2>3, <2>4
    <2> QED
      BY <2>1, <2>5 DEF CoversLsn
  <1> QED
    BY <1>1, <1>2

\* Every step keeps the LSN that of a line the capture has come to.
LEMMA LsnStep == Inv /\ [Next]_vars => LsnInv'
  <1> SUFFICES ASSUME Inv, [Next]_vars PROVE LsnInv'
    OBVIOUS
  <1> USE DEF senders, pipeline, readers, endpoint
  <1>0. Shapes /\ LsnInv /\ Shapes' /\ Len(WalLines) \in Nat
    BY ShapesStep, LinesAssumption, LenProperties DEF Inv
  <1>s. /\ capture \in [pc : {"line", "count", "send"}, line : 1..Len(WalLines) + 1]
        /\ capture' \in [pc : {"line", "count", "send"}, line : 1..Len(WalLines) + 1]
    BY <1>0 DEF Shapes
  <1>1. capture.line \in Nat /\ capture'.line \in Nat
    BY <1>0, <1>s
  <1>2. CASE CaptureLine
    <2>1. wal_lsn' = WalLines[capture.line].lsn /\ capture.line \in 1..Len(WalLines)
      BY <1>0, <1>2 DEF CaptureLine, Shapes
    <2>2. capture.line <= capture'.line
      <3>1. capture'.line = capture.line \/ capture'.line = capture.line + 1
        BY <1>0, <1>2 DEF CaptureLine, Shapes
      <3> QED
        BY <1>1, <3>1
    <2> QED
      BY <2>1, <2>2 DEF LsnInv
  <1>3. CASE ~CaptureLine
    <2>1. /\ wal_lsn' = wal_lsn
          /\ \/ UNCHANGED capture
             \/ CaptureCount \/ CaptureSend
      <3>1. ASSUME NEW h \in Handlers, HandlerMoves(h)
            PROVE  UNCHANGED <<wal_lsn, capture>>
        BY <1>0, <3>1, MoveEffect
      <3> QED
        BY <1>3, <3>1 DEF Next, HandlerMoves, vars, UdpSend, CaptureCount, CaptureSend, Recv,
                          Apply, GelfSend, HeartbeatRead, HeartbeatSend
    <2>2. capture'.line = capture.line \/ capture'.line = capture.line + 1
      <3>1. CASE CaptureCount
        BY <1>s, <3>1 DEF CaptureCount
      <3>2. CASE CaptureSend
        BY <1>s, <3>2 DEF CaptureSend
      <3> QED
        BY <2>1, <3>1, <3>2
    <2>3. capture.line <= capture'.line
      BY <1>1, <2>2
    <2>4. ASSUME NEW k \in 1..Len(WalLines), k <= capture.line
          PROVE  k <= capture'.line
      BY <1>0, <1>1, <2>3, <2>4
    <2> QED
      BY <1>0, <2>1, <2>4 DEF LsnInv
  <1> QED
    BY <1>2, <1>3

\* Counters that are not ahead stay so while those being kept grow.
LEMMA KeptMore ==
  ASSUME NEW c \in Seq(Nat), NEW cc \in Seq(Nat), Len(c) <= Len(cc),
         NEW w \in Nat, NEW ww \in Nat, w <= ww, NEW u \in Nat, NEW uu \in Nat, u <= uu,
         NEW f, Kept(f, c, w, u)
  PROVE  Kept(f, cc, ww, uu)
  <1>1. Len(c) \in Nat /\ Len(cc) \in Nat
    BY LenProperties
  <1> QED
    BY <1>1 DEF Kept

\* And so does what a handler has read.
LEMMA HandlerMore ==
  ASSUME NEW c \in Seq(Nat), NEW cc \in Seq(Nat), Len(c) <= Len(cc),
         \A i \in 1..Len(c) : cc[i] = c[i],
         NEW w \in Nat, NEW ww \in Nat, w <= ww, NEW u \in Nat, NEW uu \in Nat, u <= uu,
         NEW r, NEW f, HandlerOK(r, f, c, w, u)
  PROVE  HandlerOK(r, f, cc, ww, uu)
  <1>1. Kept(f, cc, ww, uu)
    BY KeptMore DEF HandlerOK
  <1>2. r.pc # "idle" => AsOf(r.health, cc) /\ f.processed <= r.health.events_processed
    BY AsOfGrows DEF HandlerOK
  <1>3. r.pc \in {"wal", "udp"} => CoversLsn(r.wal_lsn, ww)
    BY CoversMore DEF HandlerOK
  <1>4. ASSUME r.pc = "udp"
        PROVE  /\ r.wal_events \in 0..ww /\ f.wal <= r.wal_events
               /\ r.health.events_processed <= r.wal_events + uu
               /\ CoversLsn(r.wal_lsn, r.wal_events)
    <2>1. /\ AsOf(r.health, c) /\ r.wal_events \in 0..w /\ f.wal <= r.wal_events
          /\ r.health.events_processed <= r.wal_events + u
          /\ CoversLsn(r.wal_lsn, r.wal_events)
      BY <1>4 DEF HandlerOK
    <2>2. r.health.events_processed \in 0..Len(c) /\ Len(c) \in Nat
      BY <2>1, LenProperties DEF AsOf
    <2> QED
      BY <2>1, <2>2
  <1> QED
    BY <1>1, <1>2, <1>3, <1>4 DEF HandlerOK

\* What h has read after a step of its handler.
LEMMA MoveKeeps ==
  ASSUME Inv, NEW h \in Handlers, HandlerMoves(h)
  PROVE  HandlerOK(handler'[h], floor'[h], chain, wal_events, udp_events)
  <1>0. /\ Shapes /\ Counted /\ LsnInv
        /\ Kept(answered, chain, wal_events, udp_events)
        /\ HandlerOK(handler[h], floor[h], chain, wal_events, udp_events)
    BY DEF Inv, HandlerInv
  <1>t. /\ wal_events \in Nat /\ udp_events \in Nat /\ chain \in Seq(Nat)
        /\ Len(chain) \in Nat
        /\ handler = [g \in Handlers |-> handler[g]] /\ floor = [g \in Handlers |-> floor[g]]
    BY <1>0, LenProperties DEF Shapes
  <1>1. CASE ReadHealth(h)
    <2>1. /\ handler' = [handler EXCEPT ![h] = [pc |-> "lsn", health |-> health]]
          /\ floor' = [floor EXCEPT ![h] = answered]
      BY <1>1 DEF ReadHealth, Snapshot
    <2>2. handler'[h] = [pc |-> "lsn", health |-> health] /\ floor'[h] = answered
      BY <1>t, <2>1, ExceptAt
    <2>3. handler'[h].pc = "lsn" /\ handler'[h].health = health
      BY <2>2
    <2>4. /\ AsOf(health, chain) /\ health.events_processed = Len(chain)
          /\ answered.processed \in 0..Len(chain)
      BY <1>0 DEF Counted, Kept
    <2>5. answered.processed <= health.events_processed
      BY <1>t, <2>4
    <2> QED
      BY <1>0, <2>2, <2>3, <2>4, <2>5 DEF HandlerOK
  <1>2. CASE ReadLsn(h)
    <2>1. /\ handler[h].pc = "lsn" /\ floor' = floor
          /\ handler' = [handler EXCEPT ![h] =
               [pc |-> "wal", health |-> handler[h].health, wal_lsn |-> wal_lsn]]
      BY <1>2 DEF ReadLsn
    <2>2. handler'[h] = [pc |-> "wal", health |-> handler[h].health, wal_lsn |-> wal_lsn]
      BY <1>t, <2>1, ExceptAt
    <2>3. /\ handler'[h].pc = "wal" /\ handler'[h].health = handler[h].health
          /\ handler'[h].wal_lsn = wal_lsn
      BY <2>2
    <2>4. CoversLsn(wal_lsn, wal_events)
      BY <1>0, LsnCovered
    <2>5. /\ Kept(floor[h], chain, wal_events, udp_events) /\ AsOf(handler[h].health, chain)
          /\ floor[h].processed <= handler[h].health.events_processed
      BY <1>0, <2>1 DEF HandlerOK
    <2> QED
      BY <2>1, <2>3, <2>4, <2>5 DEF HandlerOK
  <1>3. CASE ReadWalEvents(h)
    <2>1. /\ handler[h].pc = "wal" /\ floor' = floor
          /\ handler' = [handler EXCEPT ![h] =
               [pc |-> "udp", health |-> handler[h].health,
                wal_lsn |-> handler[h].wal_lsn, wal_events |-> wal_events]]
      BY <1>3 DEF ReadWalEvents
    <2>2. handler'[h] = [pc |-> "udp", health |-> handler[h].health,
                         wal_lsn |-> handler[h].wal_lsn, wal_events |-> wal_events]
      BY <1>t, <2>1, ExceptAt
    <2>3. /\ handler'[h].pc = "udp" /\ handler'[h].health = handler[h].health
          /\ handler'[h].wal_lsn = handler[h].wal_lsn /\ handler'[h].wal_events = wal_events
      BY <2>2
    <2>4. /\ Kept(floor[h], chain, wal_events, udp_events) /\ AsOf(handler[h].health, chain)
          /\ floor[h].processed <= handler[h].health.events_processed
          /\ CoversLsn(handler[h].wal_lsn, wal_events)
      BY <1>0, <2>1 DEF HandlerOK
    <2>5. handler[h].health.events_processed \in 0..Len(chain) /\ floor[h].wal \in 0..wal_events
      BY <2>4 DEF AsOf, Kept
    <2>6. Len(chain) <= wal_events + udp_events
      BY <1>0, EntrancesCount
    <2>7. /\ handler[h].health.events_processed <= wal_events + udp_events
          /\ wal_events \in 0..wal_events /\ floor[h].wal <= wal_events
      BY <1>t, <2>5, <2>6
    <2> QED
      BY <2>1, <2>3, <2>4, <2>7 DEF HandlerOK
  <1>4. CASE Respond(h)
    <2>1. /\ handler' = [handler EXCEPT ![h] = [pc |-> "idle"]]
          /\ floor' = [floor EXCEPT ![h] = NoCount]
      BY <1>4 DEF Respond
    <2>2. handler'[h] = [pc |-> "idle"] /\ floor'[h] = NoCount
      BY <1>t, <2>1, ExceptAt
    <2>3. handler'[h].pc = "idle"
      BY <2>2
    <2>4. Kept(NoCount, chain, wal_events, udp_events)
      BY <1>t DEF Kept, NoCount
    <2> QED
      BY <2>2, <2>3, <2>4 DEF HandlerOK
  <1> QED
    BY <1>1, <1>2, <1>3, <1>4 DEF HandlerMoves

\* What an answer consists of.
LEMMA RespondEffect ==
  ASSUME Inv, NEW h \in Handlers, Respond(h)
  PROVE  /\ response'.health = handler[h].health
         /\ response'.wal_lsn = handler[h].wal_lsn
         /\ response'.wal_events = handler[h].wal_events
         /\ response'.udp_events = udp_events
         /\ AsOf(handler[h].health, chain)
         /\ handler[h].wal_events \in 0..wal_events
         /\ handler[h].health.events_processed <= handler[h].wal_events + udp_events
         /\ CoversLsn(handler[h].wal_lsn, handler[h].wal_events)
         /\ UNCHANGED <<chain, wal_events, udp_events>>
  <1>1. /\ handler[h].pc = "udp"
        /\ response' = [health |-> handler[h].health, wal_lsn |-> handler[h].wal_lsn,
                        wal_events |-> handler[h].wal_events, udp_events |-> udp_events]
        /\ UNCHANGED <<chain, wal_events, udp_events>>
    BY DEF Respond, Reported, senders, pipeline
  <1>2. HandlerOK(handler[h], floor[h], chain, wal_events, udp_events)
    BY DEF Inv, HandlerInv
  <1>3. /\ AsOf(handler[h].health, chain)
        /\ handler[h].wal_events \in 0..wal_events
        /\ handler[h].health.events_processed <= handler[h].wal_events + udp_events
        /\ CoversLsn(handler[h].wal_lsn, handler[h].wal_events)
    BY <1>1, <1>2 DEF HandlerOK
  <1> QED
    BY <1>1, <1>3

\* Every step keeps what the handlers have read together.
LEMMA HandlerStep == Inv /\ [Next]_vars => HandlerInv'
  <1> SUFFICES ASSUME Inv, [Next]_vars PROVE HandlerInv'
    OBVIOUS
  <1>0. Shapes /\ HandlerInv
    BY DEF Inv
  <1>g. /\ wal_events \in Nat /\ wal_events' \in Nat /\ wal_events <= wal_events'
        /\ udp_events \in Nat /\ udp_events' \in Nat /\ udp_events <= udp_events'
        /\ chain \in Seq(Nat) /\ chain' \in Seq(Nat) /\ Len(chain) <= Len(chain')
        /\ \A i \in 1..Len(chain) : chain'[i] = chain[i]
    BY Grows
  <1>1. ASSUME NEW h \in Handlers
        PROVE  HandlerOK(handler'[h], floor'[h], chain', wal_events', udp_events')
    <2>1. CASE HandlerMoves(h)
      <3>1. HandlerOK(handler'[h], floor'[h], chain, wal_events, udp_events)
        BY <2>1, MoveKeeps
      <3> QED
        BY <1>g, <3>1, HandlerMore
    <2>2. CASE ~HandlerMoves(h)
      <3>1. handler'[h] = handler[h] /\ floor'[h] = floor[h]
        BY <1>0, <2>2, OthersLeaveHandler
      <3>2. HandlerOK(handler[h], floor[h], chain, wal_events, udp_events)
        BY <1>0 DEF HandlerInv
      <3>3. HandlerOK(handler[h], floor[h], chain', wal_events', udp_events')
        BY <1>g, <3>2, HandlerMore
      <3> QED
        BY <3>1, <3>3
    <2> QED
      BY <2>1, <2>2
  <1>2. Kept(answered', chain', wal_events', udp_events')
    <2>0. Kept(answered, chain, wal_events, udp_events)
      BY <1>0 DEF HandlerInv
    <2>1. ASSUME NEW h \in Handlers, Respond(h)
          PROVE  Kept(answered', chain, wal_events, udp_events)
      <3>1. /\ response'.health = handler[h].health
            /\ response'.wal_events = handler[h].wal_events
            /\ response'.udp_events = udp_events
            /\ AsOf(handler[h].health, chain)
            /\ handler[h].wal_events \in 0..wal_events
        BY <2>1, RespondEffect
      <3>2. handler[h].health.events_processed \in 0..Len(chain)
        BY <3>1 DEF AsOf
      <3>3. answered' =
              [processed |-> Larger(answered.processed, handler[h].health.events_processed),
               wal       |-> Larger(answered.wal, handler[h].wal_events),
               udp       |-> Larger(answered.udp, udp_events)]
        BY <2>1, <3>1 DEF Respond
      <3>4. /\ answered'.processed =
                 Larger(answered.processed, handler[h].health.events_processed)
            /\ answered'.wal = Larger(answered.wal, handler[h].wal_events)
            /\ answered'.udp = Larger(answered.udp, udp_events)
        BY <3>3
      <3>5. /\ answered.processed \in 0..Len(chain) /\ answered.wal \in 0..wal_events
            /\ answered.udp \in 0..udp_events /\ udp_events \in 0..udp_events
        BY <1>g, <2>0 DEF Kept
      <3>6. /\ Larger(answered.processed, handler[h].health.events_processed) \in 0..Len(chain)
            /\ Larger(answered.wal, handler[h].wal_events) \in 0..wal_events
            /\ Larger(answered.udp, udp_events) \in 0..udp_events
        BY <3>1, <3>2, <3>5 DEF Larger
      <3> QED
        BY <3>4, <3>6 DEF Kept
    <2>2. CASE \A h \in Handlers : ~Respond(h)
      <3>1. answered' = answered
        BY <2>2, OthersLeaveResponse
      <3> QED
        BY <1>g, <2>0, <3>1, KeptMore
    <2>3. ASSUME NEW h \in Handlers, Respond(h)
          PROVE  Kept(answered', chain', wal_events', udp_events')
      BY <1>g, <2>1, <2>3, KeptMore
    <2> QED
      BY <2>2, <2>3
  <1> QED
    BY <1>1, <1>2 DEF HandlerInv

\* Every step keeps the last response consistent.
LEMMA ResponseStep == Inv /\ [Next]_vars => ResponseInv'
  <1> SUFFICES ASSUME Inv, [Next]_vars, response' # Null PROVE ResponseInv'
    BY DEF ResponseInv
  <1>g. /\ chain \in Seq(Nat) /\ chain' \in Seq(Nat) /\ Len(chain) <= Len(chain')
        /\ \A i \in 1..Len(chain) : chain'[i] = chain[i]
    BY Grows
  <1>1. ASSUME NEW h \in Handlers, Respond(h) PROVE ResponseInv'
    <2>1. /\ response'.health = handler[h].health
          /\ response'.wal_lsn = handler[h].wal_lsn
          /\ response'.wal_events = handler[h].wal_events
          /\ response'.udp_events = udp_events
          /\ AsOf(handler[h].health, chain)
          /\ handler[h].health.events_processed <= handler[h].wal_events + udp_events
          /\ CoversLsn(handler[h].wal_lsn, handler[h].wal_events)
          /\ UNCHANGED <<chain, wal_events, udp_events>>
      BY <1>1, RespondEffect
    <2> QED
      BY <2>1 DEF ResponseInv
  <1>2. CASE \A h \in Handlers : ~Respond(h)
    <2>1. response' = response
      BY <1>2, OthersLeaveResponse
    <2>2. /\ AsOf(response.health, chain)
          /\ response.health.events_processed <= response.wal_events + response.udp_events
          /\ CoversLsn(response.wal_lsn, response.wal_events)
      BY <2>1 DEF Inv, ResponseInv
    <2>3. AsOf(response.health, chain')
      BY <1>g, <2>2, AsOfGrows
    <2> QED
      BY <2>1, <2>2, <2>3 DEF ResponseInv
  <1> QED
    BY <1>1, <1>2

-----------------------------------------------------------------------------
(***************************************************************************)
(* The GELF stream.                                                        *)
(***************************************************************************)

\* A step that touches neither the chain nor the stream keeps StreamInv.
LEMMA StreamUntouched ==
  ASSUME StreamInv, UNCHANGED <<chain, gelf>>,
         heartbeat' = heartbeat,
         \/ UNCHANGED processor
         \/ processor.pc # "gelf" /\ processor'.pc # "gelf"
  PROVE  StreamInv'
  BY DEF StreamInv, StreamFollowsChain, CopiesFollowChain, HeartbeatAgrees

\* Every step keeps the stream in agreement with the chain.
LEMMA StreamStep == Inv /\ [Next]_vars => StreamInv'
  <1> SUFFICES ASSUME Inv, [Next]_vars PROVE StreamInv'
    OBVIOUS
  <1> USE DEF senders, pipeline, readers, endpoint
  <1>0. Shapes /\ Counted /\ StreamInv
    BY DEF Inv
  <1>l. /\ chain \in Seq(Nat) /\ gelf \in Seq(Messages)
        /\ Len(chain) \in Nat /\ Len(gelf) \in Nat
    BY <1>0, LenProperties DEF Shapes
  <1> DEFINE copies == CopiesIn(gelf, Len(gelf))
  <1>c. copies \in Nat
    BY <1>l, CopiesOneMore
  <1>f. /\ copies + (IF processor.pc = "gelf" THEN 1 ELSE 0) = Len(chain)
        /\ \A m \in 1..Len(gelf) : IsCopy(gelf[m]) =>
             /\ gelf[m].event = chain[CopiesIn(gelf, m)]
             /\ gelf[m].event_hash = SubSeq(chain, 1, CopiesIn(gelf, m))
        /\ \A m \in 1..Len(gelf) :
             ~IsCopy(gelf[m]) => gelf[m].heartbeat <= CopiesIn(gelf, m) + 1
        /\ heartbeat # Null => heartbeat \in Nat /\ heartbeat <= copies + 1
    BY <1>0 DEF StreamInv, StreamFollowsChain, CopiesFollowChain, HeartbeatAgrees
  <1>p. ASSUME NEW m \in 1..Len(gelf), IsCopy(gelf[m])
        PROVE  CopiesIn(gelf, m) \in 1..Len(chain)
    <2>1. m \in Nat \ {0} /\ m <= Len(gelf)
      BY <1>l
    <2>2. CopiesIn(gelf, m) \in Nat \ {0}
      BY <1>p, <2>1, CopyHasPlace
    <2>3. CopiesIn(gelf, m) <= copies
      BY <1>l, <2>1, CopiesMonotone
    <2> HIDE DEF copies
    <2> QED
      BY <1>l, <1>c, <1>f, <2>2, <2>3
  <1>1. CASE Apply
    <2>1. /\ processor.pc = "apply" /\ processor'.pc = "gelf" /\ processor.event \in Events
          /\ chain' = Append(chain, processor.event.id)
          /\ processor'.event = [processor.event EXCEPT !.hash = chain']
          /\ UNCHANGED <<gelf, heartbeat>>
      BY <1>0, <1>1 DEF Apply, Shapes
    <2>2. /\ processor.event.id \in Nat
          /\ processor'.event.id = processor.event.id /\ processor'.event.hash = chain'
      BY <2>1 DEF Events
    <2>3. /\ chain' \in Seq(Nat) /\ Len(chain') = Len(chain) + 1
          /\ \A i \in 1..Len(chain) : chain'[i] = chain[i]
          /\ chain'[Len(chain) + 1] = processor.event.id
      BY <1>l, <2>1, <2>2, AppendProperties
    <2>4. ASSUME NEW m \in 1..Len(gelf), IsCopy(gelf[m])
          PROVE  /\ gelf[m].event = chain'[CopiesIn(gelf, m)]
                 /\ gelf[m].event_hash = SubSeq(chain', 1, CopiesIn(gelf, m))
      <3> DEFINE k == CopiesIn(gelf, m)
      <3>1. k \in 1..Len(chain)
        BY <1>p, <2>4
      <3> HIDE DEF k
      <3>2. chain'[k] = chain[k]
        BY <2>3, <3>1
      <3>3. SubSeq(chain', 1, k) = SubSeq(chain, 1, k)
        <4>1. /\ SubSeq(chain, 1, k) = [i \in 1..k |-> chain[i]]
              /\ SubSeq(chain', 1, k) = [i \in 1..k |-> chain'[i]]
          BY <1>l, <2>3, <3>1, SubSeqProperties
        <4>2. \A i \in 1..k : chain'[i] = chain[i]
          BY <1>l, <2>3, <3>1
        <4> QED
          BY <4>1, <4>2
      <3> QED
        BY <1>f, <2>4, <3>2, <3>3 DEF k
    <2>5. chain' # << >> /\ processor'.event.id = chain'[Len(chain')]
      BY <1>l, <2>2, <2>3
    <2>6. copies + 1 = Len(chain')
      <3> HIDE DEF copies
      <3> QED
        BY <1>l, <1>c, <1>f, <2>1, <2>3
    <2> QED
      BY <1>f, <2>1, <2>2, <2>4, <2>5, <2>6
         DEF StreamInv, StreamFollowsChain, CopiesFollowChain, HeartbeatAgrees
  <1>2. CASE GelfSend
    <2>1. PICK message \in Messages :
            /\ gelf' = Append(gelf, message)
            /\ IsCopy(message)
            /\ chain # << >> /\ message.event = chain[Len(chain)] /\ message.event_hash = chain
      BY <1>0, <1>2, CopyEffect
    <2>2. /\ processor.pc = "gelf" /\ processor'.pc = "select"
          /\ UNCHANGED <<chain, heartbeat>>
      BY <1>2 DEF GelfSend
    <2>3. /\ Len(gelf') = Len(gelf) + 1
          /\ \A m \in 1..Len(gelf) : gelf'[m] = gelf[m]
          /\ gelf'[Len(gelf) + 1] = message
      BY <1>l, <2>1, AppendProperties
    <2>4. /\ \A n \in 0..Len(gelf) : CopiesIn(gelf', n) = CopiesIn(gelf, n)
          /\ CopiesIn(gelf', Len(gelf) + 1) = copies + 1
      BY <1>l, <2>1, CopiesOfAppend
    <2> HIDE DEF copies
    <2>5. copies + 1 = Len(chain)
      BY <1>f, <2>2
    <2>6. SubSeq(chain, 1, Len(chain)) = chain
      BY <1>l, SubSeqFull
    <2>7. ASSUME NEW m \in 1..Len(gelf')
          PROVE  m = Len(gelf) + 1 \/ (m \in 1..Len(gelf) /\ m \in 0..Len(gelf))
      BY <1>l, <2>3
    <2>8. ASSUME NEW m \in 1..Len(gelf'), IsCopy(gelf'[m])
          PROVE  /\ gelf'[m].event = chain[CopiesIn(gelf', m)]
                 /\ gelf'[m].event_hash = SubSeq(chain, 1, CopiesIn(gelf', m))
      <3>1. CASE m = Len(gelf) + 1
        BY <2>1, <2>3, <2>4, <2>5, <2>6, <3>1
      <3>2. CASE m \in 1..Len(gelf) /\ m \in 0..Len(gelf)
        BY <1>f, <2>3, <2>4, <2>8, <3>2
      <3> QED
        BY <2>7, <3>1, <3>2
    <2>9. ASSUME NEW m \in 1..Len(gelf'), ~IsCopy(gelf'[m])
          PROVE  gelf'[m].heartbeat <= CopiesIn(gelf', m) + 1
      <3>1. m # Len(gelf) + 1
        BY <2>1, <2>3, <2>9
      <3> QED
        BY <1>f, <2>3, <2>4, <2>7, <2>9, <3>1
    <2>10. CopiesIn(gelf', Len(gelf')) + 0 = Len(chain)
      BY <1>l, <2>3, <2>4, <2>5
    <2>11. heartbeat # Null => heartbeat \in Nat /\ heartbeat <= CopiesIn(gelf', Len(gelf')) + 1
      BY <1>c, <1>f, <2>3, <2>4
    <2> QED
      BY <2>2, <2>8, <2>9, <2>10, <2>11
         DEF StreamInv, StreamFollowsChain, CopiesFollowChain, HeartbeatAgrees
  <1>3. CASE HeartbeatSend
    <2>1. PICK message \in Messages :
            gelf' = Append(gelf, message) /\ ~IsCopy(message) /\ message.heartbeat = heartbeat
      BY <1>0, <1>3, HeartbeatEffect
    <2>2. heartbeat # Null /\ heartbeat' = Null /\ UNCHANGED <<chain, processor>>
      BY <1>3 DEF HeartbeatSend
    <2>3. /\ Len(gelf') = Len(gelf) + 1
          /\ \A m \in 1..Len(gelf) : gelf'[m] = gelf[m]
          /\ gelf'[Len(gelf) + 1] = message
      BY <1>l, <2>1, AppendProperties
    <2>4. /\ \A n \in 0..Len(gelf) : CopiesIn(gelf', n) = CopiesIn(gelf, n)
          /\ CopiesIn(gelf', Len(gelf) + 1) = copies + 0
      BY <1>l, <2>1, CopiesOfAppend
    <2> HIDE DEF copies
    <2>5. CopiesIn(gelf', Len(gelf')) = copies
      BY <1>c, <2>3, <2>4
    <2>6. ASSUME NEW m \in 1..Len(gelf')
          PROVE  m = Len(gelf) + 1 \/ (m \in 1..Len(gelf) /\ m \in 0..Len(gelf))
      BY <1>l, <2>3
    <2>7. ASSUME NEW m \in 1..Len(gelf'), IsCopy(gelf'[m])
          PROVE  /\ gelf'[m].event = chain[CopiesIn(gelf', m)]
                 /\ gelf'[m].event_hash = SubSeq(chain, 1, CopiesIn(gelf', m))
      <3>1. m # Len(gelf) + 1
        BY <2>1, <2>3, <2>7
      <3> QED
        BY <1>f, <2>3, <2>4, <2>6, <2>7, <3>1
    <2>8. ASSUME NEW m \in 1..Len(gelf'), ~IsCopy(gelf'[m])
          PROVE  gelf'[m].heartbeat <= CopiesIn(gelf', m) + 1
      <3>1. CASE m = Len(gelf) + 1
        BY <1>f, <2>1, <2>2, <2>3, <2>5, <3>1
      <3>2. CASE m \in 1..Len(gelf) /\ m \in 0..Len(gelf)
        BY <1>f, <2>3, <2>4, <2>8, <3>2
      <3> QED
        BY <2>6, <3>1, <3>2
    <2>9. CopiesIn(gelf', Len(gelf')) + (IF processor'.pc = "gelf" THEN 1 ELSE 0) = Len(chain)
      BY <1>f, <2>2, <2>5
    <2> QED
      BY <1>0, <2>2, <2>7, <2>8, <2>9
         DEF StreamInv, StreamFollowsChain, CopiesFollowChain, HeartbeatAgrees
  <1>4. CASE HeartbeatRead
    <2>1. heartbeat' = Len(chain) /\ UNCHANGED <<chain, gelf, processor>>
      BY <1>0, <1>4 DEF HeartbeatRead, Counted
    <2>2. heartbeat' \in Nat /\ heartbeat' <= copies + 1
      <3> HIDE DEF copies
      <3> QED
        BY <1>l, <1>c, <1>f, <2>1
    <2> QED
      BY <1>0, <2>1, <2>2
         DEF StreamInv, StreamFollowsChain, CopiesFollowChain, HeartbeatAgrees
  <1>5. CASE Recv
    BY <1>0, <1>5, StreamUntouched DEF Recv
  <1>6. CASE UdpSend \/ CaptureLine \/ CaptureCount \/ CaptureSend
    BY <1>0, <1>6, StreamUntouched DEF UdpSend, CaptureLine, CaptureCount, CaptureSend
  <1>7. ASSUME NEW h \in Handlers, HandlerMoves(h) PROVE StreamInv'
    <2>1. UNCHANGED <<channel, senders, pipeline, heartbeat, heartbeats, gelf>>
      BY <1>0, <1>7, MoveEffect
    <2> QED
      BY <1>0, <2>1, StreamUntouched
  <1>8. CASE UNCHANGED vars
    BY <1>0, <1>8, StreamUntouched DEF vars
  <1> QED
    BY <1>1, <1>2, <1>3, <1>4, <1>5, <1>6, <1>7, <1>8 DEF Next, HandlerMoves

-----------------------------------------------------------------------------
(***************************************************************************)
(* The invariant and what follows from it.                                 *)
(***************************************************************************)

\* The initial state satisfies the invariant.
LEMMA InitInv == Init => Inv
  <1> SUFFICES ASSUME Init PROVE Inv
    OBVIOUS
  <1>1. Len(<< >>) = 0 /\ Len(WalLines) \in Nat
    BY LinesAssumption, LenProperties
  <1>2. Shapes
    <2>1. capture \in [pc : {"line", "count", "send"}, line : 1..Len(WalLines) + 1]
      BY <1>1 DEF Init
    <2>2. channel \in Seq(Events) /\ chain \in Seq(Nat) /\ gelf \in Seq(Messages)
      BY DEF Init
    <2>3. Len(channel) <= ChannelCap
      BY <1>1, BoundsAssumption DEF Init
    <2> QED
      BY <2>1, <2>2, <2>3 DEF Init, Shapes
  <1>3. Received = 0
    BY <1>1 DEF Init, Received
  <1>4. WalWaiting(channel, 0) = {}
    BY <1>1 DEF Init, WalWaiting
  <1>5. RowsBefore(1) = 0
    <2>1. {n \in 1..1 - 1 : IsRow(n)} = {}
      OBVIOUS
    <2> QED
      BY <2>1, FS_EmptySet DEF RowsBefore
  <1>6. CopiesIn(gelf, 0) = 0
    <2>1. {m \in 1..0 : IsCopy(gelf[m])} = {}
      OBVIOUS
    <2> QED
      BY <2>1, FS_EmptySet DEF CopiesIn
  <1>7. Counted
    <2>1. AsOf(health, chain) /\ health.events_processed = Len(chain)
      BY <1>1 DEF Init, AsOf
    <2>2. Cardinality(WalWaiting(channel, Received)) = 0
      BY <1>3, <1>4, FS_EmptySet
    <2>3. capture.pc = "line" /\ capture.line = 1
      BY DEF Init
    <2> QED
      BY <1>1, <1>3, <1>5, <2>1, <2>2, <2>3 DEF Init, Counted
  <1>8. LsnInv /\ HandlerInv /\ ResponseInv
    <2>1. LsnInv /\ ResponseInv
      BY DEF Init, LsnInv, ResponseInv
    <2>2. Kept(NoCount, chain, wal_events, udp_events)
      BY <1>1 DEF Init, Kept, NoCount
    <2>3. ASSUME NEW h \in Handlers
          PROVE  HandlerOK(handler[h], floor[h], chain, wal_events, udp_events)
      <3>1. handler[h].pc = "idle" /\ floor[h] = NoCount
        BY DEF Init
      <3> QED
        BY <2>2, <3>1 DEF HandlerOK
    <2> QED
      BY <2>1, <2>2, <2>3 DEF Init, HandlerInv
  <1>9. StreamInv
    <2>1. Len(gelf) = 0 /\ Len(chain) = 0 /\ 1..Len(gelf) = {}
      BY <1>1 DEF Init
    <2>2. processor.pc = "select" /\ heartbeat = Null
      BY DEF Init
    <2> QED
      BY <1>6, <2>1, <2>2
         DEF StreamInv, StreamFollowsChain, CopiesFollowChain, HeartbeatAgrees
  <1> QED
    BY <1>2, <1>7, <1>8, <1>9 DEF Inv

\* The invariant holds in every state.
LEMMA Invariant == Spec => []Inv
  <1>1. Inv /\ [Next]_vars => Inv'
    BY ShapesStep, CountedStep, LsnStep, HandlerStep, ResponseStep, StreamStep DEF Inv
  <1> QED
    BY InitInv, <1>1, PTL DEF Spec

\* The state always has its type, and the mpsc channel never holds more than
\* its capacity, although two tasks send to it.
THEOREM TypeCorrect == Spec => []TypeOK
  <1>1. Inv => TypeOK
    <2> SUFFICES ASSUME Shapes PROVE TypeOK
      BY DEF Inv
    <2> QED
      BY DEF Shapes, TypeOK
  <1> QED
    BY Invariant, <1>1, PTL

\* Every answer of health_handler makes sense, although its four reads may lie
\* any number of steps of the capture and the processor apart.
THEOREM ResponsesAreConsistent == Spec => []ResponseConsistent
  <1>1. Inv => ResponseConsistent
    BY DEF Inv, ResponseInv, ResponseConsistent, AsOf
  <1> QED
    BY Invariant, <1>1, PTL

\* The counters of an answer of health_handler reach those of every answer that
\* was given before its handler began, however many handlers overlap.
THEOREM ResponsesGrow == Spec => ResponsesMonotone
  <1> DEFINE Grow == \A h \in Handlers :
        handler[h].pc = "udp" /\ handler'[h].pc # "udp" => Reaches(response', floor[h])
  <1>1. Inv /\ [Next]_vars => Grow
    <2> SUFFICES ASSUME Inv, [Next]_vars, NEW h \in Handlers,
                        handler[h].pc = "udp", handler'[h].pc # "udp"
                 PROVE  Reaches(response', floor[h])
      OBVIOUS
    <2>0. Shapes /\ HandlerOK(handler[h], floor[h], chain, wal_events, udp_events)
      BY DEF Inv, HandlerInv
    <2>1. Respond(h)
      BY <2>0, OthersLeaveHandler DEF HandlerMoves, ReadHealth, ReadLsn, ReadWalEvents
    <2>2. response' = [health |-> handler[h].health, wal_lsn |-> handler[h].wal_lsn,
                       wal_events |-> handler[h].wal_events, udp_events |-> udp_events]
      BY <2>1 DEF Respond, Reported
    <2>3. /\ response'.health = handler[h].health
          /\ response'.wal_events = handler[h].wal_events /\ response'.udp_events = udp_events
      BY <2>2
    <2>4. /\ floor[h].processed <= handler[h].health.events_processed
          /\ floor[h].wal <= handler[h].wal_events
          /\ floor[h].udp \in 0..udp_events
      BY <2>0 DEF HandlerOK, Kept
    <2>5. floor[h].udp <= udp_events
      BY <2>0, <2>4 DEF Shapes
    <2> QED
      BY <2>3, <2>4, <2>5 DEF Reaches
  <1>2. Spec => [][Grow]_vars
    BY Invariant, <1>1, PTL DEF Spec
  <1> QED
    BY <1>2 DEF ResponsesMonotone

\* The GELF stream carries the chain's events with their hashes, one by one and
\* in order, and no heartbeat claims more than one event beyond the copies.
THEOREM StreamIsChain == Spec => []StreamFollowsChain
  <1>1. Inv => StreamFollowsChain
    BY DEF Inv, StreamInv
  <1> QED
    BY Invariant, <1>1, PTL

=============================================================================
