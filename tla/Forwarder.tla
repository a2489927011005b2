------------------------------ MODULE Forwarder ------------------------------
(***************************************************************************)
(* The forwarder's main pipeline: the bounded mpsc channel that the        *)
(* listener and the WAL capture send to, the processor task of main.rs     *)
(* (hash chain, GELF copy, batch, flush timer), BatchWriter::write_batch   *)
(* with its retry queue, and the vibe_audit.events table it inserts into.  *)
(*                                                                         *)
(* One action is one stretch of code between two awaits. The interleavings *)
(* are those of the senders, the database going away and coming back       *)
(* (also while a statement runs) and the process dying at any await.       *)
(*                                                                         *)
(* Events are numbered in the order they enter the channel. The number     *)
(* stands for the six fields that build_payload() joins: different events  *)
(* have different payloads. Of the other fields only what decides whether  *)
(* PostgreSQL takes the row is kept, as the event's kind.                  *)
(***************************************************************************)
EXTENDS HashChain

CONSTANTS
  Kinds,          \* the kinds of event sent to the channel
  ChannelCap,     \* mpsc::channel(10_000)
  BatchSize,      \* the batch is written when it holds 100 events
  MaxRetry,       \* max_retry, 10_000
  MaxInsertRows,  \* 18 parameters a row, at most 65535 in one statement
  Faults,         \* which of the failures below are possible
  MaxEvents,      \* bound on the number of events sent
  MaxRestarts     \* bound on the number of restarts

ASSUME KindsAssumption ==
  Kinds \subseteq {"AUTH_TCP", "AUTH_LOCAL", "DDL", "DATA_CHANGE"}
ASSUME SizesAssumption ==
  /\ ChannelCap \in Nat \ {0}
  /\ BatchSize \in Nat \ {0}
  /\ MaxRetry \in Nat \ {0}
  /\ MaxInsertRows \in Nat
\* 100, 3640 and 10_000: a batch fits into a statement, a full retry queue does not.
ASSUME OrderAssumption ==
  BatchSize <= MaxInsertRows /\ MaxInsertRows < MaxRetry
ASSUME FaultsAssumption ==
  Faults \subseteq {"db", "reply", "crash"}
ASSUME BoundsAssumption ==
  MaxEvents \in Nat /\ MaxRestarts \in Nat

VARIABLES
  emitted,      \* number of events sent to the channel so far
  channel,      \* the mpsc channel
  chain,        \* the processor's HashChain
  event,        \* the event between recv and batch.push, << >> if none
  batch,        \* the processor's batch
  pc,           \* where the processor waits: "select", "gelf", "pool", "insert"
  retries,      \* write_batch's local copy of the retry queue
  retry_queue,  \* BatchWriter.retry_queue
  client,       \* the connection write_batch holds
  health,       \* HealthState and the count of UDP events
  rows,         \* the rows of vibe_audit.events, by id
  db,           \* the database server: "up" or "down"
  restarts      \* number of restarts so far

vars == <<emitted, channel, chain, event, batch, pc, retries, retry_queue,
          client, health, rows, db, restarts>>

-----------------------------------------------------------------------------
(***************************************************************************)
(* Events and their fields.                                                *)
(***************************************************************************)

\* What build_payload() makes of an event.
Payload(e) == e.id

\* detail.source = "wal": the event comes from walcapture.rs.
IsWal(e) == e.kind = "DATA_CHANGE"

\* Faulty: the hash covers the event alone.
AppliedAlone(e) ==
  [id |-> e.id, kind |-> e.kind, prev_hash |-> chain.prev_hash,
   event_hash |-> Digest(NoHash, Payload(e))]

\* HashChain::apply: the event with prev_hash and event_hash set.
Applied(e) ==
  [id         |-> e.id,
   kind       |-> e.kind,
   prev_hash  |-> chain.prev_hash,
   event_hash |-> Digest(chain.prev_hash, Payload(e))]

\* client_addr::inet succeeds on an IP address and on NULL (WAL events have
\* none); it fails on the "" of DDL events and on the "[local]" of
\* authentication over a Unix socket.
InetCastOk(e) == e.kind \in {"AUTH_TCP", "DATA_CHANGE"}

\* PostgreSQL accepts the statement: all rows, or none.
Insertable(es) ==
  /\ \A i \in 1..Len(es) : InetCastOk(es[i])
  /\ Len(es) <= MaxInsertRows

-----------------------------------------------------------------------------
(***************************************************************************)
(* The retry queue.                                                        *)
(***************************************************************************)

\* One round of the loop of write_batch and of enqueue_retries: the event is
\* pushed, after the oldest entry of a full queue has been removed.
PushEvicting(q, e) == Append(IF Len(q) >= MaxRetry THEN Tail(q) ELSE q, e)

\* The whole loop, over the events es: the newest MaxRetry stay.
Requeue(q, es) ==
  LET s == q \o es
  IN  IF Len(s) <= MaxRetry THEN s
      ELSE SubSeq(s, Len(s) - MaxRetry + 1, Len(s))

\* Faulty: the new events go before the retries.
AllEventsNewFirst == batch \o retries

\* retries.iter().chain(events.iter())
AllEvents == retries \o batch

\* Faulty: a failed INSERT queues without the limit; a full queue takes no
\* more events, instead of losing its oldest; only the new events are queued.
AfterErrorUncapped == retry_queue \o AllEvents
AfterErrorDropsNewest ==
  SubSeq(AllEvents, 1, IF Len(AllEvents) < MaxRetry THEN Len(AllEvents) ELSE MaxRetry)
AfterErrorOnlyBatch == Requeue(retry_queue, batch)

\* The retry queue after an INSERT that returned an error.
AfterError == Requeue(retry_queue, AllEvents)

-----------------------------------------------------------------------------
Init ==
  /\ emitted = 0
  /\ channel = << >>
  /\ chain = NewChain
  /\ event = << >>
  /\ batch = << >>
  /\ pc = "select"
  /\ retries = << >>
  /\ retry_queue = << >>
  /\ client = "none"
  /\ health = [events_processed |-> 0, chain_length |-> 0, udp_events |-> 0]
  /\ rows = << >>
  /\ db = "up"
  /\ restarts = 0

\* Faulty: try_send, the event is dropped when the channel is full.
ArriveTrySend(kind) ==
  /\ emitted < MaxEvents
  /\ emitted' = emitted + 1
  /\ channel' = IF Len(channel) < ChannelCap
                THEN Append(channel, [id |-> emitted + 1, kind |-> kind])
                ELSE channel
  /\ UNCHANGED <<chain, event, batch, pc, retries, retry_queue, client,
                 health, rows, db, restarts>>

(***************************************************************************)
(* The senders: listener::run and walcapture::run_inner await a free slot. *)
(***************************************************************************)
Arrive(kind) ==
  /\ emitted < MaxEvents
  /\ Len(channel) < ChannelCap
  /\ emitted' = emitted + 1
  /\ channel' = Append(channel, [id |-> emitted + 1, kind |-> kind])
  /\ UNCHANGED <<chain, event, batch, pc, retries, retry_queue, client,
                 health, rows, db, restarts>>

(***************************************************************************)
(* The processor's select!, first branch up to gelf.send().await.          *)
(***************************************************************************)
Recv ==
  /\ pc = "select"
  /\ channel # << >>
  /\ LET e == Head(channel) IN
       /\ event' = <<Applied(e)>>
       /\ chain' = Advance(chain, Payload(e))
       /\ health' = [events_processed |-> health.events_processed + 1,
                     chain_length     |-> chain.chain_length + 1,
                     udp_events       |-> IF IsWal(e) THEN health.udp_events
                                          ELSE health.udp_events + 1]
  /\ channel' = Tail(channel)
  /\ pc' = "gelf"
  /\ UNCHANGED <<emitted, batch, retries, retry_queue, client, rows, db,
                 restarts>>

\* Faulty: the retry queue is copied, not taken.
StartWriteClones ==
  /\ retries' = retry_queue
  /\ UNCHANGED retry_queue
  /\ pc' = "pool"

\* Faulty: only the new events are written.
StartWriteNoRetries ==
  /\ UNCHANGED <<retries, retry_queue>>
  /\ pc' = "pool"

\* write_batch up to pool.get().await: the retry queue is taken.
StartWrite ==
  /\ retries' = retry_queue
  /\ retry_queue' = << >>
  /\ pc' = "pool"

\* gelf.send has returned: push, and write the batch once it is full.
GelfSent ==
  /\ pc = "gelf"
  /\ batch' = batch \o event
  /\ event' = << >>
  /\ \/ /\ Len(batch') >= BatchSize
        /\ StartWrite
     \/ /\ Len(batch') < BatchSize
        /\ pc' = "select"
        /\ UNCHANGED <<retries, retry_queue>>
  /\ UNCHANGED <<emitted, channel, chain, client, health, rows, db, restarts>>

\* Faulty: the timer does not write a batch that is not full.
TickNoFlush ==
  /\ pc = "select"
  /\ UNCHANGED vars

\* The select!'s second branch: the one-second flush timer.
Tick ==
  /\ pc = "select"
  /\ \/ batch # << >> /\ StartWrite
     \/ batch = << >> /\ UNCHANGED <<retries, retry_queue, pc>>
  /\ UNCHANGED <<emitted, channel, chain, event, batch, client, health, rows,
                 db, restarts>>

(***************************************************************************)
(* BatchWriter::write_batch after its awaits. Each of these returns to the *)
(* processor, which clears the batch.                                      *)
(***************************************************************************)

\* write_batch is left with its local retries; batch.clear(); back to select!.
EndWrite ==
  /\ batch' = << >>
  /\ retries' = << >>
  /\ client' = "none"
  /\ pc' = "select"

\* The pool hands out a connection. While the database is away this may be
\* one whose loss has not been noticed.
PoolGetOk ==
  /\ pc = "pool"
  /\ client' = IF db = "up" THEN "live" ELSE "stale"
  /\ pc' = "insert"
  /\ UNCHANGED <<emitted, channel, chain, event, batch, retries, retry_queue,
                 health, rows, db, restarts>>

\* No connection: only the events of this call are queued again.
PoolGetErr ==
  /\ pc = "pool"
  /\ db = "down"
  /\ retry_queue' = Requeue(retry_queue, batch)
  /\ EndWrite
  /\ UNCHANGED <<emitted, channel, chain, event, health, rows, db, restarts>>

InsertOk ==
  /\ pc = "insert"
  /\ client = "live"
  /\ Insertable(AllEvents)
  /\ rows' = rows \o AllEvents
  /\ EndWrite
  /\ UNCHANGED <<emitted, channel, chain, event, retry_queue, health, db,
                 restarts>>

InsertErr ==
  /\ pc = "insert"
  /\ client = "stale" \/ ~Insertable(AllEvents)
  /\ retry_queue' = AfterError
  /\ EndWrite
  /\ UNCHANGED <<emitted, channel, chain, event, health, rows, db, restarts>>

\* The statement commits but the connection breaks before the reply.
InsertLostReply ==
  /\ "reply" \in Faults
  /\ pc = "insert"
  /\ client = "live"
  /\ Insertable(AllEvents)
  /\ rows' = rows \o AllEvents
  /\ retry_queue' = AfterError
  /\ EndWrite
  /\ UNCHANGED <<emitted, channel, chain, event, health, db, restarts>>

(***************************************************************************)
(* The environment.                                                        *)
(***************************************************************************)

\* The database goes away, and with it every connection to it.
DbFails ==
  /\ "db" \in Faults
  /\ db = "up"
  /\ db' = "down"
  /\ client' = IF client = "live" THEN "stale" ELSE client
  /\ UNCHANGED <<emitted, channel, chain, event, batch, pc, retries,
                 retry_queue, health, rows, restarts>>

DbRecovers ==
  /\ db = "down"
  /\ db' = "up"
  /\ UNCHANGED <<emitted, channel, chain, event, batch, pc, retries,
                 retry_queue, client, health, rows, restarts>>

\* The process ends (a task panics or returns, or it is killed) and main()
\* runs again: nothing but the table survives. A statement that was sent
\* may still commit.
Restart ==
  /\ "crash" \in Faults
  /\ restarts < MaxRestarts
  /\ restarts' = restarts + 1
  /\ channel' = << >>
  /\ chain' = NewChain
  /\ event' = << >>
  /\ batch' = << >>
  /\ pc' = "select"
  /\ retries' = << >>
  /\ retry_queue' = << >>
  /\ client' = "none"
  /\ health' = [events_processed |-> 0, chain_length |-> 0, udp_events |-> 0]
  /\ \/ UNCHANGED rows
     \/ /\ pc = "insert" /\ client = "live" /\ Insertable(AllEvents)
        /\ rows' = rows \o AllEvents
  /\ UNCHANGED <<emitted, db>>

-----------------------------------------------------------------------------
Next ==
  \/ \E kind \in Kinds : Arrive(kind)
  \/ Recv
  \/ GelfSent
  \/ Tick
  \/ PoolGetOk
  \/ PoolGetErr
  \/ InsertOk
  \/ InsertErr
  \/ InsertLostReply
  \/ DbFails
  \/ DbRecovers
  \/ Restart

(***************************************************************************)
(* tokio::select! polls its branches in random order, so neither of two    *)
(* branches that are ready over and over is passed by for ever: strong     *)
(* fairness of Recv and of Tick. gelf.send is a UDP send, pool.get and     *)
(* execute end with an answer or with the connection's error. Nothing      *)
(* makes events arrive, the database come back or the process crash.       *)
(***************************************************************************)
Fairness ==
  /\ SF_vars(Recv)
  /\ SF_vars(Tick)
  /\ WF_vars(GelfSent)
  /\ WF_vars(PoolGetOk \/ PoolGetErr)
  /\ WF_vars(InsertOk \/ InsertErr \/ InsertLostReply)

Spec == Init /\ [][Next]_vars

FairSpec == Spec /\ Fairness

-----------------------------------------------------------------------------
(***************************************************************************)
(* Correctness properties.                                                 *)
(***************************************************************************)

RawEvent == [id : Nat \ {0}, kind : Kinds]
ChainedEvents ==
  [id : Nat \ {0}, kind : Kinds, prev_hash : Seq(Nat), event_hash : Seq(Nat)]

\* The shape of the state; in which phase of the loop which buffer is empty;
\* and that the channel, the batch and the retry queue respect their limits
\* (mpsc::channel(10_000), batch.len() >= 100, max_retry).
TypeOK ==
  /\ emitted \in Nat
  /\ channel \in Seq(RawEvent) /\ Len(channel) <= ChannelCap
  /\ chain \in [prev_hash : Seq(Nat), chain_length : Nat]
  /\ event \in Seq(ChainedEvents) /\ Len(event) = (IF pc = "gelf" THEN 1 ELSE 0)
  /\ batch \in Seq(ChainedEvents)
  /\ pc \in {"select", "gelf", "pool", "insert"}
  /\ pc \in {"select", "gelf"} => Len(batch) < BatchSize /\ retries = << >>
  /\ pc \in {"pool", "insert"} =>
       Len(batch) \in 1..BatchSize /\ retry_queue = << >>
  /\ retries \in Seq(ChainedEvents) /\ Len(retries) <= MaxRetry
  /\ retry_queue \in Seq(ChainedEvents) /\ Len(retry_queue) <= MaxRetry
  /\ client \in {"none", "live", "stale"}
  /\ (client = "none") <=> (pc # "insert")
  /\ health \in [events_processed : Nat, chain_length : Nat, udp_events : Nat]
  /\ rows \in Seq(ChainedEvents)
  /\ db \in {"up", "down"}
  /\ restarts \in Nat

\* The chained events that are not known to be stored, oldest first.
Pending == retry_queue \o retries \o batch \o event

\* Whatever failed, was queued, evicted or given up before: the events the
\* forwarder still holds are an unbroken run of the hash chain that ends at
\* its head, so writing them can only ever append a piece of the chain.
PendingIsChainRun ==
  /\ Linked(Pending)
  /\ Pending # << >> =>
       Pending[Len(Pending)].event_hash = chain.prev_hash

\* The table is in the order the events were received, except for replays: a
\* row that does not continue the ids above all earlier ones is the identical
\* copy of an earlier row (an INSERT repeated by the retry queue), and that
\* copy was there before the rows it would be out of order with.
ReplayOnly ==
  \A i \in 1..Len(rows) : \A j \in i+1..Len(rows) :
    rows[j].id <= rows[i].id => \E k \in 1..i : rows[k] = rows[j]

\* If two rows are neighbours in the chain then no event was received between
\* them: a table that verify_chain() accepts has no hole, whatever was evicted
\* from the retry queue or lost with a failed connection.
ValidMeansComplete ==
  \A i, j \in 1..Len(rows) :
    rows[j].prev_hash = rows[i].event_hash => rows[j].id = rows[i].id + 1

\* The id of the event in the row before row i.
IdBefore(i) == IF i = 1 THEN 0 ELSE rows[i - 1].id

\* Nobody but the forwarder writes the table here, and yet verify_chain() may
\* reject a row. It does so for one of two reasons only: the events between this
\* row and the one before it are missing, or one of the two is there again; or
\* the forwarder was restarted and the row begins its new chain. Where the events
\* follow each other within a chain the rows verify, also after restarts.
BreakHasCause ==
  \A i \in 1..Len(rows) : ~GoodAt(rows, i, Payload) =>
    \/ rows[i].id # IdBefore(i) + 1
    \/ restarts > 0 /\ rows[i].prev_hash = NoHash

IsIn(e, s) == \E k \in 1..Len(s) : s[k] = e

\* An event that is neither stored nor held any longer was evicted from a full
\* retry queue, with the warning "retry queue full, dropping oldest", died with
\* the process, or had been taken from the retry queue when no connection was
\* to be had: that is the one place at which write_batch() gives events up
\* silently. A statement that fails gives up only what the limit forces out.
LossHasCause ==
  [][\A i \in 1..Len(Pending) :
       \/ IsIn(Pending[i], Pending') \/ IsIn(Pending[i], rows')
       \/ Len(retry_queue') = MaxRetry
       \/ restarts' # restarts
       \/ PoolGetErr /\ i <= Len(retries)]_vars

\* "Batch Insert -> vibe_audit.events": an event that is in the channel while
\* the database stays up from then on ends up in the table, whatever the retry
\* queue holds from earlier outages.
EveryEventStored ==
  \A id \in 1..MaxEvents :
    ([](db = "up") /\ \E i \in 1..Len(channel) : channel[i].id = id)
      ~> (\E i \in 1..Len(rows) : rows[i].id = id)

\* What is held leaves room for a batch in one statement.
Fits == Len(Pending) + BatchSize <= MaxInsertRows

\* No failure from outside: the database answers, no statement is about to be
\* repeated although it was committed, every event held can be cast, and the
\* process has been restarted for the last time.
Undisturbed ==
  /\ db = "up"
  /\ \A i \in 1..Len(retry_queue) : ~IsIn(retry_queue[i], rows)
  /\ \A i \in 1..Len(Pending) : InetCastOk(Pending[i])
  /\ restarts = MaxRestarts

\* As far as the promise of EveryEventStored is kept: an event that is in the
\* channel at a moment when what is held fits into one statement is stored, if
\* nothing goes wrong from then on; the retries of earlier outages are stored with
\* it and do not pile up.
StoredWhileItFits ==
  \A id \in 1..MaxEvents :
    ([]Undisturbed /\ Fits /\ \E i \in 1..Len(channel) : channel[i].id = id)
      ~> (\E i \in 1..Len(rows) : rows[i].id = id)

\* The events taken from the retry queue and still in it.
Waiting == Len(retry_queue) + Len(retries)

\* "events queued for retry": once as many events wait as a statement can hold,
\* each retry fails, since it takes all of them and a batch. Nothing is stored any
\* more and no fewer events wait, until the process is restarted or the pool fails
\* at the moment at which they would all be dropped.
OverlongQueueStays ==
  [][Waiting >= MaxInsertRows /\ restarts' = restarts =>
       PoolGetErr \/ (rows' = rows /\ Waiting' >= MaxInsertRows)]_vars

-----------------------------------------------------------------------------
(***************************************************************************)
(* The pipeline implements AuditTrail.                                     *)
(***************************************************************************)

\* The id of the newest event the processor has received (or lost).
Received == emitted - Len(channel)

\* The hash the next event is chained to.
ChainHead == chain.prev_hash

AT == INSTANCE AuditTrail WITH
        last    <- Received,
        head    <- ChainHead,
        pending <- Pending,
        trail   <- rows

\* The channel holds the newest events sent, in order: what has been received
\* is exactly what is not in it (a step towards ImplementsAuditTrail).
ChannelNumbered ==
  /\ Len(channel) <= emitted
  /\ \A i \in 1..Len(channel) : channel[i].id = emitted - Len(channel) + i

\* Batching, the retry queue, failed connections, lost replies and restarts
\* never show outside as anything but AuditTrail's steps.
ImplementsAuditTrail == AT!Spec

-----------------------------------------------------------------------------
(***************************************************************************)
(* The strengthening that makes BreakHasCause inductive (with AuditTrail's *)
(* Follows for the chains after the first).                                *)
(***************************************************************************)

\* The head of an unbroken chain over the events 1, ..., n.
HashOfFirst(n) == [k \in 1..n |-> k]

\* A record as an unbroken chain over all events up to its own makes it.
Unbroken(r) ==
  /\ r.prev_hash  = HashOfFirst(r.id - 1)
  /\ r.event_hash = HashOfFirst(r.id)

\* Before the first restart every event received is chained to all events
\* before it, and stays so where it is held and stored.
FirstRunUnbroken ==
  restarts = 0 =>
    /\ chain.prev_hash = HashOfFirst(emitted - Len(channel))
    /\ \A i \in 1..Len(Pending) : Unbroken(Pending[i])
    /\ \A i \in 1..Len(rows) : Unbroken(rows[i])
=============================================================================
