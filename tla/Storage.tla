------------------------------- MODULE Storage -------------------------------
(***************************************************************************)
(* The database side of the forwarder: the connection pool that four tasks *)
(* share, and the monthly partitions of vibe_audit.events.                 *)
(*                                                                         *)
(* pool.get() waits, in order and without a timeout, for one of PoolSize   *)
(* connections. The writer, the refresh of the sensitive fields and the    *)
(* partition loop return theirs after one statement; the WAL capture keeps *)
(* its connection as long as it works. ensure_partition() creates the      *)
(* partition of the current month only. It is called when main() starts,   *)
(* and then once a day; an INSERT fails as a whole if the month of one of  *)
(* its rows has no partition.                                              *)
(*                                                                         *)
(* An event is the month of its event_time. Channel and batch are one      *)
(* buffer here; a statement and the retry queue have the limits that they  *)
(* have in Forwarder.                                                      *)
(***************************************************************************)
EXTENDS Naturals, Sequences, FiniteSets

CONSTANTS
  PoolSize,      \* connections in the pool (deadpool's default: twice the cores)
  MonthLength,   \* days in a month
  BatchSize,     \* the batch is written when it holds 100 events
  MaxInsertRows, \* 18 parameters a row, at most 65535 in one statement
  MaxRetry,      \* max_retry, 10_000
  EventsPerDay,  \* bound on the events of a day
  MaxDays,       \* bound on the calendar
  MaxOutages     \* bound on the outages of the database

ASSUME PoolAssumption == PoolSize \in Nat /\ PoolSize >= 2
ASSUME CalendarAssumption ==
  /\ MonthLength \in Nat \ {0} /\ MaxDays \in Nat \ {0}
  /\ MaxOutages \in Nat /\ EventsPerDay \in Nat
\* 100, 3640 and 10_000: a batch fits into a statement, a full retry queue does not.
ASSUME SizesAssumption ==
  /\ BatchSize \in Nat \ {0} /\ MaxInsertRows \in Nat /\ MaxRetry \in Nat
  /\ BatchSize <= MaxInsertRows /\ MaxInsertRows < MaxRetry

VARIABLES
  day,         \* CURRENT_DATE
  fired,       \* the daily interval has fired today
  due,         \* number of its ticks that the loop has not taken yet
  boot,        \* main(): "partition", then "refresh", then "running"
  task,        \* state of each task, see Tasks
  waiters,     \* tasks waiting in pool.get(), first come first served
  broken,      \* tasks whose connection no longer works
  left,        \* number of events that this day is still to bring
  arrived,     \* events received and not given to write_batch() yet
  events,      \* write_batch(): its argument
  retries,     \* write_batch(): what it took from the retry queue
  retry_queue, \* BatchWriter.retry_queue
  partitions,  \* months that have a partition
  db,          \* "up" or "down"
  outages      \* number of outages so far

calendar == <<day, fired, due, left>>
buffers  == <<arrived, events, retries, retry_queue>>
vars == <<calendar, boot, task, waiters, broken, buffers, partitions, db, outages>>

\* "idle": between two uses of the pool; "get": in pool.get(); "run": a
\* statement is under way; "keep": the capture's poll loop.
Tasks == {"writer", "refresh", "partition", "capture"}

Month(d) == (d - 1) \div MonthLength
Months == 0..Month(MaxDays)
Elements(q) == {q[k] : k \in 1..Len(q)}
Queued == Elements(retries) \union Elements(retry_queue)
Held == Elements(arrived) \union Elements(events) \union Queued
InUse == {t \in Tasks : task[t] \in {"run", "keep"}}

Init ==
  /\ day = 1 /\ fired = TRUE /\ due = 1
  /\ boot = "partition"
  /\ task = [t \in Tasks |-> IF t = "partition" THEN "get" ELSE "idle"]
  /\ waiters = <<"partition">>
  /\ broken = {}
  /\ left \in 0..EventsPerDay
  /\ arrived = << >> /\ events = << >> /\ retries = << >> /\ retry_queue = << >>
  /\ partitions = {}
  /\ db \in {"up", "down"}
  /\ outages = 0

-----------------------------------------------------------------------------
\* The loop of write_batch and of enqueue_retries, as in Forwarder: of a full
\* queue the oldest event is dropped for each one that is pushed.
Requeue(q, es) ==
  LET s == q \o es
  IN  IF Len(s) <= MaxRetry THEN s
      ELSE SubSeq(s, Len(s) - MaxRetry + 1, Len(s))

(***************************************************************************)
(* The tasks ask for a connection.                                         *)
(***************************************************************************)

\* Faulty: the newest waiter is served first.
JoinsFirst(t) == <<t>> \o waiters

\* pool.get() queues its caller.
Joins(t) == Append(waiters, t)

Ask(t) ==
  /\ boot = "running"
  /\ task[t] = "idle"
  /\ task' = [task EXCEPT ![t] = "get"]
  /\ waiters' = Joins(t)
  /\ UNCHANGED <<day, fired, left, boot, broken, partitions, db, outages>>

\* The processor flushes: write_batch() takes the retry queue, then asks.
WriteBatch ==
  /\ arrived # << >>
  /\ Ask("writer")
  /\ events' = arrived
  /\ arrived' = << >>
  /\ retries' = retry_queue
  /\ retry_queue' = << >>
  /\ UNCHANGED due

\* The loop of daily_partition takes a tick.
PartitionTick ==
  /\ due > 0
  /\ Ask("partition")
  /\ due' = due - 1
  /\ UNCHANGED buffers

\* The five-minute timer; the capture's first start, or after its five seconds.
RefreshTick == Ask("refresh") /\ UNCHANGED <<due, buffers>>
CaptureStart == Ask("capture") /\ UNCHANGED <<due, buffers>>

(***************************************************************************)
(* The pool.                                                               *)
(***************************************************************************)

\* Faulty: the pool hands out more connections than it has.
AvailableAlways == TRUE

Available == Cardinality(InUse) < PoolSize

\* The first waiter gets a connection; while the database is away it may be
\* one whose loss has not been noticed.
Granted(t) ==
  /\ waiters # << >> /\ Head(waiters) = t
  /\ Available
  /\ waiters' = Tail(waiters)
  /\ task' = [task EXCEPT ![t] = "run"]
  /\ broken' = IF db = "down" THEN broken \union {t} ELSE broken
  /\ UNCHANGED <<calendar, boot, buffers, partitions, db, outages>>

\* Faulty: the refresh does not give its connection back.
AfterUseKeeping(t) == IF t = "refresh" THEN "keep" ELSE "idle"

\* The client is dropped at the end of the function that got it.
AfterUse(t) == "idle"

\* A task is done with its client, or got none. During main() the next call
\* follows: BatchWriter::new(), refresh_cache(), and then all tasks.
Leaves(t) ==
  /\ task' = [task EXCEPT ![t] = AfterUse(t),
                          !["refresh"] = IF boot = "partition" THEN "get" ELSE @]
  /\ broken' = broken \ {t}
  /\ boot' = IF boot = "partition" THEN "refresh" ELSE "running"

\* The waiters, with the one that follows main()'s first call.
NextWaiters(ws) == IF boot = "partition" THEN Append(ws, "refresh") ELSE ws

\* pool.get() fails. write_batch() queues its events and drops the retries;
\* the others log the error, the capture sleeps.
GetFails(t) ==
  /\ waiters # << >> /\ Head(waiters) = t
  /\ Available
  /\ db = "down"
  /\ waiters' = NextWaiters(Tail(waiters))
  /\ Leaves(t)
  /\ IF t = "writer"
     THEN /\ retry_queue' = Requeue(retry_queue, events)
          /\ events' = << >> /\ retries' = << >>
          /\ UNCHANGED arrived
     ELSE UNCHANGED buffers
  /\ UNCHANGED <<calendar, partitions, db, outages>>

(***************************************************************************)
(* The statements.                                                         *)
(***************************************************************************)
Works(t) == task[t] = "run" /\ t \notin broken

\* vibe_audit.ensure_partition(CURRENT_DATE)
EnsurePartition ==
  /\ Works("partition")
  /\ partitions' = partitions \union {Month(day)}
  /\ Leaves("partition")
  /\ waiters' = NextWaiters(waiters)
  /\ UNCHANGED <<calendar, buffers, db, outages>>

RefreshDone ==
  /\ Works("refresh")
  /\ Leaves("refresh")
  /\ UNCHANGED <<calendar, waiters, buffers, partitions, db, outages>>

\* run_inner() reaches its loop and keeps the client.
CapturePolls ==
  /\ Works("capture")
  /\ task' = [task EXCEPT !["capture"] = "keep"]
  /\ UNCHANGED <<calendar, boot, waiters, broken, buffers, partitions, db, outages>>

\* The statement has no more rows than it may, and each has a partition.
Accepted ==
  /\ Len(retries \o events) <= MaxInsertRows
  /\ Elements(retries \o events) \subseteq partitions

InsertOk ==
  /\ Works("writer")
  /\ Accepted
  /\ events' = << >> /\ retries' = << >>
  /\ Leaves("writer")
  /\ UNCHANGED <<calendar, waiters, arrived, retry_queue, partitions, db, outages>>

InsertErr ==
  /\ task["writer"] = "run"
  /\ "writer" \in broken \/ ~Accepted
  /\ retry_queue' = Requeue(retry_queue, retries \o events)
  /\ events' = << >> /\ retries' = << >>
  /\ Leaves("writer")
  /\ UNCHANGED <<calendar, waiters, arrived, partitions, db, outages>>

\* A statement of another task fails with its connection.
StatementFails(t) ==
  /\ t # "writer"
  /\ task[t] \in {"run", "keep"} /\ t \in broken
  /\ Leaves(t)
  /\ waiters' = NextWaiters(waiters)
  /\ UNCHANGED <<calendar, buffers, partitions, db, outages>>

(***************************************************************************)
(* Time, events, the database server.                                      *)
(***************************************************************************)

\* Faulty: the interval of daily_partition is not a loop.
DueOnce == due

DueAgain == due + 1

\* The daily interval, at the time of day at which the forwarder started.
TimerFires ==
  /\ boot = "running"
  /\ ~fired
  /\ fired' = TRUE
  /\ due' = DueAgain
  /\ UNCHANGED <<day, left, boot, task, waiters, broken, buffers, partitions, db, outages>>

\* Midnight. The day's call of ensure_partition(), which takes milliseconds, is
\* over by then.
NewDay ==
  /\ boot = "running"
  /\ fired /\ due = 0 /\ task["partition"] = "idle"
  /\ day < MaxDays
  /\ day' = day + 1
  /\ fired' = FALSE
  /\ left' \in 0..EventsPerDay
  /\ UNCHANGED <<due, boot, task, waiters, broken, buffers, partitions, db, outages>>

Arrives ==
  /\ boot = "running" /\ db = "up"
  /\ left > 0 /\ Len(arrived) < BatchSize
  /\ left' = left - 1
  /\ arrived' = Append(arrived, Month(day))
  /\ UNCHANGED <<day, fired, due, boot, task, waiters, broken, events, retries, retry_queue,
                 partitions, db, outages>>

DbFails ==
  /\ db = "up" /\ outages < MaxOutages
  /\ db' = "down"
  /\ outages' = outages + 1
  /\ broken' = InUse
  /\ UNCHANGED <<calendar, boot, task, waiters, buffers, partitions>>

DbRecovers ==
  /\ db = "down"
  /\ db' = "up"
  /\ UNCHANGED <<calendar, boot, task, waiters, broken, buffers, partitions, outages>>

Next ==
  \/ WriteBatch \/ PartitionTick \/ RefreshTick \/ CaptureStart
  \/ \E t \in Tasks : Granted(t) \/ GetFails(t) \/ StatementFails(t)
  \/ EnsurePartition \/ RefreshDone \/ CapturePolls \/ InsertOk \/ InsertErr
  \/ TimerFires \/ NewDay \/ Arrives \/ DbFails \/ DbRecovers

Spec == Init /\ [][Next]_vars

(***************************************************************************)
(* The runtime polls tasks that are ready, pool.get() and statements end   *)
(* with a result or with the connection's error, timers fire, time passes. *)
(* The events of a day come while the database is up.                      *)
(***************************************************************************)
FairSpec ==
  /\ Spec
  /\ WF_vars(WriteBatch) /\ WF_vars(PartitionTick) /\ WF_vars(CaptureStart)
  /\ \A t \in Tasks : WF_vars(Granted(t) \/ GetFails(t)) /\ WF_vars(StatementFails(t))
  /\ WF_vars(EnsurePartition) /\ WF_vars(RefreshDone) /\ WF_vars(CapturePolls)
  /\ WF_vars(InsertOk \/ InsertErr)
  /\ WF_vars(TimerFires) /\ WF_vars(NewDay) /\ WF_vars(Arrives)

-----------------------------------------------------------------------------
(***************************************************************************)
(* Correctness properties.                                                 *)
(***************************************************************************)

\* The shape of the state; no more connections are out than the pool has, and
\* its queue holds each waiting task once.
TypeOK ==
  /\ day \in 1..MaxDays /\ fired \in BOOLEAN /\ due \in Nat /\ left \in 0..EventsPerDay
  /\ boot \in {"partition", "refresh", "running"}
  /\ task \in [Tasks -> {"idle", "get", "run", "keep"}]
  /\ Cardinality(InUse) <= PoolSize
  /\ {waiters[k] : k \in 1..Len(waiters)} = {t \in Tasks : task[t] = "get"}
  /\ \A j, k \in 1..Len(waiters) : j # k => waiters[j] # waiters[k]
  /\ broken \subseteq InUse
  /\ Len(arrived) <= BatchSize /\ Len(events) <= BatchSize
  /\ Len(retries) <= MaxRetry /\ Len(retry_queue) <= MaxRetry
  /\ Held \union partitions \subseteq 0..Month(day)

\* While a task waits in pool.get(), a connection is free or in use for a
\* single statement: the connection the capture keeps never stops the pool.
PoolFlows ==
  waiters # << >> => Available \/ \E t \in Tasks : task[t] = "run"

\* Every pool.get() returns, although it has no timeout.
EveryWaiterServed ==
  \A t \in Tasks : task[t] = "get" ~> task[t] # "get"

\* Month m has its partition, or a call of ensure_partition() is to come
\* before the month is over.
PartitionToCome(m) ==
  \/ m \in partitions
  \/ /\ m = Month(day)
     /\ ~fired \/ (day < MaxDays /\ Month(day + 1) = m)

\* All events that the forwarder holds fit into one statement.
Fits == Len(retry_queue) + Len(retries) + Len(events) + Len(arrived) <= MaxInsertRows

\* Events whose INSERT failed because a month had begun and the day's tick had
\* not come leave the retry queue for the table, while the database stays up
\* and provided that never more of them are held than fit into one statement
\* and that no month they or later events belong to goes by without an
\* ensure_partition(). If no other event comes to trigger the write they stay
\* in the queue, but the partition they waited for is there. Where more events
\* come before the tick than fit, the statement fails for good, see Forwarder's
\* OverlongQueueStays: the turn of a busy month does lose events.
StoredAcrossMonths ==
  \A m \in Months :
    ([](db = "up" /\ Fits) /\ m \in Queued
       /\ \A n \in Held \union {Month(day)} : PartitionToCome(n))
      ~> \/ m \notin Queued
         \/ m \in partitions /\ left = 0
=============================================================================
