---------------------------- MODULE StorageProofs ----------------------------
(***************************************************************************)
(* The connection pool never stops and the buffers keep their limits, for  *)
(* every size of at least two, every calendar, any number of events a day  *)
(* and any number of outages.                                              *)
(***************************************************************************)
EXTENDS Storage, FiniteSetTheorems, SequenceTheorems, TLAPS

TaskStates == {"idle", "get", "run", "keep"}

\* Only the capture keeps a connection between statements; PoolFlows alone is
\* not inductive, as it says nothing of who holds what when nobody waits.
Inv ==
  /\ task \in [Tasks -> TaskStates]
  /\ \A t \in Tasks : task[t] = "keep" => t = "capture"

\* A task that is done with its connection, or got none, does not keep it.
LEMMA LeavesKeepsInv ==
  ASSUME Inv, NEW t \in Tasks, Leaves(t)
  PROVE  Inv'
  <1>1. "refresh" \in Tasks
    BY DEF Tasks
  <1>2. \A u \in Tasks : task'[u] = task[u] \/ task'[u] \in {"idle", "get"}
    BY <1>1 DEF Inv, Leaves, AfterUse
  <1>3. task' \in [Tasks -> TaskStates]
    BY <1>1 DEF Inv, Leaves, AfterUse, TaskStates
  <1> QED
    BY <1>2, <1>3 DEF Inv

\* Waiting for a connection is not keeping one.
LEMMA AskKeepsInv ==
  ASSUME Inv, NEW t \in Tasks, Ask(t)
  PROVE  Inv'
  BY DEF Inv, Ask, TaskStates

\* No task has a connection when main() starts.
LEMMA InvInit == Init => Inv
  BY DEF Init, Inv, TaskStates

\* Every action keeps the invariant.
LEMMA InvNext == Inv /\ [Next]_vars => Inv'
  <1> SUFFICES ASSUME Inv, [Next]_vars PROVE Inv'
    OBVIOUS
  <1>0. {"writer", "refresh", "partition", "capture"} \subseteq Tasks
    BY DEF Tasks
  <1>1. CASE WriteBatch \/ PartitionTick \/ RefreshTick \/ CaptureStart
    BY <1>0, <1>1, AskKeepsInv DEF WriteBatch, PartitionTick, RefreshTick, CaptureStart
  <1>2. ASSUME NEW t \in Tasks, Granted(t) PROVE Inv'
    BY <1>2 DEF Inv, Granted, TaskStates
  <1>3. ASSUME NEW t \in Tasks, GetFails(t) \/ StatementFails(t) PROVE Inv'
    BY <1>3, LeavesKeepsInv DEF GetFails, StatementFails
  <1>4. CASE EnsurePartition \/ RefreshDone \/ InsertOk \/ InsertErr
    BY <1>0, <1>4, LeavesKeepsInv DEF EnsurePartition, RefreshDone, InsertOk, InsertErr
  <1>5. CASE CapturePolls
    BY <1>0, <1>5 DEF Inv, CapturePolls, TaskStates
  <1>6. CASE TimerFires \/ NewDay \/ Arrives \/ DbFails \/ DbRecovers \/ UNCHANGED vars
    BY <1>6 DEF Inv, TimerFires, NewDay, Arrives, DbFails, DbRecovers, vars
  <1> QED
    BY <1>1, <1>2, <1>3, <1>4, <1>5, <1>6 DEF Next

\* A task in pool.get() never waits for tasks that keep their connections: one
\* is free, or one comes back after a single statement.
THEOREM PoolNeverStops == Spec => []PoolFlows
  <1>1. Inv => PoolFlows
    <2> SUFFICES ASSUME Inv, \A t \in Tasks : task[t] # "run"
                 PROVE  Available
      BY DEF PoolFlows
    <2>1. InUse \subseteq {"capture"}
      BY DEF Inv, InUse
    <2>2. IsFiniteSet({"capture"}) /\ Cardinality({"capture"}) = 1
      BY FS_Singleton
    <2>3. Cardinality(InUse) \in Nat /\ Cardinality(InUse) <= 1
      BY <2>1, <2>2, FS_Subset, FS_CardinalityType
    <2> QED
      BY <2>3, PoolAssumption DEF Available
  <1> QED
    BY <1>1, InvInit, InvNext, PTL DEF Spec

-----------------------------------------------------------------------------
(***************************************************************************)
(* The pool's queue and its limit.                                         *)
(***************************************************************************)

NoRepeats(q) == \A j, k \in 1..Len(q) : j # k => q[j] # q[k]
Waiting == {t \in Tasks : task[t] = "get"}

\* The queue holds each waiting task once. (TypeOK does not say that waiters
\* is a sequence, which what Append and Tail do to it depends on.)
QueueOK ==
  /\ waiters \in Seq(Tasks)
  /\ Elements(waiters) = Waiting
  /\ NoRepeats(waiters)

\* While main() waits in BatchWriter::new() no other task has begun.
BootOK ==
  /\ boot \in {"partition", "refresh", "running"}
  /\ boot = "partition" => \A t \in Tasks : t # "partition" => task[t] = "idle"

PoolInv ==
  /\ task \in [Tasks -> TaskStates]
  /\ Cardinality(InUse) <= PoolSize
  /\ broken \subseteq InUse
  /\ QueueOK
  /\ BootOK

\* A task that begins to wait joins the end of the queue.
LEMMA AppendToQueue ==
  ASSUME NEW S, NEW q \in Seq(S), NEW x \in S, NoRepeats(q), x \notin Elements(q)
  PROVE  /\ Append(q, x) \in Seq(S)
         /\ Elements(Append(q, x)) = Elements(q) \union {x}
         /\ NoRepeats(Append(q, x))
  <1> DEFINE r == Append(q, x)
  <1>1. /\ r \in Seq(S) /\ Len(r) = Len(q) + 1 /\ Len(q) \in Nat
        /\ \A k \in 1..Len(q) : r[k] = q[k]
        /\ r[Len(q) + 1] = x
    BY AppendProperties, LenProperties
  <1> HIDE DEF r
  <1>2. \A k \in 1..Len(r) : k \in 1..Len(q) \/ k = Len(q) + 1
    BY <1>1
  <1>3. \A k \in 1..Len(q) : k \in 1..Len(r)
    BY <1>1
  <1>4. Len(q) + 1 \in 1..Len(r)
    BY <1>1
  <1>5. Elements(r) = Elements(q) \union {x}
    BY <1>1, <1>2, <1>3, <1>4 DEF Elements
  <1>6. NoRepeats(r)
    BY <1>1, <1>2 DEF NoRepeats, Elements
  <1> QED
    BY <1>1, <1>5, <1>6 DEF r

\* The first waiter leaves the queue.
LEMMA TailOfQueue ==
  ASSUME NEW S, NEW q \in Seq(S), q # << >>, NoRepeats(q)
  PROVE  /\ Tail(q) \in Seq(S)
         /\ Head(q) \in Elements(q)
         /\ Elements(Tail(q)) = Elements(q) \ {Head(q)}
         /\ NoRepeats(Tail(q))
  <1> DEFINE r == Tail(q)
  <1>1. /\ r \in Seq(S) /\ Len(r) = Len(q) - 1 /\ Len(q) \in Nat /\ Len(q) >= 1
        /\ \A k \in 1..Len(r) : r[k] = q[k + 1]
        /\ Head(q) = q[1]
    BY HeadTailProperties, LenProperties
  <1> HIDE DEF r
  <1>2. \A k \in 1..Len(r) : k + 1 \in 1..Len(q) /\ k + 1 # 1
    BY <1>1
  <1>3. \A k \in 1..Len(q) : k # 1 => k - 1 \in 1..Len(r) /\ (k - 1) + 1 = k
    BY <1>1
  <1>4. 1 \in 1..Len(q)
    BY <1>1
  <1>5. Head(q) \in Elements(q)
    BY <1>1, <1>4 DEF Elements
  <1>6. Elements(r) \subseteq Elements(q) \ {Head(q)}
    BY <1>1, <1>2, <1>4 DEF Elements, NoRepeats
  <1>7. ASSUME NEW x \in Elements(q) \ {Head(q)} PROVE x \in Elements(r)
    <2>1. PICK k \in 1..Len(q) : x = q[k]
      BY DEF Elements
    <2>2. k # 1
      BY <1>1, <2>1
    <2>3. r[k - 1] = q[k]
      BY <1>1, <1>3, <2>2
    <2> QED
      BY <1>3, <2>1, <2>2, <2>3 DEF Elements
  <1>8. NoRepeats(r)
    <2> SUFFICES ASSUME NEW j \in 1..Len(r), NEW k \in 1..Len(r), j # k
                 PROVE  r[j] # r[k]
      BY DEF NoRepeats
    <2>1. j + 1 # k + 1
      BY <1>1
    <2> QED
      BY <1>1, <1>2, <2>1 DEF NoRepeats
  <1> QED
    BY <1>1, <1>5, <1>6, <1>7, <1>8 DEF r

\* There are finitely many tasks, so the connections in use can be counted.
LEMMA CountInUse ==
  ASSUME NEW S, S \subseteq Tasks
  PROVE  IsFiniteSet(S) /\ Cardinality(S) \in Nat
  <1>1. IsFiniteSet({"writer", "refresh", "partition", "capture"})
    <2>1. IsFiniteSet({"writer"})
      BY FS_Singleton
    <2>2. IsFiniteSet({"writer"} \union {"refresh"})
      BY <2>1, FS_AddElement
    <2>3. IsFiniteSet(({"writer"} \union {"refresh"}) \union {"partition"})
      BY <2>2, FS_AddElement
    <2>4. IsFiniteSet((({"writer"} \union {"refresh"}) \union {"partition"}) \union {"capture"})
      BY <2>3, FS_AddElement
    <2>5. (({"writer"} \union {"refresh"}) \union {"partition"}) \union {"capture"}
            = {"writer", "refresh", "partition", "capture"}
      OBVIOUS
    <2> QED
      BY <2>4, <2>5
  <1>2. IsFiniteSet(S)
    BY <1>1, FS_Subset DEF Tasks
  <1> QED
    BY <1>2, FS_CardinalityType

\* A task that is done with its connection gives it back.
LEMMA LeavesPool ==
  ASSUME PoolInv, NEW t \in Tasks, Leaves(t), boot = "partition" => t = "partition"
  PROVE  /\ task' \in [Tasks -> TaskStates]
         /\ InUse' = InUse \ {t}
         /\ Cardinality(InUse') <= PoolSize
         /\ broken' \subseteq InUse'
         /\ BootOK'
         /\ Waiting' = (Waiting \ {t})
                         \union (IF boot = "partition" THEN {"refresh"} ELSE {})
         /\ boot = "partition" => "refresh" \notin Waiting
  <1>1. "refresh" \in Tasks /\ task \in [Tasks -> TaskStates]
    BY DEF Tasks, PoolInv
  <1>2. boot = "partition" => t # "refresh" /\ task["refresh"] = "idle"
    BY <1>1 DEF PoolInv, BootOK
  <1>3. /\ task' \in [Tasks -> TaskStates]
        /\ task'[t] = "idle"
        /\ boot = "partition" => task'["refresh"] = "get"
        /\ \A u \in Tasks : u # t /\ ~(boot = "partition" /\ u = "refresh")
                              => task'[u] = task[u]
    BY <1>1, <1>2 DEF Leaves, AfterUse, TaskStates
  <1>4. InUse' = InUse \ {t}
    BY <1>1, <1>2, <1>3 DEF InUse
  <1>5. Cardinality(InUse') <= PoolSize
    <2>1. InUse \subseteq Tasks /\ InUse' \subseteq InUse /\ InUse' \subseteq Tasks
      BY <1>4 DEF InUse
    <2>2. Cardinality(InUse') <= Cardinality(InUse)
      BY <2>1, CountInUse, FS_Subset
    <2>3. Cardinality(InUse') \in Nat /\ Cardinality(InUse) \in Nat
      BY <2>1, CountInUse
    <2> QED
      BY <2>2, <2>3, PoolAssumption DEF PoolInv
  <1>6. broken' \subseteq InUse'
    BY <1>4 DEF PoolInv, Leaves
  <1>7. BootOK'
    BY DEF Leaves, BootOK, PoolInv
  <1>8. Waiting' = (Waiting \ {t})
                     \union (IF boot = "partition" THEN {"refresh"} ELSE {})
    BY <1>1, <1>2, <1>3 DEF Waiting
  <1> QED
    BY <1>1, <1>2, <1>3, <1>4, <1>5, <1>6, <1>7, <1>8 DEF Waiting

\* The queue after a task has left: main()'s next call has joined it.
LEMMA LeavesQueue ==
  ASSUME PoolInv, NEW t \in Tasks, Leaves(t), boot = "partition" => t = "partition",
         NEW ws \in Seq(Tasks), Elements(ws) = Waiting \ {t}, NoRepeats(ws),
         waiters' = NextWaiters(ws)
  PROVE  PoolInv'
  <1>1. /\ Waiting' = (Waiting \ {t})
                        \union (IF boot = "partition" THEN {"refresh"} ELSE {})
        /\ boot = "partition" => "refresh" \notin Waiting
    BY LeavesPool
  <1>2. "refresh" \in Tasks
    BY DEF Tasks
  <1>3. QueueOK'
    <2>1. CASE boot = "partition"
      <3>1. waiters' = Append(ws, "refresh") /\ "refresh" \notin Elements(ws)
        BY <1>1, <2>1 DEF NextWaiters
      <3>2. /\ waiters' \in Seq(Tasks)
            /\ Elements(waiters') = Elements(ws) \union {"refresh"}
            /\ NoRepeats(waiters')
        BY <1>2, <3>1, AppendToQueue
      <3>3. Elements(waiters') = Waiting'
        BY <1>1, <2>1, <3>2
      <3> QED
        BY <3>2, <3>3 DEF QueueOK, Elements, NoRepeats
    <2>2. CASE boot # "partition"
      <3>1. waiters' = ws /\ Elements(ws) = Waiting'
        BY <1>1, <2>2 DEF NextWaiters
      <3> QED
        BY <3>1 DEF QueueOK, Elements, NoRepeats
    <2> QED
      BY <2>1, <2>2
  <1> QED
    BY <1>3, LeavesPool DEF PoolInv

\* A task that asks is not in the queue yet.
LEMMA AskPool ==
  ASSUME PoolInv, NEW t \in Tasks, Ask(t)
  PROVE  PoolInv'
  <1>1. /\ task \in [Tasks -> TaskStates] /\ task[t] = "idle"
        /\ task' = [task EXCEPT ![t] = "get"]
        /\ boot' = boot /\ boot = "running" /\ broken' = broken
        /\ waiters' = Append(waiters, t)
    BY DEF PoolInv, Ask, Joins
  <1>2. InUse' = InUse /\ Waiting' = Waiting \union {t} /\ t \notin Waiting
    BY <1>1 DEF InUse, Waiting
  <1>3. task' \in [Tasks -> TaskStates]
    BY <1>1 DEF TaskStates
  <1>4. /\ waiters' \in Seq(Tasks) /\ NoRepeats(waiters')
        /\ Elements(waiters') = Elements(waiters) \union {t}
    BY <1>1, <1>2, AppendToQueue DEF PoolInv, QueueOK
  <1>5. QueueOK'
    BY <1>2, <1>4 DEF PoolInv, QueueOK, Elements, NoRepeats
  <1>6. BootOK'
    BY <1>1 DEF BootOK
  <1> QED
    BY <1>1, <1>2, <1>3, <1>5, <1>6 DEF PoolInv

\* A connection is handed out only when one is left.
LEMMA GrantedPool ==
  ASSUME PoolInv, NEW t \in Tasks, Granted(t)
  PROVE  PoolInv'
  <1>1. /\ task \in [Tasks -> TaskStates] /\ task' = [task EXCEPT ![t] = "run"]
        /\ waiters # << >> /\ Head(waiters) = t /\ waiters' = Tail(waiters)
        /\ boot' = boot /\ Available
        /\ broken' \subseteq broken \union {t}
    BY DEF PoolInv, Granted
  <1>2. /\ waiters' \in Seq(Tasks) /\ NoRepeats(waiters')
        /\ t \in Waiting
        /\ Elements(waiters') = Waiting \ {t}
    BY <1>1, TailOfQueue DEF PoolInv, QueueOK
  <1>3. task[t] = "get" /\ task' \in [Tasks -> TaskStates]
    BY <1>1, <1>2 DEF Waiting, TaskStates
  <1>4. InUse' = InUse \union {t} /\ Waiting' = Waiting \ {t} /\ t \notin InUse
    BY <1>1, <1>3 DEF InUse, Waiting
  <1>5. Cardinality(InUse') <= PoolSize
    <2>1. IsFiniteSet(InUse) /\ Cardinality(InUse) \in Nat
      BY CountInUse DEF InUse
    <2>2. Cardinality(InUse \union {t}) = Cardinality(InUse) + 1
      BY <1>4, <2>1, FS_AddElement
    <2> QED
      BY <1>1, <1>4, <2>1, <2>2, PoolAssumption DEF Available
  <1>6. QueueOK'
    BY <1>2, <1>4 DEF QueueOK, Elements, NoRepeats
  <1>7. BootOK'
    <2>1. boot = "partition" => t = "partition"
      BY <1>3 DEF PoolInv, BootOK
    <2> QED
      BY <1>1, <2>1 DEF PoolInv, BootOK
  <1>8. broken' \subseteq InUse'
    BY <1>1, <1>4 DEF PoolInv
  <1> QED
    BY <1>3, <1>5, <1>6, <1>7, <1>8 DEF PoolInv

\* Only the task that main() runs can leave before main() is done.
LEMMA OnlyPartitionAtBoot ==
  ASSUME PoolInv, NEW t \in Tasks, task[t] # "idle"
  PROVE  boot = "partition" => t = "partition"
  BY DEF PoolInv, BootOK

\* Every step keeps the pool's invariant.
LEMMA PoolStep == PoolInv /\ [Next]_vars => PoolInv'
  <1> SUFFICES ASSUME PoolInv, [Next]_vars PROVE PoolInv'
    OBVIOUS
  <1>0. {"writer", "refresh", "partition", "capture"} \subseteq Tasks
    BY DEF Tasks
  <1>1. CASE WriteBatch \/ PartitionTick \/ RefreshTick \/ CaptureStart
    BY <1>0, <1>1, AskPool DEF WriteBatch, PartitionTick, RefreshTick, CaptureStart
  <1>2. ASSUME NEW t \in Tasks, Granted(t) PROVE PoolInv'
    BY <1>2, GrantedPool
  <1>3. ASSUME NEW t \in Tasks, GetFails(t) PROVE PoolInv'
    <2>1. /\ waiters # << >> /\ Head(waiters) = t /\ Leaves(t)
          /\ waiters' = NextWaiters(Tail(waiters))
      BY <1>3 DEF GetFails
    <2>2. /\ Tail(waiters) \in Seq(Tasks) /\ NoRepeats(Tail(waiters))
          /\ Elements(Tail(waiters)) = Waiting \ {t} /\ t \in Waiting
      BY <2>1, TailOfQueue DEF PoolInv, QueueOK
    <2>3. boot = "partition" => t = "partition"
      BY <2>2, OnlyPartitionAtBoot DEF Waiting
    <2> QED
      BY <2>1, <2>2, <2>3, LeavesQueue
  <1>4. ASSUME NEW t \in Tasks, task[t] \in {"run", "keep"}, Leaves(t),
               waiters' = NextWaiters(waiters)
        PROVE  PoolInv'
    <2>1. boot = "partition" => t = "partition"
      BY <1>4, OnlyPartitionAtBoot
    <2>2. /\ waiters \in Seq(Tasks) /\ NoRepeats(waiters)
          /\ Elements(waiters) = Waiting \ {t}
      BY <1>4 DEF PoolInv, QueueOK, Waiting
    <2> QED
      BY <1>4, <2>1, <2>2, LeavesQueue
  <1>5. ASSUME NEW t \in Tasks, StatementFails(t) PROVE PoolInv'
    BY <1>4, <1>5 DEF StatementFails
  <1>6. CASE EnsurePartition
    BY <1>0, <1>4, <1>6 DEF EnsurePartition, Works
  <1>7. CASE RefreshDone \/ InsertOk \/ InsertErr
    <2>1. PICK t \in {"refresh", "writer"} :
            task[t] = "run" /\ Leaves(t) /\ waiters' = waiters
      BY <1>7 DEF RefreshDone, InsertOk, InsertErr, Works
    <2>2. t \in Tasks /\ t # "partition"
      BY <1>0
    <2>3. boot # "partition"
      BY <2>1, <2>2, OnlyPartitionAtBoot
    <2>4. waiters' = NextWaiters(waiters)
      BY <2>1, <2>3 DEF NextWaiters
    <2> QED
      BY <1>4, <2>1, <2>2, <2>4
  <1>8. CASE CapturePolls
    <2>1. /\ task \in [Tasks -> TaskStates] /\ task["capture"] = "run"
          /\ task' = [task EXCEPT !["capture"] = "keep"]
          /\ UNCHANGED <<boot, waiters, broken>>
      BY <1>8 DEF CapturePolls, Works, PoolInv
    <2>2. InUse' = InUse /\ Waiting' = Waiting /\ task' \in [Tasks -> TaskStates]
      BY <1>0, <2>1 DEF InUse, Waiting, TaskStates
    <2>3. boot # "partition"
      BY <1>0, <2>1, OnlyPartitionAtBoot
    <2>4. QueueOK' /\ BootOK'
      BY <2>1, <2>2, <2>3 DEF PoolInv, QueueOK, Elements, NoRepeats, BootOK
    <2> QED
      BY <2>1, <2>2, <2>4 DEF PoolInv
  <1>9. ASSUME UNCHANGED <<task, waiters, boot>>, broken' \in {broken, InUse}
        PROVE  PoolInv'
    <2>1. InUse' = InUse /\ Waiting' = Waiting
      BY <1>9 DEF InUse, Waiting
    <2> QED
      BY <1>9, <2>1 DEF PoolInv, QueueOK, Elements, NoRepeats, BootOK
  <1>10. CASE TimerFires \/ NewDay \/ Arrives \/ DbFails \/ DbRecovers \/ UNCHANGED vars
    BY <1>9, <1>10 DEF TimerFires, NewDay, Arrives, DbFails, DbRecovers, vars
  <1> QED
    BY <1>1, <1>2, <1>3, <1>5, <1>6, <1>7, <1>8, <1>10 DEF Next

\* main() starts with one task in an otherwise unused pool.
LEMMA PoolInit == Init => PoolInv
  <1> SUFFICES ASSUME Init PROVE PoolInv
    OBVIOUS
  <1>1. task \in [Tasks -> TaskStates] /\ InUse = {} /\ Waiting = {"partition"}
    BY DEF Init, TaskStates, Tasks, InUse, Waiting
  <1>2. Cardinality(InUse) <= PoolSize
    BY <1>1, FS_EmptySet, PoolAssumption
  <1>3. waiters = <<"partition">>
    BY DEF Init
  <1>4. /\ waiters \in Seq(Tasks) /\ Len(waiters) = 1 /\ waiters[1] = "partition"
    BY <1>3 DEF Tasks
  <1>5. QueueOK
    BY <1>1, <1>4 DEF QueueOK, Elements, NoRepeats
  <1>6. BootOK
    BY DEF Init, BootOK
  <1> QED
    BY <1>1, <1>2, <1>5, <1>6 DEF Init, PoolInv

-----------------------------------------------------------------------------
(***************************************************************************)
(* The calendar and the buffers.                                           *)
(***************************************************************************)

\* The four buffers hold months of S and keep their limits.
Buffered(S, a, e, r, q) ==
  /\ a \in Seq(S) /\ Len(a) <= BatchSize
  /\ e \in Seq(S) /\ Len(e) <= BatchSize
  /\ r \in Seq(S) /\ Len(r) <= MaxRetry
  /\ q \in Seq(S) /\ Len(q) <= MaxRetry

CalendarInv ==
  /\ day \in 1..MaxDays /\ fired \in BOOLEAN /\ due \in Nat /\ left \in 0..EventsPerDay
  /\ Buffered(0..Month(day), arrived, events, retries, retry_queue)
  /\ partitions \subseteq 0..Month(day)

\* Requeue keeps the newest events, at most MaxRetry of them.
LEMMA RequeueLimit ==
  ASSUME NEW S, NEW q \in Seq(S), NEW es \in Seq(S)
  PROVE  Requeue(q, es) \in Seq(S) /\ Len(Requeue(q, es)) <= MaxRetry
  <1> DEFINE s == q \o es
  <1>1. s \in Seq(S) /\ Len(s) \in Nat /\ MaxRetry \in Nat
    BY SizesAssumption
  <1>2. Requeue(q, es) = IF Len(s) <= MaxRetry THEN s
                         ELSE SubSeq(s, Len(s) - MaxRetry + 1, Len(s))
    BY DEF Requeue
  <1> HIDE DEF s
  <1>3. CASE ~(Len(s) <= MaxRetry)
    <2> DEFINE m == Len(s) - MaxRetry + 1
    <2>1. m \in Int /\ Len(s) \in Int /\ m <= Len(s) + 1 /\ m >= 1
      BY <1>1, <1>3
    <2>2. \A i \in m..Len(s) : s[i] \in S
      BY <1>1, <2>1
    <2>3. /\ SubSeq(s, m, Len(s)) \in Seq(S)
          /\ Len(SubSeq(s, m, Len(s))) = IF m <= Len(s) THEN Len(s) - m + 1 ELSE 0
      BY <2>1, <2>2, SubSeqProperties
    <2>4. Len(SubSeq(s, m, Len(s))) <= MaxRetry
      BY <1>1, <2>1, <2>3
    <2> QED
      BY <1>2, <1>3, <2>3, <2>4
  <1> QED
    BY <1>1, <1>2, <1>3

\* An empty buffer has no limit to break.
LEMMA EmptyBuffer ==
  ASSUME NEW S
  PROVE  << >> \in Seq(S) /\ Len(<< >>) = 0 /\ 0 <= BatchSize /\ 0 <= MaxRetry
  BY SizesAssumption, EmptySeq

\* Months are numbered from zero and never go back.
LEMMA MonthGrows ==
  ASSUME NEW d \in Nat \ {0}
  PROVE  Month(d) \in Nat /\ Month(d + 1) \in Nat /\ Month(d) <= Month(d + 1)
  BY CalendarAssumption DEF Month

\* No step refers to a month that is still to come, or breaks a buffer's limit.
LEMMA CalendarStep == CalendarInv /\ [Next]_vars => CalendarInv'
  <1> SUFFICES ASSUME CalendarInv, [Next]_vars PROVE CalendarInv'
    OBVIOUS
  <1> DEFINE S == 0..Month(day)
  <1>1. /\ day \in Nat \ {0} /\ Month(day) \in Nat /\ Month(day) \in S
        /\ Buffered(S, arrived, events, retries, retry_queue) /\ partitions \subseteq S
        /\ due \in Nat /\ left \in 0..EventsPerDay /\ fired \in BOOLEAN
        /\ day \in 1..MaxDays
    BY MonthGrows, CalendarAssumption DEF CalendarInv
  <1>b. /\ arrived \in Seq(S) /\ Len(arrived) <= BatchSize
        /\ events \in Seq(S) /\ Len(events) <= BatchSize
        /\ retries \in Seq(S) /\ Len(retries) <= MaxRetry
        /\ retry_queue \in Seq(S) /\ Len(retry_queue) <= MaxRetry
    BY <1>1 DEF Buffered
  <1>e. << >> \in Seq(S) /\ Len(<< >>) <= BatchSize /\ Len(<< >>) <= MaxRetry
    BY EmptyBuffer
  <1> HIDE DEF S
  <1>2. ASSUME UNCHANGED <<day, fired>>, due' \in Nat, left' \in 0..EventsPerDay,
               Buffered(S, arrived', events', retries', retry_queue'),
               partitions' \subseteq partitions \union {Month(day)}
        PROVE  CalendarInv'
    <2>1. partitions' \subseteq S
      BY <1>1, <1>2
    <2>2. S = 0..Month(day) /\ Month(day)' = Month(day)
      BY <1>2 DEF S
    <2> QED
      BY <1>1, <1>2, <2>1, <2>2 DEF CalendarInv
  <1>3. CASE WriteBatch
    <2>1. /\ arrived' = << >> /\ events' = arrived /\ retries' = retry_queue
          /\ retry_queue' = << >>
          /\ UNCHANGED <<day, fired, due, left, partitions>>
      BY <1>3 DEF WriteBatch, Ask
    <2>2. Buffered(S, arrived', events', retries', retry_queue')
      BY <1>b, <1>e, <2>1 DEF Buffered
    <2> QED
      BY <1>1, <1>2, <2>1, <2>2
  <1>4. CASE PartitionTick
    <2>1. due' \in Nat
      BY <1>1, <1>4 DEF PartitionTick
    <2> QED
      BY <1>1, <1>2, <1>4, <2>1 DEF PartitionTick, Ask, buffers
  <1>5. CASE RefreshTick \/ CaptureStart
    BY <1>1, <1>2, <1>5 DEF RefreshTick, CaptureStart, Ask, buffers
  <1>6. ASSUME NEW t \in Tasks, Granted(t) \/ StatementFails(t) PROVE CalendarInv'
    BY <1>1, <1>2, <1>6 DEF Granted, StatementFails, calendar, buffers
  <1>7. ASSUME NEW t \in Tasks, GetFails(t) PROVE CalendarInv'
    <2>1. UNCHANGED <<day, fired, due, left, partitions>>
      BY <1>7 DEF GetFails, calendar
    <2>2. CASE t = "writer"
      <3>1. /\ retry_queue' = Requeue(retry_queue, events)
            /\ events' = << >> /\ retries' = << >> /\ arrived' = arrived
        BY <1>7, <2>2 DEF GetFails
      <3>2. retry_queue' \in Seq(S) /\ Len(retry_queue') <= MaxRetry
        BY <1>b, <3>1, RequeueLimit
      <3>3. Buffered(S, arrived', events', retries', retry_queue')
        BY <1>b, <1>e, <3>1, <3>2 DEF Buffered
      <3> QED
        BY <1>1, <1>2, <2>1, <3>3
    <2>3. CASE t # "writer"
      <3>1. UNCHANGED buffers
        BY <1>7, <2>3 DEF GetFails
      <3> QED
        BY <1>1, <1>2, <2>1, <3>1 DEF buffers
    <2> QED
      BY <2>2, <2>3
  <1>8. CASE EnsurePartition \/ RefreshDone \/ CapturePolls
    BY <1>1, <1>2, <1>8 DEF EnsurePartition, RefreshDone, CapturePolls, calendar, buffers
  <1>9. CASE InsertOk
    <2>1. /\ events' = << >> /\ retries' = << >> /\ UNCHANGED <<arrived, retry_queue>>
          /\ UNCHANGED <<day, fired, due, left, partitions>>
      BY <1>9 DEF InsertOk, calendar
    <2>2. Buffered(S, arrived', events', retries', retry_queue')
      BY <1>b, <1>e, <2>1 DEF Buffered
    <2> QED
      BY <1>1, <1>2, <2>1, <2>2
  <1>10. CASE InsertErr
    <2>1. /\ events' = << >> /\ retries' = << >> /\ UNCHANGED arrived
          /\ retry_queue' = Requeue(retry_queue, retries \o events)
          /\ UNCHANGED <<day, fired, due, left, partitions>>
      BY <1>10 DEF InsertErr, calendar
    <2>2. retries \o events \in Seq(S)
      BY <1>b, ConcatProperties
    <2>3. retry_queue' \in Seq(S) /\ Len(retry_queue') <= MaxRetry
      BY <1>b, <2>1, <2>2, RequeueLimit
    <2>4. Buffered(S, arrived', events', retries', retry_queue')
      BY <1>b, <1>e, <2>1, <2>3 DEF Buffered
    <2> QED
      BY <1>1, <1>2, <2>1, <2>4
  <1>11. CASE TimerFires
    <2>1. /\ fired' \in BOOLEAN /\ day' = day /\ left' = left /\ partitions' = partitions
          /\ UNCHANGED <<arrived, events, retries, retry_queue>>
      BY <1>11 DEF TimerFires, buffers
    <2>2. due' \in Nat
      BY <1>1, <1>11 DEF TimerFires, DueAgain
    <2>3. S = 0..Month(day) /\ Month(day)' = Month(day)
      BY <2>1 DEF S
    <2> QED
      BY <1>1, <2>1, <2>2, <2>3 DEF CalendarInv
  <1>12. CASE NewDay
    <2>1. /\ day' = day + 1 /\ day' \in 1..MaxDays /\ due' = due
          /\ left' \in 0..EventsPerDay /\ partitions' = partitions
          /\ UNCHANGED <<arrived, events, retries, retry_queue>>
      BY <1>1, <1>12, CalendarAssumption DEF NewDay, buffers
    <2>2. fired' \in BOOLEAN
      BY <1>12 DEF NewDay
    <2>3. Month(day)' = Month(day + 1)
      BY <2>1 DEF Month
    <2> DEFINE T == 0..Month(day + 1)
    <2>4. S \subseteq T
      BY <1>1, MonthGrows DEF S
    <2> HIDE DEF T
    <2>5. Buffered(T, arrived, events, retries, retry_queue)
      <3>1. Seq(S) \subseteq Seq(T)
        BY <2>4, SeqMonotonic
      <3> QED
        BY <1>b, <3>1 DEF Buffered
    <2>6. /\ Buffered(T, arrived', events', retries', retry_queue')
          /\ partitions' \subseteq T
      BY <1>1, <2>1, <2>4, <2>5
    <2>7. 0..Month(day)' = T
      BY <2>3 DEF T
    <2> QED
      BY <1>1, <2>1, <2>2, <2>6, <2>7 DEF CalendarInv
  <1>13. CASE Arrives
    <2>1. /\ Len(arrived) < BatchSize /\ arrived' = Append(arrived, Month(day))
          /\ left > 0 /\ left' = left - 1
          /\ UNCHANGED <<day, fired, due, events, retries, retry_queue, partitions>>
      BY <1>13 DEF Arrives
    <2>2. left' \in 0..EventsPerDay
      BY <1>1, <2>1, CalendarAssumption
    <2>3. arrived' \in Seq(S) /\ Len(arrived') = Len(arrived) + 1 /\ Len(arrived) \in Nat
      BY <1>1, <1>b, <2>1, AppendProperties, LenProperties
    <2>4. Len(arrived') <= BatchSize
      BY <2>1, <2>3, SizesAssumption
    <2>5. Buffered(S, arrived', events', retries', retry_queue')
      BY <1>b, <2>1, <2>3, <2>4 DEF Buffered
    <2> QED
      BY <1>1, <1>2, <2>1, <2>2, <2>5
  <1>14. CASE DbFails \/ DbRecovers \/ UNCHANGED vars
    BY <1>1, <1>2, <1>14 DEF DbFails, DbRecovers, vars, calendar, buffers
  <1> QED
    BY <1>3, <1>4, <1>5, <1>6, <1>7, <1>8, <1>9, <1>10, <1>11, <1>12, <1>13, <1>14 DEF Next

\* The pool never has more connections out than it holds and queues each
\* waiting task once, broken connections are among those in use, the buffers
\* keep their limits, and neither an event nor a partition is of a month that
\* is still to come.
THEOREM TypeCorrect == Spec => []TypeOK
  <1>1. Init => CalendarInv
    <2> SUFFICES ASSUME Init PROVE CalendarInv
      OBVIOUS
    <2>1. 1 \in 1..MaxDays
      BY CalendarAssumption
    <2>2. fired \in BOOLEAN
      BY DEF Init
    <2>3. Buffered(0..Month(day), arrived, events, retries, retry_queue)
      BY EmptyBuffer DEF Init, Buffered
    <2>4. day = 1 /\ due = 1 /\ left \in 0..EventsPerDay /\ partitions = {}
      BY DEF Init
    <2> QED
      BY <2>1, <2>2, <2>3, <2>4 DEF CalendarInv
  <1>2. PoolInv /\ CalendarInv => TypeOK
    <2> SUFFICES ASSUME PoolInv, CalendarInv PROVE TypeOK
      OBVIOUS
    <2>1. \A q \in Seq(0..Month(day)) : Elements(q) \subseteq 0..Month(day)
      BY ElementOfSeq DEF Elements
    <2>2. Held \union partitions \subseteq 0..Month(day)
      BY <2>1 DEF CalendarInv, Buffered, Held, Queued
    <2>3. /\ Len(arrived) <= BatchSize /\ Len(events) <= BatchSize
          /\ Len(retries) <= MaxRetry /\ Len(retry_queue) <= MaxRetry
      BY DEF CalendarInv, Buffered
    <2>4. {waiters[k] : k \in 1..Len(waiters)} = {t \in Tasks : task[t] = "get"}
      BY DEF PoolInv, QueueOK, Elements, Waiting
    <2> QED
      BY <2>2, <2>3, <2>4 DEF PoolInv, CalendarInv, TypeOK, QueueOK, BootOK, NoRepeats, TaskStates
  <1> QED
    BY <1>1, <1>2, PoolInit, PoolStep, CalendarStep, PTL DEF Spec
=============================================================================
