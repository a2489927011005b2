----------------------------- MODULE AuditTrail -----------------------------
(***************************************************************************)
(* What the processor and the BatchWriter of the forwarder together        *)
(* promise, without the batch, the retry queue, the connection pool and    *)
(* the database's availability:                                            *)
(*                                                                         *)
(*  - events are chained one after another, each to the one before it;     *)
(*  - the chained events not yet stored are a run of the chain that ends   *)
(*    at its head; only its oldest end is ever given up;                   *)
(*  - the table is only appended to, and always by the whole run, in       *)
(*    order; the events just stored may stay in the run (and so be stored  *)
(*    again) when the writer did not learn of its success;                 *)
(*  - a restart forgets the run and begins a new chain.                    *)
(***************************************************************************)
EXTENDS HashChain

CONSTANT Kinds   \* the sorts of event

VARIABLES
  last,      \* the id of the newest event handed to the processor (or lost)
  head,      \* the hash the next event is chained to
  pending,   \* chained events not known to be stored, oldest first
  trail      \* the rows of vibe_audit.events, by row id

vars == <<last, head, pending, trail>>

\* An event after HashChain::apply has added its two hashes.
ChainedEvent(id, kind, prev) ==
  [id |-> id, kind |-> kind, prev_hash |-> prev, event_hash |-> Digest(prev, id)]

\* The last n elements of s.
LastN(s, n) == SubSeq(s, Len(s) - n + 1, Len(s))

Init ==
  /\ last = 0
  /\ head = NoHash
  /\ pending = << >>
  /\ trail = << >>

\* The next event is chained.
Chain(kind) ==
  /\ last' = last + 1
  /\ head' = Digest(head, last + 1)
  /\ pending' = Append(pending, ChainedEvent(last + 1, kind, head))
  /\ UNCHANGED trail

\* The run is stored; its newest n events are kept to be stored once more
\* (n = 0 when the writer knows that they are).
Commit(n) ==
  /\ trail' = trail \o pending
  /\ pending' = LastN(pending, n)
  /\ UNCHANGED <<last, head>>

\* All but the newest n pending events are given up.
Forget(n) ==
  /\ pending' = LastN(pending, n)
  /\ UNCHANGED <<last, head, trail>>

\* The process dies and starts again. An insertion that was under way is
\* stored or not; events that were received but not chained are lost.
Restart ==
  /\ last' \in Nat /\ last' >= last
  /\ head' = NoHash
  /\ pending' = << >>
  /\ trail' \in {trail, trail \o pending}

Next ==
  \/ \E kind \in Kinds : Chain(kind)
  \/ \E n \in 0..Len(pending) : Commit(n) \/ Forget(n)
  \/ Restart

Spec == Init /\ [][Next]_vars

-----------------------------------------------------------------------------
(***************************************************************************)
(* What follows from this for the events held and for the table.           *)
(***************************************************************************)

Records ==
  [id : Nat \ {0}, kind : Kinds, prev_hash : Seq(Nat), event_hash : Seq(Nat)]

TypeOK ==
  /\ last \in Nat
  /\ head \in Seq(Nat)
  /\ pending \in Seq(Records)
  /\ trail \in Seq(Records)

\* The events held are an unbroken run of the chain that ends at its head.
PendingIsChainRun ==
  /\ Linked(pending)
  /\ pending # << >> => pending[Len(pending)].event_hash = head

\* Rows out of order are copies of rows that were there before.
ReplayOnly ==
  \A i \in 1..Len(trail) : \A j \in i+1..Len(trail) :
    trail[j].id <= trail[i].id => \E k \in 1..i : trail[k] = trail[j]

\* Rows that are linked are of consecutive events.
ValidMeansComplete ==
  \A i, j \in 1..Len(trail) :
    trail[j].prev_hash = trail[i].event_hash => trail[j].id = trail[i].id + 1

(***************************************************************************)
(* The strengthening that makes them inductive.                            *)
(***************************************************************************)

\* A record was made by ChainedEvent; the hash it is chained to, unless it
\* began a chain, is its direct predecessor's.
Chained(r, newest) ==
  /\ r.id <= newest
  /\ r.event_hash = Digest(r.prev_hash, r.id)
  /\ r.prev_hash # NoHash => r.prev_hash[Len(r.prev_hash)] + 1 = r.id

AllChained ==
  /\ \A i \in 1..Len(pending) : Chained(pending[i], last)
  /\ \A i \in 1..Len(trail) : Chained(trail[i], last)
  /\ head # NoHash => head[Len(head)] = last

\* The events held are in the order they were chained.
PendingOrdered ==
  \A i, j \in 1..Len(pending) : i < j => pending[i].id < pending[j].id

\* An event held is newer than every row, or it is a row already.
PendingNewOrStored ==
  \A i \in 1..Len(pending) : \A k \in 1..Len(trail) :
    trail[k].id >= pending[i].id => \E m \in 1..Len(trail) : trail[m] = pending[i]

Inv ==
  /\ TypeOK
  /\ PendingIsChainRun
  /\ AllChained
  /\ PendingOrdered
  /\ PendingNewOrStored
  /\ ReplayOnly

\* All records there are, held or stored.
RecordsIn(p, t) == {p[i] : i \in 1..Len(p)} \union {t[i] : i \in 1..Len(t)}

\* In the set R of records, one that does not begin a chain is chained to the
\* event before it, wherever that is, and is not the first; and the next event
\* will be.
FollowsIn(R, newest, hash) ==
  /\ \A r, s \in R :
       s.id = r.id + 1 /\ s.prev_hash # NoHash => s.prev_hash = r.event_hash
  /\ hash # NoHash => \A r \in R : r.id = newest => r.event_hash = hash
  /\ \A r \in R : r.prev_hash # NoHash => r.id > 1
  /\ hash # NoHash => newest > 0

Follows == FollowsIn(RecordsIn(pending, trail), last, head)
=============================================================================
