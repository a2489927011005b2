----------------------------- MODULE VerifyChain -----------------------------
(***************************************************************************)
(* The SQL function vibe_audit.verify_chain() of ext/vibe_audit--1.1.sql   *)
(* (the same text as in 1.0), run against a table that the forwarder fills *)
(* and that somebody may alter behind its back: any of a row's columns     *)
(* changed, the two hashes included (the hash has no key, so whoever may   *)
(* UPDATE the table can compute it anew), or a row deleted. A forwarder    *)
(* that is restarted begins a new chain in the same table.                 *)
(*                                                                         *)
(* The forwarder hashes the JSON event (hashchain.rs, build_payload), the  *)
(* SQL function hashes the stored columns (its SELECT): both conversions   *)
(* are written out. Texts are sequences of characters, NULL is the model   *)
(* value Null. Of the six columns in the payload two are kept,             *)
(* session_user and query_text; event_type and event_time are never NULL   *)
(* and keep their text when stored (every sender formats the time with     *)
(* milliseconds and a Z, which is what to_char writes), database and       *)
(* command_tag are treated as session_user is. The column detail stands    *)
(* for the ones that the payload leaves out.                               *)
(***************************************************************************)
EXTENDS HashChain

CONSTANTS
  Null,        \* JSON null, SQL NULL
  Events,      \* the events that are stored
  Forgeries,   \* what an UPDATE may make of a row, hashes included
  MaxRows,     \* bound on the number of rows inserted
  MaxTampers,  \* bound on the number of alterations
  MaxRestarts  \* bound on the number of restarts of the forwarder

ASSUME EventsAssumption ==
  \A e \in Events :
    /\ DOMAIN e = {"session_user", "query_text", "detail"}
    /\ e.session_user \in Seq({"a", "b", "|"}) \union {Null}
    /\ e.query_text \in Seq({"a", "b", "|"}) \union {Null}
ASSUME ForgeriesAssumption ==
  \A f \in Forgeries :
    /\ DOMAIN f = {"session_user", "query_text", "detail", "prev_hash", "event_hash"}
    /\ f.session_user \in Seq({"a", "b", "|"}) \union {Null}
    /\ f.query_text \in Seq({"a", "b", "|"}) \union {Null}
    /\ f.detail \in {e.detail : e \in Events}
    /\ f.prev_hash \in Seq(Seq({"a", "b", "|"}))
    /\ f.event_hash \in Seq(Seq({"a", "b", "|"}))
ASSUME NullAssumption == Null \notin Nat
ASSUME BoundsAssumption == MaxRows \in Nat /\ MaxTampers \in Nat /\ MaxRestarts \in Nat

VARIABLES
  table,     \* vibe_audit.events, by id
  honest,    \* what the forwarder inserted, in order
  chain,     \* the forwarder's HashChain
  next_id,   \* the BIGSERIAL sequence
  tampers,   \* number of alterations so far
  restarts,  \* number of restarts of the forwarder so far
  \* verify_chain()
  pc,        \* "idle", "loop" or "returned"
  cursor,    \* the result of the SELECT, read under one snapshot
  row_count, prev, valid, first_broken_id, checked_count

tableVars  == <<table, honest, chain, next_id, tampers, restarts>>
verifyVars == <<pc, cursor, row_count, prev, valid, first_broken_id, checked_count>>
vars == <<tableVars, verifyVars>>

-----------------------------------------------------------------------------
\* as_str().unwrap_or("") in Rust, COALESCE(_, '') in SQL.
TextOf(v) == IF v = Null THEN << >> ELSE v

\* format!("{}|{}|...") and its SQL counterpart: a plain join, no escaping.
Join(user, query) == TextOf(user) \o <<"|">> \o TextOf(query)

\* build_payload(event) of hashchain.rs.
BuildPayload(e) == Join(e.session_user, e.query_text)

\* The column event_payload of verify_chain()'s SELECT.
EventPayload(row) == Join(row.session_user, row.query_text)

\* The row that HashChain::apply and write_batch make of an event.
StoredRow(id, e) ==
  [id           |-> id,
   session_user |-> e.session_user,
   query_text   |-> e.query_text,
   detail       |-> e.detail,
   prev_hash    |-> chain.prev_hash,
   event_hash   |-> Digest(chain.prev_hash, BuildPayload(e))]

-----------------------------------------------------------------------------
Init ==
  /\ table = << >>
  /\ honest = << >>
  /\ chain = NewChain
  /\ next_id = 1
  /\ tampers = 0
  /\ restarts = 0
  /\ pc = "idle"
  /\ cursor = << >>
  /\ row_count = 0
  /\ prev = NoHash
  /\ valid = FALSE
  /\ first_broken_id = Null
  /\ checked_count = Null

\* The forwarder chains and inserts an event.
Insert(e) ==
  /\ Len(honest) < MaxRows
  /\ table' = Append(table, StoredRow(next_id, e))
  /\ honest' = Append(honest, StoredRow(next_id, e))
  /\ chain' = Advance(chain, BuildPayload(e))
  /\ next_id' = next_id + 1
  /\ UNCHANGED <<tampers, restarts, verifyVars>>

\* The forwarder is restarted: HashChain::new(), the table stays.
Restart ==
  /\ restarts < MaxRestarts
  /\ chain' = NewChain
  /\ restarts' = restarts + 1
  /\ UNCHANGED <<table, honest, next_id, tampers, verifyVars>>

\* What an UPDATE may make of a row: other columns under the hashes it has, or
\* a row with hashes of its own.
Updates(row) ==
  Forgeries \union
    {[session_user |-> e.session_user, query_text |-> e.query_text,
      detail |-> e.detail, prev_hash |-> row.prev_hash,
      event_hash |-> row.event_hash] : e \in Events}

\* Somebody changes a row.
Alter(i, u) ==
  /\ tampers < MaxTampers
  /\ table' = [table EXCEPT ![i] = [@ EXCEPT !.session_user = u.session_user,
                                             !.query_text   = u.query_text,
                                             !.detail       = u.detail,
                                             !.prev_hash    = u.prev_hash,
                                             !.event_hash   = u.event_hash]]
  /\ tampers' = tampers + 1
  /\ UNCHANGED <<honest, chain, next_id, restarts, verifyVars>>

\* Somebody deletes a row.
Delete(i) ==
  /\ tampers < MaxTampers
  /\ table' = SubSeq(table, 1, i - 1) \o SubSeq(table, i + 1, Len(table))
  /\ tampers' = tampers + 1
  /\ UNCHANGED <<honest, chain, next_id, restarts, verifyVars>>

-----------------------------------------------------------------------------
\* Faulty: the counter is not reset.
CallKeepsCount ==
  /\ pc # "loop"
  /\ pc' = "loop"
  /\ cursor' = table
  /\ prev' = NoHash
  /\ valid' = TRUE
  /\ first_broken_id' = Null
  /\ checked_count' = Null
  /\ UNCHANGED <<tableVars, row_count>>

\* SELECT * FROM vibe_audit.verify_chain(), up to the loop.
Call ==
  /\ pc # "loop"
  /\ pc' = "loop"
  /\ cursor' = table
  /\ row_count' = 0
  /\ prev' = NoHash
  /\ valid' = TRUE
  /\ first_broken_id' = Null
  /\ checked_count' = Null
  /\ UNCHANGED tableVars

\* Faulty: each row is only compared with itself.
BrokenAlone(rec) == rec.event_hash # Digest(rec.prev_hash, EventPayload(rec))

\* The two tests of the loop's body, on the row rec.
Broken(rec) ==
  \/ rec.prev_hash # prev
  \/ rec.event_hash # Digest(prev, EventPayload(rec))

\* Faulty: the position of the row is returned instead of its id.
LoopBrokenPosition ==
  /\ pc = "loop"
  /\ row_count < Len(cursor)
  /\ Broken(cursor[row_count + 1])
  /\ first_broken_id' = row_count + 1
  /\ row_count' = row_count + 1
  /\ valid' = FALSE
  /\ checked_count' = row_count + 1
  /\ pc' = "returned"
  /\ UNCHANGED <<tableVars, cursor, prev>>

\* One iteration that finds rec broken, and returns.
LoopBroken ==
  /\ pc = "loop"
  /\ row_count < Len(cursor)
  /\ LET rec == cursor[row_count + 1] IN
       /\ Broken(rec)
       /\ first_broken_id' = rec.id
  /\ row_count' = row_count + 1
  /\ valid' = FALSE
  /\ checked_count' = row_count + 1
  /\ pc' = "returned"
  /\ UNCHANGED <<tableVars, cursor, prev>>

\* One iteration that finds rec in order.
LoopGood ==
  /\ pc = "loop"
  /\ row_count < Len(cursor)
  /\ LET rec == cursor[row_count + 1] IN
       /\ ~Broken(rec)
       /\ prev' = rec.event_hash
  /\ row_count' = row_count + 1
  /\ UNCHANGED <<tableVars, pc, cursor, valid, first_broken_id, checked_count>>

\* END LOOP, and the assignment after it.
LoopEnd ==
  /\ pc = "loop"
  /\ row_count = Len(cursor)
  /\ checked_count' = row_count
  /\ pc' = "returned"
  /\ UNCHANGED <<tableVars, cursor, row_count, prev, valid, first_broken_id>>

-----------------------------------------------------------------------------
Next ==
  \/ \E e \in Events : Insert(e)
  \/ Restart
  \/ \E i \in 1..Len(table) : (\E u \in Updates(table[i]) : Alter(i, u)) \/ Delete(i)
  \/ Call
  \/ LoopBroken
  \/ LoopGood
  \/ LoopEnd

Spec == Init /\ [][Next]_vars

-----------------------------------------------------------------------------
(***************************************************************************)
(* Correctness properties.                                                 *)
(***************************************************************************)

Text == Seq({"a", "b", "|"})
Hash == Seq(Text)
Row == [id : Nat, session_user : Text \union {Null}, query_text : Text \union {Null},
        detail : {e.detail : e \in Events}, prev_hash : Hash, event_hash : Hash]

\* The shape of the state, and that the loop never reads past its cursor.
TypeOK ==
  /\ table \in Seq(Row)
  /\ honest \in Seq(Row)
  /\ chain \in [prev_hash : Hash, chain_length : Nat]
  /\ next_id \in Nat
  /\ tampers \in Nat
  /\ restarts \in Nat
  /\ pc \in {"idle", "loop", "returned"}
  /\ cursor \in Seq(Row)
  /\ row_count \in 0..Len(cursor)
  /\ prev \in Hash
  /\ valid \in BOOLEAN
  /\ first_broken_id \in Nat \union {Null}
  /\ checked_count \in (0..Len(cursor)) \union {Null}

\* verify_chain() returns what its documentation says of the rows it saw:
\* valid exactly when they form one chain from the empty hash, otherwise the
\* id of the first row that does not fit and the number of rows read so far.
VerdictCorrect ==
  pc = "returned" =>
    \/ /\ valid
       /\ ChainValid(cursor, EventPayload)
       /\ first_broken_id = Null
       /\ checked_count = Len(cursor)
    \/ /\ ~valid
       /\ checked_count \in 1..Len(cursor)
       /\ \A i \in 1..checked_count : GoodAt(cursor, i, EventPayload) <=> i < checked_count
       /\ first_broken_id = cursor[checked_count].id

\* In the loop, all rows read so far are good and prev is the last one's hash
\* (what makes VerdictCorrect inductive).
LoopInv ==
  pc = "loop" =>
    /\ valid
    /\ first_broken_id = Null
    /\ prev = HashBefore(cursor, row_count + 1)
    /\ \A i \in 1..row_count : GoodAt(cursor, i, EventPayload)

\* What an accepted table proves, given one hash that is known to be the
\* forwarder's (each is sent to Graylog as well, gelf.rs): if row i of it carries
\* the hash of the k-th event stored, then the rows up to i are the events up to
\* k, payload by payload. Nothing more is proved: the rows after the last known
\* hash may have been written anew, or cut off, and the columns outside the
\* payload changed. Whole chains in front, of earlier starts of the forwarder, may
\* be missing.
AnchorProtects ==
  pc = "returned" /\ valid =>
    \A i \in 1..Len(cursor) : \A k \in 1..Len(honest) :
      cursor[i].event_hash = honest[k].event_hash =>
        \A j \in 0..i-1 :
          /\ k - j \in 1..Len(honest)
          /\ EventPayload(cursor[i - j]) = EventPayload(honest[k - j])

\* The row that the forwarder stored under the id of row.
AsWritten(row) == honest[row.id]

\* "Tampering with any event breaks the chain" (README.md), and a table that does
\* not verify has been tampered with (first_broken_id is the "First tampered
\* event"): the rows of an accepted table are as the forwarder wrote them, and
\* without an alteration the table is accepted. The code keeps neither promise.
VerdictTellsTampering ==
  pc = "returned" =>
    /\ valid => \A i \in 1..Len(cursor) : cursor[i] = AsWritten(cursor[i])
    /\ ~valid => tampers > 0

(***************************************************************************)
(* The strengthening that makes AnchorProtects inductive.                  *)
(***************************************************************************)

\* The hash h covers the payloads of the last rows among the first k of s, as
\* many as it is long.
Covers(h, s, k) ==
  /\ Len(h) <= k
  /\ \A j \in 1..Len(h) : h[j] = EventPayload(s[k - Len(h) + j])

\* Every hash the forwarder made covers the events of its chain up to its own.
HonestChain ==
  /\ Covers(chain.prev_hash, honest, Len(honest))
  /\ \A k \in 1..Len(honest) : Covers(honest[k].event_hash, honest, k)

\* The hash h covers the first n rows of s, all of them.
CoversAll(h, s, n) == Len(h) = n /\ Covers(h, s, n)

\* The hash of a row that has passed the loop's tests covers all rows up to it.
RowsCovered ==
  /\ pc = "loop" =>
       /\ CoversAll(prev, cursor, row_count)
       /\ \A i \in 1..row_count : CoversAll(cursor[i].event_hash, cursor, i)
  /\ pc = "returned" /\ valid =>
       \A i \in 1..Len(cursor) : CoversAll(cursor[i].event_hash, cursor, i)
=============================================================================
