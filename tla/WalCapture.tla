----------------------------- MODULE WalCapture -----------------------------
(***************************************************************************)
(* The WAL capture task of walcapture.rs: it polls a logical replication   *)
(* slot with pg_logical_slot_get_changes, turns the decoded lines into     *)
(* events and sends them to the processor's channel. run() starts          *)
(* run_inner() again, after five seconds, whenever it fails.               *)
(*                                                                         *)
(* The environment: applications commit transactions; the processor and    *)
(* the writer take events from the channel and store them, which is itself *)
(* a transaction on a table of the same database; the database connection  *)
(* breaks; the process is restarted; the database server crashes, and with *)
(* it the slot goes back to the position that was last written to disk.    *)
(*                                                                         *)
(* A transaction has one change. A decoded line keeps the table and its    *)
(* tag; the row images are the subject of module Sensitive.                *)
(***************************************************************************)
EXTENDS Naturals, Sequences, SequencesExt

CONSTANTS
  Tables,       \* the tables applications write to
  Tagged,       \* those listed in vibe_audit.sensitive_tables
  PollLimit,    \* at most 500 lines, rounded up to whole transactions
  ChannelCap,   \* mpsc::channel(10_000)
  Faults,       \* which of the failures below are possible
  MaxLsn,       \* bound on the number of transactions
  MaxFailures,  \* bound on the number of failed queries
  MaxLosses,    \* bound on the number of lost replies and restarts
  MaxCrashes    \* bound on the number of crashes of the server

ASSUME TablesAssumption == Tagged \subseteq Tables /\ "events" \notin Tables
ASSUME SizesAssumption == PollLimit \in Nat \ {0} /\ ChannelCap \in Nat \ {0}
ASSUME FaultsAssumption == Faults \subseteq {"query", "reply", "crash", "server"}
ASSUME BoundsAssumption ==
  /\ MaxLsn \in Nat /\ MaxFailures \in Nat
  /\ MaxLosses \in Nat /\ MaxCrashes \in Nat

VARIABLES
  lsn,              \* number of transactions committed, the end of the WAL
  slot,             \* the replication slot exists
  wal,              \* transactions the slot has not handed out
  unsaved,          \* those handed out since its position was last saved
  connected,        \* run_inner's connection is to the running server
  pc,               \* where run() is: "start", "poll", "rows", "send", "sleep"
  rows,             \* the lines of the last poll still to be processed
  event,            \* the event in tx.send, << >> if none
  channel,          \* the mpsc channel
  sent,             \* every event ever put into the channel
  wal_lsn,          \* reported by /health
  wal_event_count,  \* reported by /health
  failures,         \* number of failed queries so far
  losses,           \* number of lost replies and restarts so far
  crashes           \* number of crashes of the server so far

\* The slot's position on disk, the connection and the server's crashes.
server == <<unsaved, connected, crashes>>

vars == <<lsn, slot, wal, pc, rows, event, channel, sent, wal_lsn,
          wal_event_count, failures, losses, server>>

-----------------------------------------------------------------------------
\* A transaction: its LSN, the number of crashes of the server before the slot
\* hands it out, the table, and what test_decoding calls it.
Changes == [lsn : Nat, gen : Nat, table : Tables \union {"events"}, tag : {"ROW", "TRUNCATE"}]

\* test_decoding's output for a transaction.
Lines(t) == <<[t EXCEPT !.tag = "BEGIN"], t, [t EXCEPT !.tag = "COMMIT"]>>

\* parse_test_decoding returns an event: not for BEGIN and COMMIT lines, and
\* not for a command other than INSERT, UPDATE and DELETE.
Parses(line) == line.tag = "ROW"

\* Number of transactions one poll takes off the slot.
PollCount == IF 3 * Len(wal) <= PollLimit THEN Len(wal)
             ELSE (PollLimit + 2) \div 3

\* Faulty: the slot stays where it is (peek_changes); it is moved to the end of
\* the WAL, past what was returned.
RestPeeked == wal
RestNone == << >>

\* What the slot still holds after a poll, and what the poll took.
Rest == SubSeq(wal, PollCount + 1, Len(wal))
Taken == SubSeq(wal, 1, PollCount)

Commits(table, tag) ==
  /\ lsn < MaxLsn
  /\ lsn' = lsn + 1
  /\ wal' = IF slot THEN Append(wal, [lsn |-> lsn + 1, gen |-> crashes,
                                      table |-> table, tag |-> tag])
            ELSE wal

Init ==
  /\ lsn = 0
  /\ slot \in BOOLEAN
  /\ wal = << >>
  /\ unsaved = << >>
  /\ connected = FALSE
  /\ pc = "start"
  /\ rows = << >>
  /\ event = << >>
  /\ channel = << >>
  /\ sent = << >>
  /\ wal_lsn = 0
  /\ wal_event_count = 0
  /\ failures = 0
  /\ losses = 0
  /\ crashes = 0

-----------------------------------------------------------------------------
\* run_inner() up to its loop: the slot is created unless it exists.
Start ==
  /\ pc = "start"
  /\ slot' = TRUE
  /\ connected' = TRUE
  /\ pc' = "poll"
  /\ UNCHANGED <<lsn, wal, rows, event, channel, sent, wal_lsn,
                 wal_event_count, failures, losses, unsaved, crashes>>

\* The query, which moves the slot forward in the server's memory; if it finds
\* nothing the task sleeps for 200 ms and asks again.
Poll ==
  /\ pc = "poll"
  /\ connected
  /\ \/ /\ wal # << >>
        /\ rows' = FlattenSeq([i \in 1..PollCount |-> Lines(wal[i])])
        /\ wal' = Rest
        /\ unsaved' = unsaved \o Taken
        /\ pc' = "rows"
     \/ /\ wal = << >>
        /\ UNCHANGED <<rows, wal, unsaved, pc>>
  /\ UNCHANGED <<lsn, slot, event, channel, sent, wal_lsn, wal_event_count,
                 failures, losses, connected, crashes>>

\* One line: wal_lsn is set; an event is counted before it is sent.
ProcessRow ==
  /\ pc = "rows"
  /\ rows # << >>
  /\ wal_lsn' = Head(rows).lsn
  /\ rows' = Tail(rows)
  /\ IF Parses(Head(rows))
     THEN /\ event' = <<Head(rows)>>
          /\ wal_event_count' = wal_event_count + 1
          /\ pc' = "send"
     ELSE UNCHANGED <<event, wal_event_count, pc>>
  /\ UNCHANGED <<lsn, slot, wal, channel, sent, failures, losses, server>>

\* Faulty: the channel has no bound.
HasRoomAlways == TRUE

HasRoom == Len(channel) < ChannelCap

\* tx.send(event).await has found a free slot.
Send ==
  /\ pc = "send"
  /\ HasRoom
  /\ channel' = channel \o event
  /\ sent' = sent \o event
  /\ event' = << >>
  /\ pc' = "rows"
  /\ UNCHANGED <<lsn, slot, wal, rows, wal_lsn, wal_event_count, failures,
                 losses, server>>

\* The end of the for loop.
RowsDone ==
  /\ pc = "rows"
  /\ rows = << >>
  /\ pc' = "poll"
  /\ UNCHANGED <<lsn, slot, wal, rows, event, channel, sent, wal_lsn,
                 wal_event_count, failures, losses, server>>

\* pool.get or one of the queries returns an error. The slot may have been
\* created all the same, if only the answer was lost.
Fails ==
  /\ "query" \in Faults
  /\ failures < MaxFailures
  /\ pc \in {"start", "poll"}
  /\ failures' = failures + 1
  /\ pc' = "sleep"
  /\ \/ UNCHANGED slot
     \/ "reply" \in Faults /\ pc = "start" /\ slot' = TRUE
  /\ UNCHANGED <<lsn, wal, rows, event, channel, sent, wal_lsn,
                 wal_event_count, losses, server>>

\* The query is sent on the connection to a server that has crashed since.
ConnectionGone ==
  /\ pc = "poll"
  /\ ~connected
  /\ pc' = "sleep"
  /\ UNCHANGED <<lsn, slot, wal, rows, event, channel, sent, wal_lsn,
                 wal_event_count, failures, losses, server>>

\* The connection breaks after the poll has moved the slot forward.
PollReplyLost ==
  /\ "reply" \in Faults
  /\ losses < MaxLosses
  /\ pc = "poll"
  /\ connected
  /\ wal # << >>
  /\ losses' = losses + 1
  /\ wal' = Rest
  /\ unsaved' = unsaved \o Taken
  /\ pc' = "sleep"
  /\ UNCHANGED <<lsn, slot, rows, event, channel, sent, wal_lsn,
                 wal_event_count, failures, connected, crashes>>

\* The five seconds are over: run_inner() is called again.
Wake ==
  /\ pc = "sleep"
  /\ pc' = "start"
  /\ UNCHANGED <<lsn, slot, wal, rows, event, channel, sent, wal_lsn,
                 wal_event_count, failures, losses, server>>

\* The forwarder process dies and is started again.
Restart ==
  /\ "crash" \in Faults
  /\ losses < MaxLosses
  /\ losses' = losses + 1
  /\ pc' = "start"
  /\ rows' = << >>
  /\ event' = << >>
  /\ channel' = << >>
  /\ wal_lsn' = 0
  /\ wal_event_count' = 0
  /\ UNCHANGED <<lsn, slot, wal, sent, failures, server>>

-----------------------------------------------------------------------------
(***************************************************************************)
(* The rest of the system.                                                 *)
(***************************************************************************)

\* An application writes to a table.
AppCommits(table, tag) ==
  /\ Commits(table, tag)
  /\ UNCHANGED <<slot, pc, rows, event, channel, sent, wal_lsn,
                 wal_event_count, failures, losses, server>>

\* The processor takes the event from the channel and write_batch inserts it
\* into vibe_audit.events: a committed transaction like any other.
Store ==
  /\ channel # << >>
  /\ channel' = Tail(channel)
  /\ \/ Commits("events", "ROW")
     \/ lsn = MaxLsn /\ UNCHANGED <<lsn, wal>>   \* the bound
  /\ UNCHANGED <<slot, pc, rows, event, sent, wal_lsn, wal_event_count, failures,
                 losses, server>>

\* The server writes the position of the slot to disk: a checkpoint, as a rule.
SlotSaved ==
  /\ unsaved # << >>
  /\ unsaved' = << >>
  /\ UNCHANGED <<lsn, slot, wal, pc, rows, event, channel, sent, wal_lsn,
                 wal_event_count, failures, losses, connected, crashes>>

\* The transactions of s, to be handed out after crash g.
Reread(s, g) == [i \in 1..Len(s) |-> [s[i] EXCEPT !.gen = g]]

\* The server crashes and recovers. The slot is where it was on disk, and hands
\* out again what it had handed out since. run_inner does not notice before its
\* next query: it goes on with the lines it has, and keeps no position itself.
ServerCrash ==
  /\ "server" \in Faults
  /\ crashes < MaxCrashes
  /\ crashes' = crashes + 1
  /\ wal' = Reread(unsaved \o wal, crashes + 1)
  /\ unsaved' = << >>
  /\ connected' = FALSE
  /\ UNCHANGED <<lsn, slot, pc, rows, event, channel, sent, wal_lsn,
                 wal_event_count, failures, losses>>

Next ==
  \/ Start
  \/ Poll
  \/ ProcessRow
  \/ Send
  \/ RowsDone
  \/ Fails
  \/ ConnectionGone
  \/ PollReplyLost
  \/ Wake
  \/ Restart
  \/ \E table \in Tables, tag \in {"ROW", "TRUNCATE"} : AppCommits(table, tag)
  \/ Store
  \/ SlotSaved
  \/ ServerCrash

\* The task runs; the database answers; the processor drains the channel.
Fairness ==
  /\ WF_vars(Start)
  /\ WF_vars(Poll)
  /\ WF_vars(ConnectionGone)
  /\ WF_vars(ProcessRow)
  /\ WF_vars(Send)
  /\ WF_vars(RowsDone)
  /\ WF_vars(Wake)
  /\ WF_vars(Store)

Spec == Init /\ [][Next]_vars

FairSpec == Spec /\ Fairness

-----------------------------------------------------------------------------
(***************************************************************************)
(* Correctness properties.                                                 *)
(***************************************************************************)

LineTags == {"ROW", "TRUNCATE", "BEGIN", "COMMIT"}
DecodedLines == [lsn : Nat, gen : Nat, table : Tables \union {"events"}, tag : LineTags]

\* The shape of the state.
TypeOK ==
  /\ lsn \in Nat
  /\ slot \in BOOLEAN
  /\ wal \in Seq(Changes)
  /\ unsaved \in Seq(Changes)
  /\ connected \in BOOLEAN
  /\ pc \in {"start", "poll", "rows", "send", "sleep"}
  /\ rows \in Seq(DecodedLines)
  /\ event \in Seq(Changes) /\ Len(event) = (IF pc = "send" THEN 1 ELSE 0)
  /\ channel \in Seq(Changes) /\ Len(channel) <= ChannelCap
  /\ sent \in Seq(Changes)
  /\ wal_lsn \in 0..lsn
  /\ wal_event_count \in Nat
  /\ failures \in Nat
  /\ losses \in Nat
  /\ crashes \in Nat

\* a is handed out before b: earlier in commit order, or before a crash of the
\* server that b comes after.
Before(a, b) == a.gen < b.gen \/ (a.gen = b.gen /\ a.lsn < b.lsn)

\* Changes are sent in commit order and none twice, whatever queries fail, however
\* often run() starts over or the process is restarted, and however a crash of the
\* server falls between a poll and the sending of its lines. Only such a crash
\* makes the capture go back, to a position the slot had; a change is so sent at
\* most once more for every crash.
SentInOrderOnce ==
  \A i, j \in 1..Len(sent) : i < j => Before(sent[i], sent[j])

\* A row change that is in the slot's reach is sent, even if queries fail or the
\* server crashes meanwhile, unless a reply is lost or the process restarted after
\* that.
EveryChangeSent ==
  \A n \in 1..MaxLsn, k \in 0..MaxLosses :
    ([](losses = k) /\ \E i \in 1..Len(wal) : wal[i].lsn = n /\ wal[i].tag = "ROW")
      ~> (\E i \in 1..Len(sent) : sent[i].lsn = n)

\* "Full before/after JSONB diff on tagged tables": only those are captured.
OnlyTaggedTables ==
  \A i \in 1..Len(sent) : sent[i].table \in Tagged

\* The row changes between the slot and the channel.
Underway == {line \in ToSet(wal) \union ToSet(rows) \union ToSet(event) : Parses(line)}

\* The safety half of EveryChangeSent: a row change that the slot has recorded
\* leaves the capture by being sent, and in no other way but a lost reply or a
\* restart. A failed query, a full channel, the end of a poll and a crash of the
\* server lose nothing.
ChangesKept ==
  [][\A line \in Underway :
       \/ \E kept \in Underway' \union ToSet(sent') : kept.lsn = line.lsn
       \/ losses' # losses]_vars

-----------------------------------------------------------------------------
(***************************************************************************)
(* The strengthening that makes SentInOrderOnce inductive.                 *)
(***************************************************************************)

\* The lines of one transaction share its place; only one of them is a row change.
Precedes(a, b) ==
  /\ Before(a, b) \/ (a.gen = b.gen /\ a.lsn = b.lsn)
  /\ Parses(a) /\ Parses(b) => Before(a, b)

InOrder(s) == \A i, j \in 1..Len(s) : i < j => Precedes(s[i], s[j])
AllPrecede(s, t) == \A i \in 1..Len(s), j \in 1..Len(t) : Precedes(s[i], t[j])

Increasing(s) == \A i, j \in 1..Len(s) : i < j => Before(s[i], s[j])
AllBefore(s, t) == \A i \in 1..Len(s), j \in 1..Len(t) : Before(s[i], t[j])
UpTo(s, n, g) == \A i \in 1..Len(s) : s[i].lsn <= n /\ s[i].gen <= g
OfGen(s, g) == \A i \in 1..Len(s) : s[i].gen = g
AllParse(s) == \A i \in 1..Len(s) : Parses(s[i])

\* What was sent, the event in tx.send, the lines of the last poll and what is
\* left in the slot follow each other in the order they are handed out, each
\* transaction in one of them only (but for lines that make no event).
CaptureInOrder ==
  /\ AllParse(sent) /\ AllParse(event)
  /\ InOrder(sent) /\ InOrder(rows) /\ Increasing(wal)
  /\ AllPrecede(sent, event) /\ AllPrecede(sent, rows) /\ AllPrecede(event, rows)
  /\ AllBefore(sent, wal) /\ AllBefore(event, wal) /\ AllBefore(rows, wal)
  /\ UpTo(sent, lsn, crashes) /\ UpTo(event, lsn, crashes)
  /\ UpTo(rows, lsn, crashes) /\ UpTo(wal, lsn, crashes)

\* What a crash would put back into the slot comes before what is in it.
UnsavedInOrder ==
  /\ OfGen(unsaved, crashes) /\ OfGen(wal, crashes)
  /\ Increasing(unsaved) /\ AllBefore(unsaved, wal)
  /\ UpTo(unsaved, lsn, crashes)

\* Outside the loop over a poll's lines none are left (for ChangesKept).
LinesUsedUp == pc \in {"start", "poll", "sleep"} => rows = << >>
=============================================================================
