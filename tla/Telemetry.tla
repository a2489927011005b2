------------------------------ MODULE Telemetry ------------------------------
(***************************************************************************)
(* What the forwarder tells the outside about itself: the /health endpoint *)
(* and the heartbeat of health.rs, and the GELF copies of gelf.rs. Both    *)
(* read counters that the capture and the processor are changing, one      *)
(* counter after the other.                                                *)
(*                                                                         *)
(* The tasks run on several threads, so a step here is shorter than in     *)
(* Forwarder: one access to shared state (an atomic counter, a lock that   *)
(* is held for one statement, the channel, the GELF socket). axum runs a   *)
(* health_handler for every request, any number of them at a time. The     *)
(* lines of the WAL come in commit order and their LSNs do not: with two   *)
(* transactions at a time the later lines may have the smaller LSNs, so a  *)
(* line's LSN is any number. Events are numbered as they are sent to the   *)
(* channel; an event's number stands for its fields and its time.          *)
(***************************************************************************)
EXTENDS Naturals, Sequences, FiniteSets

CONSTANTS
  WalLines,       \* decoded lines: [kind, lsn]; a "ROW" gives an event, others do not
  ChannelCap,     \* mpsc::channel(10_000)
  MaxUdp,         \* bound on the events from the listener
  MaxHeartbeats,  \* bound on the heartbeats
  Handlers,       \* the requests that can be under way at a time
  Null            \* JSON null, Option::None

ASSUME LinesAssumption ==
  WalLines \in Seq([kind : {"ROW", "BEGIN", "COMMIT"}, lsn : Nat \ {0}])
ASSUME BoundsAssumption ==
  ChannelCap \in Nat \ {0} /\ MaxUdp \in Nat /\ MaxHeartbeats \in Nat

VARIABLES
  channel,      \* the mpsc channel
  sent,         \* number of events put into it
  udp_sent,     \* those from the listener
  capture,      \* the capture: [pc : "line", "count" or "send", line : next line]
  processor,    \* the processor: [pc : "select", "apply" or "gelf", event]
  chain,        \* the events chained so far
  health,       \* HealthData, behind a mutex
  udp_events,   \* AtomicU64
  wal_events,   \* AtomicU64
  wal_lsn,      \* the LSN behind a RwLock, 0 for the empty string
  handler,      \* each health_handler: [pc, and the fields read so far]
  response,     \* the last response, Null at first
  answered,     \* history: the largest counters of all responses so far
  floor,        \* history: for each handler at work, answered when it began
  heartbeat,    \* what heartbeat_loop has read, Null while it waits
  heartbeats,   \* number of heartbeats so far
  gelf          \* the messages given to the GELF socket, in order

vars == <<channel, sent, udp_sent, capture, processor, chain, health,
          udp_events, wal_events, wal_lsn, handler, response, answered, floor,
          heartbeat, heartbeats, gelf>>

senders  == <<sent, udp_sent, capture, wal_events, wal_lsn>>
pipeline == <<processor, chain, health, udp_events>>
endpoint == <<handler, response, answered, floor>>
readers  == <<endpoint, heartbeat, heartbeats>>

-----------------------------------------------------------------------------
\* to_gelf() copies the event's hash; the level, the short message and the
\* other fields are functions of the event.
to_gelf(e) == [event |-> e.id, event_hash |-> e.hash]

NoCount == [processed |-> 0, wal |-> 0, udp |-> 0]

Init ==
  /\ channel = << >> /\ sent = 0 /\ udp_sent = 0
  /\ capture = [pc |-> "line", line |-> 1]
  /\ processor = [pc |-> "select", event |-> Null]
  /\ chain = << >>
  /\ health = [events_processed |-> 0, chain_length |-> 0, last_event_time |-> Null]
  /\ udp_events = 0 /\ wal_events = 0 /\ wal_lsn = 0
  /\ handler = [h \in Handlers |-> [pc |-> "idle"]] /\ response = Null
  /\ answered = NoCount
  /\ floor = [h \in Handlers |-> NoCount]
  /\ heartbeat = Null /\ heartbeats = 0
  /\ gelf = << >>

Enqueue(source) ==
  channel' = Append(channel, [id |-> sent + 1, source |-> source, hash |-> Null])

\* Faulty: the channel has no limit.
SendUnbounded(source) == Enqueue(source)

\* tx.send, which waits for a free slot.
Send(source) == Len(channel) < ChannelCap /\ Enqueue(source)

\* The listener.
UdpSend ==
  /\ udp_sent < MaxUdp
  /\ Send("udp")
  /\ sent' = sent + 1 /\ udp_sent' = udp_sent + 1
  /\ UNCHANGED <<capture, wal_events, wal_lsn, pipeline, readers, gelf>>

IsRow(k) == WalLines[k].kind = "ROW"

\* run_inner: for each line wal_lsn is set; an event is counted and then sent.
CaptureLine ==
  /\ capture.pc = "line" /\ capture.line <= Len(WalLines)
  /\ wal_lsn' = WalLines[capture.line].lsn
  /\ capture' = IF IsRow(capture.line) THEN [capture EXCEPT !.pc = "count"]
                ELSE [capture EXCEPT !.line = @ + 1]
  /\ UNCHANGED <<channel, sent, udp_sent, wal_events, pipeline, readers, gelf>>

CaptureCount ==
  /\ capture.pc = "count"
  /\ wal_events' = wal_events + 1
  /\ capture' = [capture EXCEPT !.pc = "send"]
  /\ UNCHANGED <<channel, sent, udp_sent, wal_lsn, pipeline, readers, gelf>>

CaptureSend ==
  /\ capture.pc = "send"
  /\ Send("wal")
  /\ sent' = sent + 1
  /\ capture' = [pc |-> "line", line |-> capture.line + 1]
  /\ UNCHANGED <<udp_sent, wal_events, wal_lsn, pipeline, readers, gelf>>

(***************************************************************************)
(* The processor, first branch of its select!.                             *)
(***************************************************************************)

Recv ==
  /\ processor.pc = "select" /\ channel # << >>
  /\ processor' = [pc |-> "apply", event |-> Head(channel)]
  /\ channel' = Tail(channel)
  /\ udp_events' = IF Head(channel).source = "wal" THEN udp_events ELSE udp_events + 1
  /\ UNCHANGED <<senders, chain, health, readers, gelf>>

\* chain.apply() sets the event's hash; HealthState::update().
Apply ==
  /\ processor.pc = "apply"
  /\ chain' = Append(chain, processor.event.id)
  /\ health' = [events_processed |-> health.events_processed + 1,
                chain_length     |-> Len(chain'),
                last_event_time  |-> processor.event.id]
  /\ processor' = [pc |-> "gelf", event |-> [processor.event EXCEPT !.hash = chain']]
  /\ UNCHANGED <<channel, senders, udp_events, readers, gelf>>

\* Faulty: a copy of the event as it came.
CopyRaw(e) == Append(gelf, to_gelf([e EXCEPT !.hash = Null]))

Copy(e) == Append(gelf, to_gelf(e))

\* gelf.send: whether send_to() succeeds or not, the forwarder goes on; an error
\* is only logged.
GelfSend ==
  /\ processor.pc = "gelf"
  /\ gelf' = Copy(processor.event)
  /\ processor' = [pc |-> "select", event |-> Null]
  /\ UNCHANGED <<channel, senders, chain, health, udp_events, readers>>

(***************************************************************************)
(* health_handler: its four reads, by each of the handlers.                *)
(***************************************************************************)

\* Faulty: the values of the last response are used again.
SnapshotCached == IF response = Null THEN health ELSE response.health

\* The values that the lock protects, read together.
Snapshot == health

ReadHealth(h) ==
  /\ handler[h].pc = "idle"
  /\ handler' = [handler EXCEPT ![h] = [pc |-> "lsn", health |-> Snapshot]]
  /\ floor' = [floor EXCEPT ![h] = answered]
  /\ UNCHANGED <<channel, senders, pipeline, response, answered, heartbeat, heartbeats, gelf>>

ReadLsn(h) ==
  /\ handler[h].pc = "lsn"
  /\ handler' = [handler EXCEPT ![h] =
                   [pc |-> "wal", health |-> handler[h].health, wal_lsn |-> wal_lsn]]
  /\ UNCHANGED <<channel, senders, pipeline, response, answered, floor,
                 heartbeat, heartbeats, gelf>>

ReadWalEvents(h) ==
  /\ handler[h].pc = "wal"
  /\ handler' = [handler EXCEPT ![h] =
                   [pc |-> "udp", health |-> handler[h].health,
                    wal_lsn |-> handler[h].wal_lsn, wal_events |-> wal_events]]
  /\ UNCHANGED <<channel, senders, pipeline, response, answered, floor,
                 heartbeat, heartbeats, gelf>>

\* Faulty: the processor's counters are read after the others.
ReportedLast(h) == health

\* The values read under the lock, at the beginning.
Reported(h) == handler[h].health

Larger(a, b) == IF a < b THEN b ELSE a

\* The last counter, and the response.
Respond(h) ==
  /\ handler[h].pc = "udp"
  /\ response' = [health |-> Reported(h), wal_lsn |-> handler[h].wal_lsn,
                  wal_events |-> handler[h].wal_events, udp_events |-> udp_events]
  /\ handler' = [handler EXCEPT ![h] = [pc |-> "idle"]]
  /\ answered' = [processed |-> Larger(answered.processed, response'.health.events_processed),
                  wal       |-> Larger(answered.wal, response'.wal_events),
                  udp       |-> Larger(answered.udp, response'.udp_events)]
  /\ floor' = [floor EXCEPT ![h] = NoCount]
  /\ UNCHANGED <<channel, senders, pipeline, heartbeat, heartbeats, gelf>>

(***************************************************************************)
(* heartbeat_loop: read under the lock, then send on the same socket.      *)
(***************************************************************************)

HeartbeatRead ==
  /\ heartbeat = Null /\ heartbeats < MaxHeartbeats
  /\ heartbeat' = health.events_processed
  /\ heartbeats' = heartbeats + 1
  /\ UNCHANGED <<channel, senders, pipeline, endpoint, gelf>>

HeartbeatSend ==
  /\ heartbeat # Null
  /\ gelf' = Append(gelf, [heartbeat |-> heartbeat])
  /\ heartbeat' = Null
  /\ UNCHANGED <<channel, senders, pipeline, endpoint, heartbeats>>

Next ==
  \/ UdpSend \/ CaptureLine \/ CaptureCount \/ CaptureSend
  \/ Recv \/ Apply \/ GelfSend
  \/ \E h \in Handlers : ReadHealth(h) \/ ReadLsn(h) \/ ReadWalEvents(h) \/ Respond(h)
  \/ HeartbeatRead \/ HeartbeatSend

Spec == Init /\ [][Next]_vars

-----------------------------------------------------------------------------
(***************************************************************************)
(* Correctness properties.                                                 *)
(***************************************************************************)

\* The shape of the state; the channel's limit.
TypeOK ==
  /\ Len(channel) <= ChannelCap
  /\ capture.pc \in {"line", "count", "send"} /\ capture.line \in 1..Len(WalLines) + 1
  /\ processor.pc \in {"select", "apply", "gelf"}
  /\ \A h \in Handlers : handler[h].pc \in {"idle", "lsn", "wal", "udp"}
  /\ \A n \in {sent, udp_sent, udp_events, wal_events, wal_lsn, heartbeats} : n \in Nat

\* Number of row changes among the lines before line k.
RowsBefore(k) == Cardinality({n \in 1..k - 1 : IsRow(n)})

\* n counts all row changes that were decoded before a line with that LSN.
CoversLsn(lsn, n) ==
  lsn # 0 => \E k \in 1..Len(WalLines) : WalLines[k].lsn = lsn /\ RowsBefore(k) <= n

\* A response mixes four moments, but always so that it makes sense: the
\* processor has not processed more events than were counted at the two
\* entrances, the time is that of the newest event of the chain, and the row
\* changes decoded before the line with the reported LSN are counted. (Row
\* changes with smaller LSNs need not be: they may be decoded later.)
ResponseConsistent ==
  response # Null =>
    LET s == response.health IN
    /\ s.events_processed <= response.wal_events + response.udp_events
    /\ s.chain_length = s.events_processed
    /\ s.last_event_time = IF s.chain_length = 0 THEN Null ELSE chain[s.chain_length]
    /\ CoversLsn(response.wal_lsn, response.wal_events)

\* The counters of response r reach those of f.
Reaches(r, f) ==
  /\ f.processed <= r.health.events_processed
  /\ f.wal <= r.wal_events
  /\ f.udp <= r.udp_events

\* A client that sees the answer to one request and then sends another never
\* sees a counter go back: a response's counters reach those of every response
\* that was given before its handler began, whatever other handlers do in
\* between. Of two that overlap, the later answer may be the older one; and
\* nothing is said of wal_lsn, which does go back.
ResponsesMonotone ==
  [][\A h \in Handlers :
       handler[h].pc = "udp" /\ handler'[h].pc # "udp" => Reaches(response', floor[h])]_vars

IsCopy(m) == "event" \in DOMAIN m

\* Number of copies among the first n messages.
CopiesIn(messages, n) == Cardinality({m \in 1..n : IsCopy(messages[m])})

\* The copies handed to GELF are those of the chain's events, in its order, none
\* missing and none twice, but for the one whose turn it is; each carries its
\* event's hash, and no heartbeat takes a place in the chain.
CopiesFollowChain ==
  /\ CopiesIn(gelf, Len(gelf)) + (IF processor.pc = "gelf" THEN 1 ELSE 0) = Len(chain)
  /\ \A m \in 1..Len(gelf) : IsCopy(gelf[m]) =>
       /\ gelf[m].event = chain[CopiesIn(gelf, m)]
       /\ gelf[m].event_hash = SubSeq(chain, 1, CopiesIn(gelf, m))

\* A heartbeat's events_processed can be checked against the stream it comes
\* in: all but at most one of the events it counts were handed over before it.
HeartbeatAgrees ==
  \A m \in 1..Len(gelf) :
    ~IsCopy(gelf[m]) => gelf[m].heartbeat <= CopiesIn(gelf, m) + 1

\* The GELF stream can be checked against the chain: its copies are the chain's
\* events with their hashes, and a heartbeat counts what went before it.
StreamFollowsChain == CopiesFollowChain /\ HeartbeatAgrees

-----------------------------------------------------------------------------
(***************************************************************************)
(* The strengthening that makes them inductive.                            *)
(***************************************************************************)

Events == [id : Nat, source : {"udp", "wal"}, hash : Seq(Nat) \union {Null}]
Messages == [event : Nat, event_hash : Seq(Nat)] \union [heartbeat : Nat]

Shapes ==
  /\ channel \in Seq(Events) /\ Len(channel) <= ChannelCap
  /\ sent \in Nat /\ udp_sent \in Nat /\ udp_events \in Nat /\ wal_events \in Nat
  /\ wal_lsn \in Nat /\ heartbeats \in Nat
  /\ capture \in [pc : {"line", "count", "send"}, line : 1..Len(WalLines) + 1]
  /\ capture.pc # "line" =>
       capture.line <= Len(WalLines) /\ IsRow(capture.line)
  /\ processor.pc \in {"select", "apply", "gelf"}
  /\ processor.pc # "select" => processor.event \in Events
  /\ chain \in Seq(Nat)
  /\ handler = [h \in Handlers |-> handler[h]] /\ floor = [h \in Handlers |-> floor[h]]
  /\ \A h \in Handlers : handler[h].pc \in {"idle", "lsn", "wal", "udp"}
  /\ gelf \in Seq(Messages)

\* h is what HealthState held when the chain was a beginning of what it is now.
AsOf(h, events) ==
  /\ h.events_processed \in 0..Len(events)
  /\ h.chain_length = h.events_processed
  /\ h.last_event_time = IF h.chain_length = 0 THEN Null ELSE events[h.chain_length]

\* Number of events taken from the channel.
Received == Len(chain) + (IF processor.pc = "apply" THEN 1 ELSE 0)

\* The capture's among the events that wait after the first n.
WalWaiting(events, n) ==
  {k \in n + 1..n + Len(events) : events[k - n].source = "wal"}

\* An event that was taken from the channel is counted at one of the entrances.
Counted ==
  /\ AsOf(health, chain) /\ health.events_processed = Len(chain)
  /\ Received + Len(channel) = sent
  /\ wal_events + udp_sent = sent + (IF capture.pc = "send" THEN 1 ELSE 0)
  /\ Received + Cardinality(WalWaiting(channel, Received)) + udp_sent = sent + udp_events
  /\ RowsBefore(capture.line) + (IF capture.pc = "send" THEN 1 ELSE 0) <= wal_events

\* The LSN is that of a line the capture has come to.
LsnInv == wal_lsn # 0 =>
  \E k \in 1..Len(WalLines) : k <= capture.line /\ WalLines[k].lsn = wal_lsn

\* Counters f are not ahead of those being kept: of the chain c, of wal_events
\* w and of udp_events u.
Kept(f, c, w, u) == f.processed \in 0..Len(c) /\ f.wal \in 0..w /\ f.udp \in 0..u

\* What a handler r has read belongs together, is not from the future, and not
\* from before the responses f that were given when it began.
HandlerOK(r, f, c, w, u) ==
  /\ Kept(f, c, w, u)
  /\ r.pc # "idle" => AsOf(r.health, c) /\ f.processed <= r.health.events_processed
  /\ r.pc \in {"wal", "udp"} => CoversLsn(r.wal_lsn, w)
  /\ r.pc = "udp" =>
       /\ r.wal_events \in 0..w /\ f.wal <= r.wal_events
       /\ r.health.events_processed <= r.wal_events + u
       /\ CoversLsn(r.wal_lsn, r.wal_events)

HandlerInv ==
  /\ Kept(answered, chain, wal_events, udp_events)
  /\ \A h \in Handlers : HandlerOK(handler[h], floor[h], chain, wal_events, udp_events)

ResponseInv ==
  response # Null =>
    /\ AsOf(response.health, chain)
    /\ response.health.events_processed <= response.wal_events + response.udp_events
    /\ CoversLsn(response.wal_lsn, response.wal_events)

\* The event to be copied is the chain's newest; the heartbeat to be sent has
\* not been overtaken.
StreamInv ==
  /\ StreamFollowsChain
  /\ processor.pc = "gelf" =>
       /\ chain # << >>
       /\ processor.event.id = chain[Len(chain)]
       /\ processor.event.hash = chain
  /\ heartbeat # Null =>
       heartbeat \in Nat /\ heartbeat <= CopiesIn(gelf, Len(gelf)) + 1

Inv == Shapes /\ Counted /\ LsnInv /\ HandlerInv /\ ResponseInv /\ StreamInv
=============================================================================
