-------------------------------- MODULE Ingest --------------------------------
(***************************************************************************)
(* How events of the PostgreSQL hooks reach the forwarder: the hooks of    *)
(* vibe_audit.c and vibe_hooks.c in every backend, vibe_emit_event() with  *)
(* its per-backend failure counter, the kernel's UDP socket, and           *)
(* listener::run(), which parses datagrams and sends them to the           *)
(* processor's bounded channel.                                            *)
(*                                                                         *)
(* The kernel is external: sendto() on the non-blocking, unconnected       *)
(* socket succeeds also when nobody listens and when the receiver's buffer *)
(* is full (the datagram is then gone); it may fail with EAGAIN or with    *)
(* another error.                                                          *)
(*                                                                         *)
(* An event is <<backend, number>>; its JSON text is well formed or not    *)
(* (names are not escaped, long queries are cut), and its length fits the  *)
(* buffer of VIBE_MAX_EVENT_SIZE bytes or not.                             *)
(***************************************************************************)
EXTENDS Naturals, Sequences, FiniteSets

CONSTANTS
  Backends,     \* PostgreSQL backends
  Threshold,    \* VIBE_UDP_CONSECUTIVE_FAIL_THRESHOLD, 10
  SocketBuf,    \* datagrams the kernel buffers for the listener
  ChannelCap,   \* mpsc::channel(10_000)
  SendErrors,   \* the ways in which sendto() may fail
  MaxEmits,     \* bound on the events of a backend
  MaxStops      \* bound on the number of times the forwarder stops

ASSUME SizesAssumption ==
  /\ Threshold \in Nat \ {0}
  /\ SocketBuf \in Nat \ {0}
  /\ ChannelCap \in Nat \ {0}
ASSUME ErrorsAssumption == SendErrors \subseteq {"EAGAIN", "other"}
ASSUME BoundsAssumption == MaxEmits \in Nat /\ MaxStops \in Nat

VARIABLES
  enabled,        \* vibe_audit.enabled
  executor_mode,  \* vibe_audit.executor_mode; "off" acts like "counter"
  emits,          \* number of events each backend has passed to sendto()
  vibe_udp_consecutive_failures,
  log,            \* events written to the server log by the fallback
  busy,           \* events that sendto() refused with EAGAIN (history)
  socket,         \* datagrams waiting in the kernel
  bound,          \* the forwarder is running, its socket is bound
  held,           \* the event in the listener's tx.send, << >> if none
  channel,        \* the mpsc channel
  received,       \* every event the channel has ever taken
  stops           \* number of times the forwarder has stopped

gucVars      == <<enabled, executor_mode>>
emitVars     == <<emits, vibe_udp_consecutive_failures, log, busy>>
listenerVars == <<held, channel, received>>
vars == <<gucVars, emitVars, socket, bound, listenerVars, stops>>

-----------------------------------------------------------------------------
Init ==
  /\ enabled = TRUE
  /\ executor_mode = "counter"
  /\ emits = [b \in Backends |-> 0]
  /\ vibe_udp_consecutive_failures = [b \in Backends |-> 0]
  /\ log = {}
  /\ busy = {}
  /\ socket = << >>
  /\ bound = TRUE
  /\ held = << >>
  /\ channel = << >>
  /\ received = << >>
  /\ stops = 0

\* sendto() returns the length: the failure counter is reset. The datagram is
\* delivered if somebody listens and there is room for it.
SendOk(b, json) ==
  /\ vibe_udp_consecutive_failures' = [vibe_udp_consecutive_failures EXCEPT ![b] = 0]
  /\ socket' = IF bound /\ Len(socket) < SocketBuf
               THEN Append(socket, [event |-> <<b, emits[b] + 1>>, json |-> json])
               ELSE socket
  /\ UNCHANGED <<log, busy>>

\* Faulty: the fallback begins one failure too late.
FallbackLate(failures) == failures > Threshold

Fallback(failures) == failures >= Threshold

\* sendto() fails. From the Threshold-th failure in a row on the event is written
\* to the server log; but with EAGAIN only the number of failures is.
SendFails(b, error) ==
  LET failures == vibe_udp_consecutive_failures[b] + 1 IN
  /\ vibe_udp_consecutive_failures' =
       [vibe_udp_consecutive_failures EXCEPT ![b] = failures]
  /\ log' = IF error # "EAGAIN" /\ Fallback(failures)
            THEN log \union {<<b, emits[b] + 1>>} ELSE log
  /\ busy' = IF error = "EAGAIN" THEN busy \union {<<b, emits[b] + 1>>} ELSE busy
  /\ UNCHANGED socket

\* vibe_emit_event(), in a backend that has a socket. (Without one it returns
\* at once: the second disjunct of EmitIfFits.)
vibe_emit_event(b, json) ==
  /\ emits[b] < MaxEmits
  /\ emits' = [emits EXCEPT ![b] = @ + 1]
  /\ SendOk(b, json) \/ \E error \in SendErrors : SendFails(b, error)

\* The end of every vibe_emit_*_event(): an event that does not fit the buffer
\* is not emitted.
EmitIfFits(b) ==
  /\ \/ \E json \in {"ok", "garbled"} : vibe_emit_event(b, json)
     \/ UNCHANGED <<emitVars, socket>>
  /\ UNCHANGED <<gucVars, bound, listenerVars, stops>>

\* The three kinds of event. User, database and application names are put into
\* the JSON text as they are, and a query may be cut within a character, so
\* each may be garbled; a utility statement outside vibe_node_tag_to_ddl()'s
\* list and a query without text have no event.
vibe_emit_auth_event(b) == EmitIfFits(b)
vibe_emit_utility_event_with_status(b) == EmitIfFits(b)
vibe_emit_executor_event(b) == EmitIfFits(b)

\* vibe_client_auth_hook(): every login, accepted or refused.
ClientAuthHook(b) == enabled /\ vibe_emit_auth_event(b)

\* vibe_process_utility_hook(), after the statement has succeeded or failed.
\* (The setting is read before the statement; a backend rereads its settings
\* between statements only.)
ProcessUtilityHook(b) == enabled /\ vibe_emit_utility_event_with_status(b)

\* vibe_executor_end_hook(), for a superuser's query.
ExecutorEndHook(b) ==
  /\ enabled
  /\ executor_mode = "emit"
  /\ vibe_emit_executor_event(b)

\* SIGHUP: the settings are read again, by all backends at once here. (The
\* socket address is computed once, in vibe_init_socket.)
Reload(on, mode) ==
  /\ enabled' = on
  /\ executor_mode' = mode
  /\ UNCHANGED <<emitVars, socket, bound, listenerVars, stops>>

-----------------------------------------------------------------------------
\* listener::run(): recv_from, then parse. Malformed JSON is dropped.
RecvFrom ==
  /\ bound
  /\ held = << >>
  /\ socket # << >>
  /\ socket' = Tail(socket)
  /\ held' = IF Head(socket).json = "ok" THEN <<Head(socket).event>> ELSE << >>
  /\ UNCHANGED <<gucVars, emitVars, bound, channel, received, stops>>

\* Faulty: the channel has no bound.
HasRoomAlways == TRUE

HasRoom == Len(channel) < ChannelCap

\* Faulty: the event is kept, and sent again.
AfterSendKept == held

AfterSend == << >>

\* Faulty: try_send, the event is dropped when the channel is full.
ChannelTrySend ==
  /\ held # << >>
  /\ held' = << >>
  /\ IF HasRoom
     THEN channel' = channel \o held /\ received' = received \o held
     ELSE UNCHANGED <<channel, received>>
  /\ UNCHANGED <<gucVars, emitVars, socket, bound, stops>>

\* tx.send(event).await has found a free slot.
ChannelSend ==
  /\ held # << >>
  /\ HasRoom
  /\ channel' = channel \o held
  /\ received' = received \o held
  /\ held' = AfterSend
  /\ UNCHANGED <<gucVars, emitVars, socket, bound, stops>>

\* The processor takes an event.
ProcessorRecv ==
  /\ channel # << >>
  /\ channel' = Tail(channel)
  /\ UNCHANGED <<gucVars, emitVars, socket, bound, held, received, stops>>

\* The forwarder stops: what it held, and what the kernel held for it, is gone.
ForwarderStops ==
  /\ bound
  /\ stops < MaxStops
  /\ stops' = stops + 1
  /\ bound' = FALSE
  /\ socket' = << >>
  /\ held' = << >>
  /\ channel' = << >>
  /\ UNCHANGED <<gucVars, emitVars, received>>

ForwarderStarts ==
  /\ ~bound
  /\ bound' = TRUE
  /\ UNCHANGED <<gucVars, emitVars, socket, listenerVars, stops>>

-----------------------------------------------------------------------------
Next ==
  \/ \E b \in Backends :
       ClientAuthHook(b) \/ ProcessUtilityHook(b) \/ ExecutorEndHook(b)
  \/ \E on \in BOOLEAN, mode \in {"counter", "emit"} : Reload(on, mode)
  \/ RecvFrom
  \/ ChannelSend
  \/ ProcessorRecv
  \/ ForwarderStops
  \/ ForwarderStarts

Spec == Init /\ [][Next]_vars

\* The listener and the processor run whenever they can.
FairSpec == Spec /\ WF_vars(RecvFrom) /\ WF_vars(ChannelSend) /\ WF_vars(ProcessorRecv)

-----------------------------------------------------------------------------
(***************************************************************************)
(* Correctness properties.                                                 *)
(***************************************************************************)

Events == Backends \X (Nat \ {0})
Datagrams == [event : Events, json : {"ok", "garbled"}]

\* The shape of the state, and the limits of the two buffers.
TypeOK ==
  /\ enabled \in BOOLEAN
  /\ executor_mode \in {"counter", "emit"}
  /\ emits \in [Backends -> Nat]
  /\ vibe_udp_consecutive_failures \in [Backends -> Nat]
  /\ log \subseteq Events
  /\ busy \subseteq Events
  /\ socket \in Seq(Datagrams) /\ Len(socket) <= SocketBuf
  /\ bound \in BOOLEAN
  /\ held \in Seq(Events) /\ Len(held) <= 1
  /\ channel \in Seq(Events) /\ Len(channel) <= ChannelCap
  /\ received \in Seq(Events)
  /\ stops \in Nat

\* "After 10 consecutive failures, the extension falls back to elog(LOG)", as far
\* as the code does: of a backend's current run of failed sends, every event from
\* the tenth on is in the server log if it failed with any error but EAGAIN; an
\* event that EAGAIN refused is never in it, however long the run.
FallbackLogsEvents ==
  /\ \A b \in Backends :
       \A n \in 1..emits[b] :
         n >= emits[b] - vibe_udp_consecutive_failures[b] + Threshold
           => <<b, n>> \in log \union busy
  /\ log \intersect busy = {}

\* What makes this inductive: only events already emitted are in the two sets.
LoggedAreEmitted ==
  \A b \in Backends, n \in Nat : <<b, n>> \in log \union busy => n <= emits[b]

\* The events of the datagrams in the kernel.
EventsOf(datagrams) == [i \in 1..Len(datagrams) |-> datagrams[i].event]
InKernel == EventsOf(socket)

\* Everything on its way to the processor, in the order it will arrive.
OnTheWay == received \o held \o InKernel

\* The events of one backend arrive in the order of their emission, each at
\* most once, across full buffers and restarts of the forwarder.
BackendOrder ==
  \A i, j \in 1..Len(OnTheWay) :
    i < j /\ OnTheWay[i][1] = OnTheWay[j][1] => OnTheWay[i][2] < OnTheWay[j][2]

\* Two events of one backend are in the order of their numbers.
Before(x, y) == x[1] = y[1] => x[2] < y[2]
Ordered(s) == \A i, j \in 1..Len(s) : i < j => Before(s[i], s[j])
AllBefore(s, t) == \A i \in 1..Len(s), j \in 1..Len(t) : Before(s[i], t[j])

\* No event in s is beyond its backend's counter.
Emitted(s, counter) == \A i \in 1..Len(s) : s[i][2] <= counter[s[i][1]]

\* Why BackendOrder holds: each part of the way is in order and comes before
\* the parts behind it, and no number on it is beyond its backend's counter.
WayInOrder ==
  /\ Ordered(received) /\ Ordered(InKernel)
  /\ AllBefore(received, held) /\ AllBefore(received, InKernel) /\ AllBefore(held, InKernel)
  /\ Emitted(received, emits) /\ Emitted(held, emits) /\ Emitted(InKernel, emits)

\* A well-formed datagram that the kernel holds reaches the channel, unless the
\* forwarder stops: a full channel delays the listener, it loses nothing.
DatagramReceived ==
  \A b \in Backends, n \in 1..MaxEmits :
    (\E i \in 1..Len(socket) : socket[i] = [event |-> <<b, n>>, json |-> "ok"])
      ~> (~bound \/ \E i \in 1..Len(received) : received[i] = <<b, n>>)
=============================================================================
