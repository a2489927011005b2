---------------------------- MODULE IngestProofs ----------------------------
(***************************************************************************)
(* Proofs about the way of an event from the PostgreSQL hooks to the       *)
(* processor's channel, for any set of backends, every size of the kernel's *)
(* buffer and of the channel, and any number of restarts.                  *)
(***************************************************************************)
EXTENDS Ingest, SequenceTheorems, TLAPS

-----------------------------------------------------------------------------
(***************************************************************************)
(* The hooks have one effect in common.                                    *)
(***************************************************************************)

\* What a hook does to the state: nothing, or a send that succeeds or fails.
LEMMA HookEffect ==
  ASSUME NEW b \in Backends,
         ClientAuthHook(b) \/ ProcessUtilityHook(b) \/ ExecutorEndHook(b)
  PROVE  /\ UNCHANGED <<gucVars, bound, listenerVars, stops>>
         /\ \/ UNCHANGED <<emitVars, socket>>
            \/ /\ emits' = [emits EXCEPT ![b] = @ + 1]
               /\ \/ \E json \in {"ok", "garbled"} : SendOk(b, json)
                  \/ \E error \in SendErrors : SendFails(b, error)
  BY DEF ClientAuthHook, ProcessUtilityHook, ExecutorEndHook, vibe_emit_auth_event,
         vibe_emit_utility_event_with_status, vibe_emit_executor_event, EmitIfFits,
         vibe_emit_event

\* The next event of a backend is an event.
LEMMA NextEvent ==
  ASSUME emits \in [Backends -> Nat], NEW b \in Backends
  PROVE  <<b, emits[b] + 1>> \in Events
  <1>1. emits[b] + 1 \in Nat \ {0}
    OBVIOUS
  <1> QED
    BY <1>1 DEF Events

-----------------------------------------------------------------------------
(***************************************************************************)
(* Type correctness and the limits of the buffers.                         *)
(***************************************************************************)

\* Every step keeps TypeOK.
LEMMA TypeOKStep == TypeOK /\ [Next]_vars => TypeOK'
  <1> SUFFICES ASSUME TypeOK, [Next]_vars PROVE TypeOK'
    OBVIOUS
  <1> USE SizesAssumption
  <1>1. ASSUME NEW b \in Backends,
               ClientAuthHook(b) \/ ProcessUtilityHook(b) \/ ExecutorEndHook(b)
        PROVE  TypeOK'
    <2>1. UNCHANGED <<gucVars, bound, listenerVars, stops>>
      BY <1>1, HookEffect
    <2>2. <<b, emits[b] + 1>> \in Events
      BY NextEvent DEF TypeOK
    <2>3. CASE UNCHANGED <<emitVars, socket>>
      BY <2>1, <2>3 DEF TypeOK, gucVars, emitVars, listenerVars
    <2>4. ASSUME emits' = [emits EXCEPT ![b] = @ + 1],
                 NEW json \in {"ok", "garbled"}, SendOk(b, json)
          PROVE  TypeOK'
      <3>1. [event |-> <<b, emits[b] + 1>>, json |-> json] \in Datagrams
        BY <2>2 DEF Datagrams
      <3>2. socket' \in Seq(Datagrams) /\ Len(socket') <= SocketBuf
        <4>1. CASE bound /\ Len(socket) < SocketBuf
          BY <2>4, <3>1, <4>1, AppendProperties DEF SendOk, TypeOK
        <4>2. CASE ~(bound /\ Len(socket) < SocketBuf)
          BY <2>4, <4>2 DEF SendOk, TypeOK
        <4> QED
          BY <4>1, <4>2
      <3>3. emits' \in [Backends -> Nat] /\ vibe_udp_consecutive_failures' \in [Backends -> Nat]
        BY <2>4 DEF SendOk, TypeOK
      <3> QED
        BY <2>1, <2>4, <3>2, <3>3 DEF SendOk, TypeOK, gucVars, listenerVars
    <2>5. ASSUME emits' = [emits EXCEPT ![b] = @ + 1],
                 NEW error \in SendErrors, SendFails(b, error)
          PROVE  TypeOK'
      <3>1. emits' \in [Backends -> Nat] /\ vibe_udp_consecutive_failures' \in [Backends -> Nat]
        BY <2>5 DEF SendFails, TypeOK
      <3>2. log' \subseteq Events /\ busy' \subseteq Events
        BY <2>2, <2>5 DEF SendFails, TypeOK
      <3> QED
        BY <2>1, <2>5, <3>1, <3>2 DEF SendFails, TypeOK, gucVars, listenerVars
    <2> QED
      BY <1>1, <2>3, <2>4, <2>5, HookEffect
  <1>2. ASSUME NEW on \in BOOLEAN, NEW mode \in {"counter", "emit"}, Reload(on, mode)
        PROVE  TypeOK'
    BY <1>2 DEF Reload, TypeOK, emitVars, listenerVars
  <1>3. CASE RecvFrom
    <2>1. /\ Head(socket) \in Datagrams /\ Tail(socket) \in Seq(Datagrams)
          /\ Len(Tail(socket)) <= SocketBuf
      BY <1>3, HeadTailProperties DEF RecvFrom, TypeOK
    <2>2. Head(socket).event \in Events
      BY <2>1 DEF Datagrams
    <2>3. held' \in Seq(Events) /\ Len(held') <= 1
      BY <1>3, <2>2 DEF RecvFrom
    <2> QED
      BY <1>3, <2>1, <2>3 DEF RecvFrom, TypeOK, gucVars, emitVars
  <1>4. CASE ChannelSend
    <2>1. /\ channel \in Seq(Events) /\ held \in Seq(Events) /\ received \in Seq(Events)
          /\ Len(held) <= 1 /\ Len(held) \in Nat /\ Len(channel) \in Nat
          /\ Len(channel) < ChannelCap
      BY <1>4, LenProperties DEF TypeOK, ChannelSend, HasRoom
    <2>2. /\ channel \o held \in Seq(Events) /\ received \o held \in Seq(Events)
          /\ Len(channel \o held) = Len(channel) + Len(held)
      BY <2>1, ConcatProperties
    <2>3. /\ channel' \in Seq(Events) /\ Len(channel') <= ChannelCap
          /\ received' \in Seq(Events)
      BY <1>4, <2>1, <2>2 DEF ChannelSend
    <2>4. held' \in Seq(Events) /\ Len(held') <= 1
      BY <1>4 DEF ChannelSend, AfterSend
    <2> QED
      BY <1>4, <2>3, <2>4 DEF ChannelSend, TypeOK, gucVars, emitVars
  <1>5. CASE ProcessorRecv
    <2>1. channel' \in Seq(Events) /\ Len(channel') <= ChannelCap
      BY <1>5, HeadTailProperties DEF ProcessorRecv, TypeOK
    <2> QED
      BY <1>5, <2>1 DEF ProcessorRecv, TypeOK, gucVars, emitVars
  <1>6. CASE ForwarderStops
    <2>1. /\ socket' \in Seq(Datagrams) /\ Len(socket') <= SocketBuf
          /\ held' \in Seq(Events) /\ Len(held') <= 1
          /\ channel' \in Seq(Events) /\ Len(channel') <= ChannelCap
      BY <1>6 DEF ForwarderStops
    <2>2. stops \in Nat /\ stops' = stops + 1
      BY <1>6 DEF ForwarderStops, TypeOK
    <2>3. bound' \in BOOLEAN /\ UNCHANGED <<gucVars, emitVars, received>>
      BY <1>6 DEF ForwarderStops
    <2>4. stops' \in Nat
      BY <2>2
    <2> QED
      BY <2>1, <2>3, <2>4 DEF TypeOK, gucVars, emitVars
  <1>7. CASE ForwarderStarts
    BY <1>7 DEF ForwarderStarts, TypeOK, gucVars, emitVars, listenerVars
  <1>8. CASE UNCHANGED vars
    BY <1>8 DEF vars, TypeOK, gucVars, emitVars, listenerVars
  <1> QED
    BY <1>1, <1>2, <1>3, <1>4, <1>5, <1>6, <1>7, <1>8 DEF Next

\* The state always has its type; the kernel's buffer, the listener and the
\* channel never hold more than they can.
THEOREM TypeCorrect == Spec => []TypeOK
  <1>1. Init => TypeOK
    BY SizesAssumption DEF Init, TypeOK
  <1> QED
    BY <1>1, TypeOKStep, PTL DEF Spec

-----------------------------------------------------------------------------
(***************************************************************************)
(* The fallback to the server log.                                         *)
(***************************************************************************)

\* Every step keeps the current run of failures logged from the Threshold-th on.
LEMMA FallbackStep ==
  TypeOK /\ FallbackLogsEvents /\ LoggedAreEmitted /\ [Next]_vars
    => FallbackLogsEvents' /\ LoggedAreEmitted'
  <1> SUFFICES ASSUME TypeOK, FallbackLogsEvents, LoggedAreEmitted, [Next]_vars
               PROVE  FallbackLogsEvents' /\ LoggedAreEmitted'
    OBVIOUS
  <1>1. CASE UNCHANGED emitVars
    BY <1>1 DEF emitVars, FallbackLogsEvents, LoggedAreEmitted
  <1>2. ASSUME NEW b \in Backends, emits' = [emits EXCEPT ![b] = @ + 1],
               \/ \E json \in {"ok", "garbled"} : SendOk(b, json)
               \/ \E error \in SendErrors : SendFails(b, error)
        PROVE  FallbackLogsEvents' /\ LoggedAreEmitted'
    <2> DEFINE fails == vibe_udp_consecutive_failures
    <2>1. /\ emits \in [Backends -> Nat] /\ fails \in [Backends -> Nat]
          /\ Threshold \in Nat /\ Threshold >= 1
      BY SizesAssumption DEF TypeOK
    <2>2. /\ fails' \in [Backends -> Nat]
          /\ \A c \in Backends : c # b => fails'[c] = fails[c]
          /\ log \subseteq log' /\ busy \subseteq busy'
          /\ \/ fails'[b] = 0
             \/ /\ fails'[b] = fails[b] + 1
                /\ fails[b] + 1 >= Threshold => <<b, emits[b] + 1>> \in log' \union busy'
      <3>1. CASE \E json \in {"ok", "garbled"} : SendOk(b, json)
        BY <2>1, <3>1 DEF SendOk
      <3>2. ASSUME NEW error \in SendErrors, SendFails(b, error)
            PROVE  /\ fails' = [fails EXCEPT ![b] = fails[b] + 1]
                   /\ log \subseteq log' /\ busy \subseteq busy'
                   /\ fails[b] + 1 >= Threshold => <<b, emits[b] + 1>> \in log' \union busy'
        BY <3>2 DEF SendFails, Fallback
      <3> QED
        BY <1>2, <2>1, <3>1, <3>2
    <2>3. /\ \A c \in Backends : c # b => emits'[c] = emits[c]
          /\ emits'[b] = emits[b] + 1
      BY <1>2, <2>1
    <2>0. /\ log' \subseteq log \union {<<b, emits[b] + 1>>}
          /\ busy' \subseteq busy \union {<<b, emits[b] + 1>>}
          /\ log' = log \/ busy' = busy
      BY <1>2 DEF SendOk, SendFails
    <2>8. <<b, emits[b] + 1>> \notin log /\ <<b, emits[b] + 1>> \notin busy
      <3>1. emits[b] + 1 \in Nat /\ ~(emits[b] + 1 <= emits[b])
        BY <2>1
      <3> QED
        BY <3>1 DEF LoggedAreEmitted
    <2>9. log' \intersect busy' = {}
      BY <2>0, <2>8 DEF FallbackLogsEvents
    <2>10. LoggedAreEmitted'
      <3> SUFFICES ASSUME NEW c \in Backends, NEW n \in Nat, <<c, n>> \in log' \union busy'
                   PROVE  n <= emits'[c]
        BY DEF LoggedAreEmitted
      <3>1. <<c, n>> \in log \union busy \/ <<c, n>> = <<b, emits[b] + 1>>
        BY <2>0
      <3>2. CASE <<c, n>> \in log \union busy
        <4>1. n <= emits[c]
          BY <3>2 DEF LoggedAreEmitted
        <4>2. emits[c] \in Nat /\ (emits'[c] = emits[c] \/ emits'[c] = emits[c] + 1)
          BY <2>1, <2>3
        <4> QED
          BY <4>1, <4>2
      <3>3. CASE <<c, n>> = <<b, emits[b] + 1>>
        <4>1. c = b /\ n = emits[b] + 1
          BY <3>3
        <4> QED
          BY <2>1, <2>3, <4>1
      <3> QED
        BY <3>1, <3>2, <3>3
    <2> SUFFICES ASSUME NEW c \in Backends, NEW n \in 1..emits'[c],
                        n >= emits'[c] - fails'[c] + Threshold
                 PROVE  <<c, n>> \in log' \union busy'
      BY <2>9, <2>10 DEF FallbackLogsEvents
    <2>4. ASSUME n \in 1..emits[c], n >= emits[c] - fails[c] + Threshold
          PROVE  <<c, n>> \in log' \union busy'
      BY <2>2, <2>4 DEF FallbackLogsEvents
    <2>5. CASE c # b
      BY <2>2, <2>3, <2>4, <2>5
    <2>6. CASE c = b /\ fails'[b] = 0
      <3>1. n <= emits[b] + 1 /\ n >= emits[b] + 1 - 0 + Threshold
        BY <2>1, <2>3, <2>6
      <3> QED
        BY <2>1, <3>1
    <2>7. CASE c = b /\ fails'[b] # 0
      <3>1. fails'[b] = fails[b] + 1
        BY <2>2, <2>7
      <3>2. n \in Nat /\ n >= emits[b] - fails[b] + Threshold
        BY <2>1, <2>3, <2>7, <3>1
      <3>3. CASE n <= emits[b]
        <4>1. n \in 1..emits[c]
          BY <2>1, <2>7, <3>3
        <4> QED
          BY <2>4, <2>7, <3>2, <4>1
      <3>4. CASE n = emits[b] + 1
        <4>1. fails[b] + 1 >= Threshold
          BY <2>1, <3>2, <3>4
        <4> QED
          BY <2>2, <2>7, <3>1, <3>4, <4>1
      <3> QED
        BY <2>1, <2>3, <2>7, <3>3, <3>4
    <2> QED
      BY <2>5, <2>6, <2>7
  <1> QED
    BY <1>1, <1>2, HookEffect
       DEF Next, vars, emitVars, Reload, RecvFrom, ChannelSend, ProcessorRecv,
           ForwarderStops, ForwarderStarts

\* Of a backend's current run of failed sends, every event from the Threshold-th on
\* is in the server log unless EAGAIN refused it, and such an event never is.
THEOREM FallbackIsLogged == Spec => []FallbackLogsEvents
  <1>1. Init => FallbackLogsEvents /\ LoggedAreEmitted
    BY SizesAssumption DEF Init, FallbackLogsEvents, LoggedAreEmitted
  <1> QED
    BY <1>1, TypeCorrect, FallbackStep, PTL DEF Spec

-----------------------------------------------------------------------------
(***************************************************************************)
(* The order of a backend's events: facts about Ordered, AllBefore and     *)
(* Emitted, which the steps of the listener need.                          *)
(***************************************************************************)

\* An event that comes after all others may be appended.
LEMMA AppendLast ==
  ASSUME NEW s \in Seq(Events), NEW e \in Events, \A i \in 1..Len(s) : Before(s[i], e)
  PROVE  /\ Ordered(s) => Ordered(Append(s, e))
         /\ \A r \in Seq(Events) :
              AllBefore(r, s) /\ (\A i \in 1..Len(r) : Before(r[i], e))
                => AllBefore(r, Append(s, e))
  <1>1. /\ Append(s, e) \in Seq(Events) /\ Len(Append(s, e)) = Len(s) + 1 /\ Len(s) \in Nat
        /\ \A i \in 1..Len(s) : Append(s, e)[i] = s[i]
        /\ Append(s, e)[Len(s) + 1] = e
    BY AppendProperties, LenProperties
  <1> DEFINE t == Append(s, e)
  <1> HIDE DEF t
  <1>2. /\ Len(t) = Len(s) + 1 /\ Len(s) \in Nat
        /\ \A i \in 1..Len(s) : t[i] = s[i]
        /\ t[Len(s) + 1] = e
    BY <1>1 DEF t
  <1>3. Ordered(s) => Ordered(t)
    BY <1>2 DEF Ordered
  <1>4. ASSUME NEW r \in Seq(Events), AllBefore(r, s), \A i \in 1..Len(r) : Before(r[i], e)
        PROVE  AllBefore(r, t)
    BY <1>2, <1>4 DEF AllBefore
  <1> QED
    BY <1>3, <1>4 DEF t

\* Taking the first event away keeps the order; it comes before the rest.
LEMMA TakeFirst ==
  ASSUME NEW s \in Seq(Events), s # << >>
  PROVE  /\ Ordered(s) => Ordered(Tail(s)) /\ AllBefore(<<Head(s)>>, Tail(s))
         /\ \A r \in Seq(Events) :
              AllBefore(r, s) => AllBefore(r, Tail(s)) /\ AllBefore(r, <<Head(s)>>)
         /\ \A counter :
              Emitted(s, counter) =>
                Emitted(Tail(s), counter) /\ Emitted(<<Head(s)>>, counter)
  <1> DEFINE t == Tail(s)
             h == <<Head(s)>>
  <1>1. /\ Len(s) \in Nat \ {0} /\ Len(t) = Len(s) - 1
        /\ \A i \in 1..Len(t) : t[i] = s[i + 1]
        /\ Len(h) = 1 /\ h[1] = s[1]
    BY HeadTailProperties, LenProperties, EmptySeq
  <1> HIDE DEF t, h
  <1>2. \A i \in 1..Len(t) : i + 1 \in 1..Len(s) /\ 1 < i + 1 /\ 1 \in 1..Len(s)
    BY <1>1
  <1>3. Ordered(s) => Ordered(t) /\ AllBefore(h, t)
    <2>1. ASSUME Ordered(s) PROVE Ordered(t)
      <3>1. \A i, j \in 1..Len(t) : i < j => i + 1 < j + 1
        BY <1>1
      <3> QED
        BY <1>1, <1>2, <2>1, <3>1 DEF Ordered
    <2>2. ASSUME Ordered(s) PROVE AllBefore(h, t)
      BY <1>1, <1>2, <2>2 DEF Ordered, AllBefore
    <2> QED
      BY <2>1, <2>2
  <1>4. ASSUME NEW r \in Seq(Events), AllBefore(r, s)
        PROVE  AllBefore(r, t) /\ AllBefore(r, h)
    BY <1>1, <1>2, <1>4 DEF AllBefore
  <1>5. ASSUME NEW counter, Emitted(s, counter)
        PROVE  Emitted(t, counter) /\ Emitted(h, counter)
    BY <1>1, <1>2, <1>5 DEF Emitted
  <1> QED
    BY <1>3, <1>4, <1>5 DEF t, h

\* Two ordered sequences, one before the other, are an ordered whole.
LEMMA JoinOrdered ==
  ASSUME NEW s \in Seq(Events), NEW t \in Seq(Events)
  PROVE  /\ Ordered(s) /\ Ordered(t) /\ AllBefore(s, t) => Ordered(s \o t)
         /\ \A r \in Seq(Events) :
              AllBefore(s, r) /\ AllBefore(t, r) => AllBefore(s \o t, r)
         /\ \A counter :
              Emitted(s, counter) /\ Emitted(t, counter) => Emitted(s \o t, counter)
  <1> DEFINE u == s \o t
  <1>1. /\ Len(u) = Len(s) + Len(t) /\ Len(s) \in Nat /\ Len(t) \in Nat
        /\ \A i \in 1..Len(u) : u[i] = IF i <= Len(s) THEN s[i] ELSE t[i - Len(s)]
    BY ConcatProperties, LenProperties
  <1> HIDE DEF u
  <1>2. \A i \in 1..Len(u) : \/ i \in 1..Len(s) /\ u[i] = s[i]
                             \/ /\ i - Len(s) \in 1..Len(t) /\ u[i] = t[i - Len(s)]
                                /\ i > Len(s)
    BY <1>1
  <1>3. ASSUME Ordered(s), Ordered(t), AllBefore(s, t) PROVE Ordered(u)
    <2> SUFFICES ASSUME NEW i \in 1..Len(u), NEW j \in 1..Len(u), i < j
                 PROVE  Before(u[i], u[j])
      BY DEF Ordered
    <2>1. CASE i \in 1..Len(s) /\ j \in 1..Len(s)
      BY <1>1, <1>3, <2>1 DEF Ordered
    <2>2. CASE i \in 1..Len(s) /\ j > Len(s)
      BY <1>1, <1>2, <1>3, <2>2 DEF AllBefore
    <2>3. CASE i > Len(s) /\ j > Len(s)
      <3>1. i - Len(s) < j - Len(s) /\ i - Len(s) \in 1..Len(t) /\ j - Len(s) \in 1..Len(t)
        BY <1>1, <2>3
      <3> QED
        BY <1>1, <1>3, <2>3, <3>1 DEF Ordered
    <2> QED
      BY <1>1, <2>1, <2>2, <2>3
  <1>4. ASSUME NEW r \in Seq(Events), AllBefore(s, r), AllBefore(t, r)
        PROVE  AllBefore(u, r)
    BY <1>2, <1>4 DEF AllBefore
  <1>5. ASSUME NEW counter, Emitted(s, counter), Emitted(t, counter)
        PROVE  Emitted(u, counter)
    BY <1>2, <1>5 DEF Emitted
  <1> QED
    BY <1>3, <1>4, <1>5 DEF u

\* Nothing is out of order in an empty sequence, nor in the listener's hands.
LEMMA NothingOutOfOrder ==
  /\ Ordered(<< >>)
  /\ \A r, counter : /\ AllBefore(r, << >>) /\ AllBefore(<< >>, r)
                     /\ Emitted(<< >>, counter)
  /\ \A s \in Seq(Events) : Len(s) <= 1 => Ordered(s)
  BY LenProperties DEF Ordered, AllBefore, Emitted

\* The events of datagrams, one by one.
LEMMA EventsOfDatagrams ==
  ASSUME NEW s \in Seq(Datagrams)
  PROVE  /\ EventsOf(s) \in Seq(Events) /\ Len(EventsOf(s)) = Len(s)
         /\ \A d \in Datagrams : EventsOf(Append(s, d)) = Append(EventsOf(s), d.event)
         /\ s # << >> => /\ EventsOf(s) # << >>
                         /\ Head(EventsOf(s)) = Head(s).event
                         /\ EventsOf(Tail(s)) = Tail(EventsOf(s))
  <1>1. ASSUME NEW q \in Seq(Datagrams)
        PROVE  /\ EventsOf(q) \in Seq(Events) /\ Len(EventsOf(q)) = Len(q) /\ Len(q) \in Nat
               /\ \A i \in 1..Len(q) : EventsOf(q)[i] = q[i].event
    <2>1. Len(q) \in Nat /\ \A i \in 1..Len(q) : q[i] \in Datagrams
      BY LenProperties, ElementOfSeq
    <2>2. \A i \in 1..Len(q) : q[i].event \in Events
      BY <2>1 DEF Datagrams
    <2> QED
      BY <2>1, <2>2 DEF EventsOf
  <1>2. ASSUME NEW d \in Datagrams
        PROVE  EventsOf(Append(s, d)) = Append(EventsOf(s), d.event)
    <2> DEFINE a == Append(s, d)
               e == Append(EventsOf(s), d.event)
    <2>1. /\ a \in Seq(Datagrams) /\ Len(a) = Len(s) + 1 /\ a[Len(s) + 1] = d
          /\ \A i \in 1..Len(s) : a[i] = s[i]
      BY AppendProperties
    <2>2. d.event \in Events
      BY DEF Datagrams
    <2>3. /\ e \in Seq(Events) /\ Len(e) = Len(s) + 1 /\ e[Len(s) + 1] = d.event
          /\ \A i \in 1..Len(s) : e[i] = s[i].event
      BY <1>1, <2>2, AppendProperties
    <2> HIDE DEF a, e
    <2>4. /\ EventsOf(a) \in Seq(Events) /\ Len(EventsOf(a)) = Len(e)
          /\ \A i \in 1..Len(e) : EventsOf(a)[i] = e[i]
      BY <1>1, <2>1, <2>3
    <2>5. EventsOf(a) = e
      BY <2>3, <2>4, SeqEqual
    <2> QED
      BY <2>5 DEF a, e
  <1>3. ASSUME s # << >>
        PROVE  /\ EventsOf(s) # << >>
               /\ Head(EventsOf(s)) = Head(s).event
               /\ EventsOf(Tail(s)) = Tail(EventsOf(s))
    <2>1. Len(s) \in Nat \ {0}
      BY <1>3, EmptySeq, LenProperties
    <2>2. EventsOf(s) # << >>
      BY <1>1, <2>1
    <2>3. Head(EventsOf(s)) = Head(s).event
      BY <1>1, <1>3, <2>1, <2>2, HeadTailProperties
    <2>4. /\ Tail(s) \in Seq(Datagrams) /\ Len(Tail(s)) = Len(s) - 1
          /\ \A i \in 1..Len(Tail(s)) : Tail(s)[i] = s[i + 1]
      BY <1>3, HeadTailProperties
    <2>5. /\ Tail(EventsOf(s)) \in Seq(Events) /\ Len(Tail(EventsOf(s))) = Len(s) - 1
          /\ \A i \in 1..Len(Tail(EventsOf(s))) : Tail(EventsOf(s))[i] = EventsOf(s)[i + 1]
      BY <1>1, <2>2, HeadTailProperties
    <2> DEFINE a == Tail(s)
               e == Tail(EventsOf(s))
    <2> HIDE DEF a, e
    <2>6. /\ a \in Seq(Datagrams) /\ e \in Seq(Events)
          /\ Len(a) = Len(s) - 1 /\ Len(e) = Len(s) - 1
          /\ \A i \in 1..Len(a) : a[i] = s[i + 1] /\ e[i] = EventsOf(s)[i + 1]
      BY <2>4, <2>5 DEF a, e
    <2>7. \A i \in 1..Len(a) : EventsOf(a)[i] = e[i]
      <3>1. \A i \in 1..Len(a) : i + 1 \in 1..Len(s)
        BY <2>1, <2>6
      <3>2. /\ \A i \in 1..Len(s) : EventsOf(s)[i] = s[i].event
            /\ \A i \in 1..Len(a) : EventsOf(a)[i] = a[i].event
        BY <1>1, <2>6
      <3> QED
        BY <2>6, <3>1, <3>2
    <2>8. EventsOf(a) = e
      BY <1>1, <2>1, <2>6, <2>7, SeqEqual
    <2> QED
      BY <2>2, <2>3, <2>8 DEF a, e
  <1> QED
    BY <1>1, <1>2, <1>3

-----------------------------------------------------------------------------
(***************************************************************************)
(* The order of a backend's events: the steps.                             *)
(***************************************************************************)

\* An emitted event comes before the next one of its backend, also after the
\* counter has moved.
LEMMA EmittedBeforeNext ==
  ASSUME NEW counter \in [Backends -> Nat], NEW b \in Backends,
         NEW s \in Seq(Events), Emitted(s, counter)
  PROVE  /\ \A i \in 1..Len(s) : Before(s[i], <<b, counter[b] + 1>>)
         /\ Emitted(s, [counter EXCEPT ![b] = @ + 1])
  <1>1. \A i \in 1..Len(s) : s[i][1] \in Backends /\ s[i][2] \in Nat
    BY ElementOfSeq DEF Events
  <1> QED
    BY <1>1 DEF Emitted, Before

\* Every step keeps WayInOrder.
LEMMA WayInOrderStep == TypeOK /\ WayInOrder /\ [Next]_vars => WayInOrder'
  <1> SUFFICES ASSUME TypeOK, WayInOrder, [Next]_vars PROVE WayInOrder'
    OBVIOUS
  <1>1. /\ emits \in [Backends -> Nat]
        /\ received \in Seq(Events) /\ held \in Seq(Events) /\ Len(held) <= 1
        /\ socket \in Seq(Datagrams)
    BY DEF TypeOK
  <1>2. InKernel \in Seq(Events)
    BY <1>1, EventsOfDatagrams DEF InKernel
  <1>3. ASSUME NEW b \in Backends,
               ClientAuthHook(b) \/ ProcessUtilityHook(b) \/ ExecutorEndHook(b)
        PROVE  WayInOrder'
    <2> DEFINE next == <<b, emits[b] + 1>>
    <2>1. UNCHANGED <<received, held>>
      BY <1>3, HookEffect DEF listenerVars
    <2>2. CASE UNCHANGED <<emitVars, socket>>
      BY <2>1, <2>2 DEF emitVars, InKernel, WayInOrder
    <2>3. CASE /\ emits' = [emits EXCEPT ![b] = @ + 1]
               /\ \/ \E json \in {"ok", "garbled"} : SendOk(b, json)
                  \/ \E error \in SendErrors : SendFails(b, error)
      <3>1. /\ Emitted(received, emits') /\ \A i \in 1..Len(received) : Before(received[i], next)
            /\ Emitted(held, emits') /\ \A i \in 1..Len(held) : Before(held[i], next)
            /\ Emitted(InKernel, emits') /\ \A i \in 1..Len(InKernel) : Before(InKernel[i], next)
        BY <1>1, <1>2, <2>3, EmittedBeforeNext DEF WayInOrder
      <3>2. next \in Events
        BY <1>1, NextEvent
      <3>3. CASE UNCHANGED socket
        <4>1. InKernel' = InKernel
          BY <3>3 DEF InKernel
        <4> QED
          BY <2>1, <3>1, <4>1 DEF WayInOrder
      <3>4. ASSUME NEW json \in {"ok", "garbled"},
                   socket' = Append(socket, [event |-> next, json |-> json])
            PROVE  WayInOrder'
        <4>1. [event |-> next, json |-> json] \in Datagrams
          BY <3>2 DEF Datagrams
        <4>2. InKernel' = Append(InKernel, next)
          BY <1>1, <3>4, <4>1, EventsOfDatagrams DEF InKernel
        <4>3. /\ Ordered(InKernel') /\ AllBefore(received, InKernel')
              /\ AllBefore(held, InKernel')
          BY <1>1, <1>2, <3>1, <3>2, <4>2, AppendLast DEF WayInOrder
        <4>4. Emitted(InKernel', emits')
          <5>1. emits'[next[1]] = emits[b] + 1 /\ next[2] = emits[b] + 1
            BY <1>1, <2>3
          <5>2. /\ Len(InKernel) \in Nat /\ Len(InKernel') = Len(InKernel) + 1
                /\ \A i \in 1..Len(InKernel) : InKernel'[i] = InKernel[i]
                /\ InKernel'[Len(InKernel) + 1] = next
            BY <1>2, <3>2, <4>2, AppendProperties, LenProperties
          <5>3. \A i \in 1..Len(InKernel') : i \in 1..Len(InKernel) \/ i = Len(InKernel) + 1
            BY <5>2
          <5>4. next[2] <= emits'[next[1]]
            BY <1>1, <5>1
          <5> QED
            BY <3>1, <5>2, <5>3, <5>4 DEF Emitted
        <4> QED
          BY <2>1, <3>1, <4>3, <4>4 DEF WayInOrder
      <3> QED
        BY <2>3, <3>3, <3>4 DEF SendOk, SendFails
    <2> QED
      BY <1>3, <2>2, <2>3, HookEffect
  <1>4. CASE RecvFrom
    <2>1. /\ InKernel # << >> /\ Head(InKernel) = Head(socket).event
          /\ InKernel' = Tail(InKernel)
          /\ held = << >> /\ UNCHANGED <<received, emits>>
      BY <1>1, <1>4, EventsOfDatagrams DEF RecvFrom, InKernel, emitVars
    <2>2. held' = << >> \/ held' = <<Head(InKernel)>>
      BY <1>4, <2>1 DEF RecvFrom
    <2>3. /\ Ordered(InKernel') /\ AllBefore(received, InKernel') /\ Emitted(InKernel', emits)
          /\ AllBefore(<<Head(InKernel)>>, InKernel')
          /\ AllBefore(received, <<Head(InKernel)>>) /\ Emitted(<<Head(InKernel)>>, emits)
      BY <1>1, <1>2, <2>1, TakeFirst DEF WayInOrder
    <2>4. AllBefore(received, held') /\ AllBefore(held', InKernel') /\ Emitted(held', emits)
      BY <2>2, <2>3, NothingOutOfOrder
    <2> QED
      BY <2>1, <2>3, <2>4 DEF WayInOrder
  <1>5. CASE ChannelSend
    <2>1. /\ received' = received \o held /\ held' = << >> /\ InKernel' = InKernel
          /\ UNCHANGED emits
      BY <1>5 DEF ChannelSend, AfterSend, InKernel, emitVars
    <2>2. Ordered(held)
      BY <1>1, NothingOutOfOrder
    <2>3. /\ Ordered(received') /\ AllBefore(received', InKernel) /\ Emitted(received', emits)
      BY <1>1, <1>2, <2>1, <2>2, JoinOrdered DEF WayInOrder
    <2> QED
      BY <2>1, <2>3, NothingOutOfOrder DEF WayInOrder
  <1>6. CASE ForwarderStops
    <2>1. held' = << >> /\ InKernel' = << >> /\ UNCHANGED <<received, emits>>
      BY <1>6 DEF ForwarderStops, InKernel, EventsOf, emitVars
    <2> QED
      BY <2>1, NothingOutOfOrder DEF WayInOrder
  <1>7. CASE UNCHANGED <<emits, received, held, socket>>
    BY <1>7 DEF WayInOrder, InKernel
  <1> QED
    BY <1>3, <1>4, <1>5, <1>6, <1>7
       DEF Next, Reload, ProcessorRecv, ForwarderStarts, vars, emitVars, listenerVars

\* Parts in order, one before the other, make a way in order.
LEMMA WayInOrderImpliesBackendOrder == TypeOK /\ WayInOrder => BackendOrder
  <1> SUFFICES ASSUME TypeOK, WayInOrder PROVE BackendOrder
    OBVIOUS
  <1>1. received \in Seq(Events) /\ held \in Seq(Events) /\ InKernel \in Seq(Events)
    BY EventsOfDatagrams DEF TypeOK, InKernel
  <1>2. Ordered(received \o held) /\ AllBefore(received \o held, InKernel)
    BY <1>1, NothingOutOfOrder, JoinOrdered DEF TypeOK, WayInOrder
  <1>3. received \o held \in Seq(Events)
    BY <1>1, ConcatProperties
  <1>4. Ordered(OnTheWay)
    BY <1>1, <1>2, <1>3, JoinOrdered DEF WayInOrder, OnTheWay
  <1> QED
    BY <1>4 DEF Ordered, Before, BackendOrder

\* The events of one backend reach the processor in the order of their
\* emission, each at most once, whatever is lost on the way.
THEOREM ArrivesInOrder == Spec => []BackendOrder
  <1>1. Init => WayInOrder
    <2> SUFFICES ASSUME Init PROVE WayInOrder
      OBVIOUS
    <2>1. received = << >> /\ held = << >> /\ InKernel = << >>
      BY DEF Init, InKernel, EventsOf
    <2> QED
      BY <2>1, NothingOutOfOrder DEF WayInOrder
  <1> QED
    BY <1>1, TypeCorrect, WayInOrderStep, WayInOrderImpliesBackendOrder, PTL DEF Spec
=============================================================================
