------------------------------- MODULE Remote -------------------------------
(***************************************************************************)
(* Events over the network: publish_remote and publish_remote_delayed or   *)
(* _scheduled on the sending side, the NATS transport, and on the receiving *)
(* side the consumer loop that subscribe_remote spawns in every instance of *)
(* a queue group. The broker is external: a JetStream stream with a durable *)
(* consumer, or core NATS, which keeps nothing. The local bus of an        *)
(* instance is reduced to what becomes of an event it is given: it refuses *)
(* it, or accepts it and later hands it to the handler or loses it (see    *)
(* EventBus for how).                                                      *)
(***************************************************************************)
EXTENDS Naturals, FiniteSets, Sequences

CONSTANTS
  Instances,      \* processes of the service, all in one queue group
  Home,           \* the one that publishes
  Events,         \* one call of a publish_remote function each
  Scheduled,      \* events published with _delayed or _scheduled
  Poison,         \* events whose bytes the receiver cannot deserialize
  DlqChannelSize, \* capacity of the DLQ channel of a bus
  MaxAckPending,  \* max_ack_pending of the consumer
  MaxFaults,      \* bound: crashes, shutdowns, ended subscriptions, dropped events, lost
                  \* messages and late acks, all together
  None

ASSUME RemoteConstants ==
  /\ Home \in Instances
  /\ Scheduled \subseteq Events /\ Poison \subseteq Events
  /\ DlqChannelSize \in Nat \ {0}
  /\ MaxAckPending \in Nat \ {0}
  /\ MaxFaults \in Nat
  /\ None \notin Events \cup {"ok", "err"}

VARIABLES
  jetstream,   \* connect_jetstream rather than connect
  call,        \* call[e]: what the call that publishes e returned
  sleeping,    \* events whose task at Home waits to publish them
  wire,        \* events on their way to the broker
  stored,      \* events in the stream
  inflight,    \* <<consumer, event>>: delivered, and ack_wait is running
  acked,       \* <<consumer, event>>: acknowledged
  redelivered, \* redelivered[e]: how often ack_wait ran out
  up,          \* instances that run
  stopping,    \* instances whose bus is shutting down
  looping,     \* instances with a consumer loop
  listening,   \* instances whose local subscription is in place
  inbox,       \* messages the client has for the loop
  busy,        \* the message of the loop
  step,        \* where the loop is with it
  acks,        \* <<instance, event>>: ack tasks that were triggered
  dlq,         \* number of messages in the DLQ channel
  pending,     \* events that the local bus accepted from the loop, and still has
  delayed,     \* scheduled events that Home gave its own bus, which still has them
  faults,
  taken,       \* history: taken[e]: how often a loop brought e to a local bus
  handled,     \* history: events from the network that a handler has seen
  dead,        \* history: events sent to a DLQ
  lapsed       \* history: <<event, why>>: events from the network that a bus lost

callVars == <<call, sleeping>>
brokerVars == <<stored, inflight, acked, redelivered>>
processVars == <<up, stopping, looping, listening>>
loopVars == <<inbox, busy, step>>
busVars == <<pending, delayed>>
history == <<taken, handled, dead, lapsed>>

vars == <<jetstream, callVars, wire, brokerVars, processVars, loopVars, acks, dlq, busVars,
          faults, history>>

\* build() connects to the broker, with or without a JetStream.
Init ==
  /\ jetstream \in BOOLEAN
  /\ call = [e \in Events |-> None]
  /\ sleeping = {} /\ wire = {}
  /\ stored = {} /\ inflight = {} /\ acked = {}
  /\ redelivered = [e \in Events |-> 0]
  /\ up = Instances /\ stopping = {} /\ looping = {} /\ listening = {}
  /\ inbox = [i \in Instances |-> <<>>]
  /\ busy = [i \in Instances |-> None]
  /\ step = [i \in Instances |-> "next"]
  /\ acks = {}
  /\ dlq = [i \in Instances |-> 0]
  /\ pending = [i \in Instances |-> {}] /\ delayed = {}
  /\ faults = 0
  /\ taken = [e \in Events |-> 0]
  /\ handled = {} /\ dead = {} /\ lapsed = {}

Fault == faults < MaxFaults /\ faults' = faults + 1

Running(i) == i \in up /\ i \notin stopping

-----------------------------------------------------------------------------
(* Publishing                                                              *)

\* NatsTransport::publish, in both modes: an error for a payload above MAX_PAYLOAD_SIZE or
\* from the client, and Ok once the client has taken the message. The future of the
\* broker's ack, which JetStream adds, is dropped.
Transport(e, ok) == wire' = IF ok THEN wire \cup {e} ELSE wire

Returned(ok) == IF ok THEN "ok" ELSE "err"

\* publish_remote: neither the local bus nor its shutdown state is involved.
PublishRemote(e) ==
  /\ e \notin Scheduled
  /\ call[e] = None
  /\ Home \in up
  /\ \E ok \in BOOLEAN : Transport(e, ok) /\ call' = [call EXCEPT ![e] = Returned(ok)]
  /\ UNCHANGED <<jetstream, sleeping, brokerVars, processVars, loopVars, acks, dlq, busVars,
                 faults, history>>

\* The local publish of publish_remote_delayed and publish_remote_scheduled.
PublishLocally(e) ==
  /\ e \in Scheduled
  /\ call[e] = None
  /\ Running(Home)
  /\ delayed' = delayed \cup {e}
  /\ UNCHANGED pending

\* A time in the future: the network publish is left to a task.
PublishLater(e) ==
  /\ PublishLocally(e)
  /\ sleeping' = sleeping \cup {e}
  /\ call' = [call EXCEPT ![e] = "ok"]
  /\ UNCHANGED <<jetstream, wire, brokerVars, processVars, loopVars, acks, dlq, faults, history>>

\* publish_remote_scheduled with a time that has passed: an error of the network is
\* returned although the event is with the local bus.
PublishPast(e) ==
  /\ PublishLocally(e)
  /\ \E ok \in BOOLEAN : Transport(e, ok) /\ call' = [call EXCEPT ![e] = Returned(ok)]
  /\ UNCHANGED <<jetstream, sleeping, brokerVars, processVars, loopVars, acks, dlq, faults,
                 history>>

\* The local bus refuses the event, and nothing is sent.
PublishRefused(e) ==
  /\ e \in Scheduled
  /\ call[e] = None
  /\ Home \in up \cap stopping
  /\ call' = [call EXCEPT ![e] = "err"]
  /\ UNCHANGED <<jetstream, sleeping, wire, brokerVars, processVars, loopVars, acks, dlq,
                 busVars, faults, history>>

\* The task wakes up; an error is only logged.
NetworkTask(e) ==
  /\ e \in sleeping
  /\ sleeping' = sleeping \ {e}
  /\ \E ok \in BOOLEAN : Transport(e, ok)
  /\ UNCHANGED <<jetstream, call, brokerVars, processVars, loopVars, acks, dlq, busVars, faults,
                 history>>

-----------------------------------------------------------------------------
(* The broker                                                              *)

\* Mutant of ConsumerName: the name does not depend on the queue group alone.
ConsumerName_PerInstance(i) == i

\* The durable consumer is named after the queue group and the topic.
ConsumerName(i) == "group_topic"

\* JetStream stores the message, once per Nats-Msg-Id; core NATS gives it to one
\* subscriber of the queue group or to none.
BrokerReceive(e) ==
  /\ e \in wire
  /\ wire' = wire \ {e}
  /\ IF jetstream
     THEN stored' = stored \cup {e} /\ UNCHANGED inbox
     ELSE /\ UNCHANGED stored
          /\ IF looping = {} THEN UNCHANGED inbox
             ELSE \E i \in looping : inbox' = [inbox EXCEPT ![i] = Append(@, e)]
  /\ UNCHANGED <<jetstream, callVars, inflight, acked, redelivered, processVars, busy, step,
                 acks, dlq, busVars, faults, history>>

\* The connection breaks with the message in it.
WireLost(e) ==
  /\ e \in wire
  /\ Fault
  /\ wire' = wire \ {e}
  /\ UNCHANGED <<jetstream, callVars, brokerVars, processVars, loopVars, acks, dlq, busVars,
                 history>>

\* The consumer pushes a message to one subscriber of its deliver_group.
Deliver(i, e) ==
  LET c == ConsumerName(i) IN
  /\ i \in looping
  /\ e \in stored
  /\ <<c, e>> \notin inflight \cup acked
  /\ Cardinality({d \in inflight : d[1] = c}) < MaxAckPending
  /\ inflight' = inflight \cup {<<c, e>>}
  /\ inbox' = [inbox EXCEPT ![i] = Append(@, e)]
  /\ UNCHANGED <<jetstream, callVars, wire, stored, acked, redelivered, processVars, busy, step,
                 acks, dlq, busVars, faults, history>>

\* Some instance still has the message and will acknowledge it.
InHand(e) ==
  \E i \in Instances :
    e = busy[i] \/ (\E k \in DOMAIN inbox[i] : inbox[i][k] = e) \/ <<i, e>> \in acks

\* ack_wait runs out, on a message that is lost or on one that only takes long. Each time
\* takes a fault of its own, so MaxFaults bounds the redeliveries too.
AckWaitOver(d) ==
  /\ d \in inflight
  /\ redelivered[d[2]] < MaxFaults
  /\ IF InHand(d[2]) THEN Fault ELSE UNCHANGED faults
  /\ inflight' = inflight \ {d}
  /\ redelivered' = [redelivered EXCEPT ![d[2]] = @ + 1]
  /\ UNCHANGED <<jetstream, callVars, wire, stored, acked, processVars, loopVars, acks, dlq,
                 busVars, history>>

-----------------------------------------------------------------------------
(* Receiving: subscribe_remote and its consumer loop                       *)

SubscribeRemote(i) ==
  /\ Running(i)
  /\ i \notin looping
  /\ looping' = looping \cup {i}
  /\ listening' = listening \cup {i}
  /\ UNCHANGED <<jetstream, callVars, wire, brokerVars, up, stopping, loopVars, acks, dlq,
                 busVars, faults, history>>

\* The local subscription ends: its handle is dropped, or its handler panics. The loop does
\* not know.
Unsubscribe(i) ==
  /\ i \in listening
  /\ Fault
  /\ listening' = listening \ {i}
  /\ UNCHANGED <<jetstream, callVars, wire, brokerVars, up, stopping, looping, loopVars, acks,
                 dlq, busVars, history>>

\* Mutant of LoopNext: the ack is triggered when the message is received.
LoopNext_AckFirst(i) ==
  /\ step[i] = "next"
  /\ inbox[i] # <<>>
  /\ busy' = [busy EXCEPT ![i] = Head(inbox[i])]
  /\ inbox' = [inbox EXCEPT ![i] = Tail(@)]
  /\ step' = [step EXCEPT ![i] = "route"]
  /\ acks' = acks \cup {<<i, Head(inbox[i])>>}
  /\ UNCHANGED <<jetstream, callVars, wire, brokerVars, processVars, dlq, busVars, faults, history>>

LoopNext(i) ==
  /\ step[i] = "next"
  /\ inbox[i] # <<>>
  /\ busy' = [busy EXCEPT ![i] = Head(inbox[i])]
  /\ inbox' = [inbox EXCEPT ![i] = Tail(@)]
  /\ step' = [step EXCEPT ![i] = "route"]
  /\ UNCHANGED <<jetstream, callVars, wire, brokerVars, processVars, acks, dlq, busVars, faults,
                 history>>

\* local_bus.publish: accepted, for the subscription if it is still there, or refused by a
\* bus that shuts down, which is only logged. (Handle says how the bus loses what it
\* accepted; with drop_on_full it does so here, and returns Ok all the same.)
LoopRoute(i) ==
  LET e == busy[i]
      lost == IF i \in stopping THEN {<<e, "refused">>}
              ELSE IF i \notin listening THEN {<<e, "unheard">>} ELSE {}
  IN
  /\ step[i] = "route"
  /\ e \notin Poison
  /\ step' = [step EXCEPT ![i] = "ack"]
  /\ taken' = [taken EXCEPT ![e] = @ + 1]
  /\ lapsed' = lapsed \cup lost
  /\ pending' = [pending EXCEPT ![i] = IF lost = {} THEN @ \cup {e} ELSE @]
  /\ UNCHANGED <<jetstream, callVars, wire, brokerVars, processVars, inbox, busy, acks, dlq,
                 delayed, faults, handled, dead>>

\* Mutant of LoopDeadLetter: the branch goes on with the next message.
LoopDeadLetter_NoAck(i) ==
  /\ step[i] = "route"
  /\ busy[i] \in Poison
  /\ dlq[i] < DlqChannelSize
  /\ dlq' = [dlq EXCEPT ![i] = @ + 1]
  /\ dead' = dead \cup {busy[i]}
  /\ busy' = [busy EXCEPT ![i] = None]
  /\ step' = [step EXCEPT ![i] = "next"]
  /\ UNCHANGED <<jetstream, callVars, wire, brokerVars, processVars, inbox, acks, busVars,
                 faults, taken, handled, lapsed>>

\* deserialize_event fails: dlq_tx.send waits for room in the DLQ channel.
LoopDeadLetter(i) ==
  /\ step[i] = "route"
  /\ busy[i] \in Poison
  /\ dlq[i] < DlqChannelSize
  /\ dlq' = [dlq EXCEPT ![i] = @ + 1]
  /\ dead' = dead \cup {busy[i]}
  /\ step' = [step EXCEPT ![i] = "ack"]
  /\ UNCHANGED <<jetstream, callVars, wire, brokerVars, processVars, inbox, busy, acks, busVars,
                 faults, taken, handled, lapsed>>

\* ack_tx.send(()), whatever became of the message; in core NATS nobody receives it.
LoopAck(i) ==
  /\ step[i] = "ack"
  /\ acks' = IF jetstream THEN acks \cup {<<i, busy[i]>>} ELSE acks
  /\ busy' = [busy EXCEPT ![i] = None]
  /\ step' = [step EXCEPT ![i] = "next"]
  /\ UNCHANGED <<jetstream, callVars, wire, brokerVars, processVars, inbox, dlq, busVars, faults,
                 history>>

\* The task that waits for ack_rx: msg.ack(), or its error is logged.
AckTask(i, e) ==
  LET d == <<ConsumerName(i), e>> IN
  /\ <<i, e>> \in acks
  /\ acks' = acks \ {<<i, e>>}
  /\ \/ /\ acked' = acked \cup {d}
        /\ inflight' = inflight \ {d}
        /\ UNCHANGED faults
     \/ Fault /\ UNCHANGED <<acked, inflight>>
  /\ UNCHANGED <<jetstream, callVars, wire, stored, redelivered, processVars, loopVars, dlq,
                 busVars, history>>

-----------------------------------------------------------------------------
(* The process around them                                                 *)

\* The local bus is done with an event it accepted. It has handed it to the handler; or the
\* subscription ended before the event got to its channel, or with the event in it; or the
\* event was dropped, by drop_on_full, the dispatch timeout or a handler that panicked.
Handle(i, e) ==
  /\ e \in pending[i]
  /\ pending' = [pending EXCEPT ![i] = @ \ {e}]
  /\ \/ handled' = handled \cup {e} /\ UNCHANGED <<lapsed, faults>>
     \/ /\ i \notin listening
        /\ lapsed' = lapsed \cup {<<e, "unheard">>} /\ UNCHANGED <<handled, faults>>
     \/ Fault /\ lapsed' = lapsed \cup {<<e, "dropped">>} /\ UNCHANGED handled
  /\ UNCHANGED <<jetstream, callVars, wire, brokerVars, processVars, loopVars, acks, dlq, delayed,
                 taken, dead>>

\* The bus of Home is done with its own copy of a scheduled event, whether or not somebody
\* has subscribed to it there: no message of the broker depends on that.
HandleDelayed(e) ==
  /\ e \in delayed
  /\ delayed' = delayed \ {e}
  /\ UNCHANGED <<jetstream, callVars, wire, brokerVars, processVars, loopVars, acks, dlq, pending,
                 faults, history>>

\* The application reads the DLQ receiver.
ReadDlq(i) ==
  /\ dlq[i] > 0
  /\ dlq' = [dlq EXCEPT ![i] = @ - 1]
  /\ UNCHANGED <<jetstream, callVars, wire, brokerVars, processVars, loopVars, acks, busVars,
                 faults, history>>

\* shutdown_gracefully of the local bus. The consumer loop goes on.
Shutdown(i) ==
  /\ Running(i)
  /\ Fault
  /\ stopping' = stopping \cup {i}
  /\ UNCHANGED <<jetstream, callVars, wire, brokerVars, up, looping, listening, loopVars, acks,
                 dlq, busVars, history>>

\* shutdown of the local bus: what it has is dropped. The consumer loop goes on.
Halt(i) ==
  /\ Running(i)
  /\ Fault
  /\ stopping' = stopping \cup {i}
  /\ pending' = [pending EXCEPT ![i] = {}]
  /\ lapsed' = lapsed \cup (pending[i] \X {"halted"})
  /\ delayed' = IF i = Home THEN {} ELSE delayed
  /\ UNCHANGED <<jetstream, callVars, wire, brokerVars, up, looping, listening, loopVars, acks,
                 dlq, taken, handled, dead>>

\* What the process has in memory goes with it, and perhaps what its client was sending.
Gone(i) ==
  /\ up' = up \ {i}
  /\ stopping' = stopping \ {i}
  /\ looping' = looping \ {i}
  /\ listening' = listening \ {i}
  /\ inbox' = [inbox EXCEPT ![i] = <<>>]
  /\ busy' = [busy EXCEPT ![i] = None]
  /\ step' = [step EXCEPT ![i] = "next"]
  /\ acks' = {a \in acks : a[1] # i}
  /\ dlq' = [dlq EXCEPT ![i] = 0]
  /\ pending' = [pending EXCEPT ![i] = {}]
  /\ lapsed' = lapsed \cup (pending[i] \X {"crashed"})
  /\ IF i = Home THEN sleeping' = {} /\ delayed' = {} /\ wire' \in SUBSET wire
                 ELSE UNCHANGED <<sleeping, delayed, wire>>
  /\ UNCHANGED <<jetstream, call, brokerVars, taken, handled, dead>>

Crash(i) == i \in up /\ Fault /\ Gone(i)

\* The process ends after the shutdown of its bus, which a graceful one has drained.
Exit(i) ==
  /\ i \in up \cap stopping
  /\ pending[i] = {} /\ (i = Home => delayed = {})
  /\ UNCHANGED faults
  /\ Gone(i)

Restart(i) ==
  /\ i \notin up
  /\ up' = up \cup {i}
  /\ UNCHANGED <<jetstream, callVars, wire, brokerVars, stopping, looping, listening, loopVars,
                 acks, dlq, busVars, faults, history>>

-----------------------------------------------------------------------------
Loop(i) == LoopNext(i) \/ LoopRoute(i) \/ LoopDeadLetter(i) \/ LoopAck(i)

Next ==
  \/ \E e \in Events : \/ PublishRemote(e) \/ PublishLater(e) \/ PublishPast(e)
                       \/ PublishRefused(e) \/ NetworkTask(e)
                       \/ BrokerReceive(e) \/ WireLost(e) \/ HandleDelayed(e)
  \/ \E d \in inflight : AckWaitOver(d)
  \/ \E i \in Instances, e \in Events : Deliver(i, e) \/ AckTask(i, e) \/ Handle(i, e)
  \/ \E i \in Instances : \/ SubscribeRemote(i) \/ Unsubscribe(i) \/ Loop(i) \/ ReadDlq(i)
                          \/ Shutdown(i) \/ Halt(i) \/ Crash(i) \/ Exit(i) \/ Restart(i)

Spec == Init /\ [][Next]_vars

\* The broker delivers and times out, tasks are polled, the application reads its DLQ, and
\* a process that has ended is started again and subscribes. Nobody has to publish.
FairSpec ==
  /\ Spec
  /\ \A i \in Instances :
       /\ WF_vars(Loop(i)) /\ WF_vars(ReadDlq(i))
       /\ WF_vars(\E e \in Events : AckTask(i, e))
       /\ WF_vars(\E e \in Events : Handle(i, e))
       /\ WF_vars(Exit(i) \/ Restart(i) \/ SubscribeRemote(i))
  /\ WF_vars(\E e \in Events : HandleDelayed(e))
  /\ WF_vars(\E i \in Instances, e \in Events : Deliver(i, e))
  /\ WF_vars(\E d \in inflight : AckWaitOver(d))

-----------------------------------------------------------------------------
(* Properties                                                              *)

\* A message leaves the stream only when its event has been handled, is with a live bus
\* or in the DLQ, or a bus has lost it: the loop acknowledges also what a bus in shutdown
\* refused and what no subscription was left for, and the bus holds what it accepted in
\* memory, where a crash, an abrupt shutdown, a full queue, a dispatch timeout or a panic
\* of the handler takes it. What has not got to a bus is not lost by an acknowledgement: a
\* crash, or a lost or late ack, at any point of the loop means another delivery.
AckedIsAccountedFor ==
  \A d \in acked :
    \/ d[2] \in handled \cup dead
    \/ \E why \in {"refused", "unheard", "crashed", "dropped", "halted"} : <<d[2], why>> \in lapsed
    \/ \E i \in up : d[2] \in pending[i]

\* The instances of a queue group share the events: one of them takes an event, and another
\* delivery of it needs an ack_wait that ran out. In core NATS there is never another.
OncePerGroup == \A e \in Events : taken[e] <= 1 + redelivered[e]

\* A stored message is acknowledged in the end, past crashes, lost acks and poison messages,
\* which do not stay in front of the others.
Settled ==
  \A e \in Events : e \in stored ~> \A i \in Instances : <<ConsumerName(i), e>> \in acked
=============================================================================
