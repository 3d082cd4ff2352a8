---------------------------- MODULE RemoteProofs ----------------------------
(***************************************************************************)
(* What the acknowledgement of a remote message vouches for, and how often *)
(* a queue group takes an event: AckedIsAccountedFor and OncePerGroup, for *)
(* any number of instances, events and faults.                             *)
(***************************************************************************)
EXTENDS Remote, SequenceLemmas, FiniteSetTheorems

-----------------------------------------------------------------------------
(* The inductive invariant                                                 *)

RemoteTypes ==
  /\ jetstream \in BOOLEAN
  /\ call \in [Events -> {None, "ok", "err"}]
  /\ sleeping \in SUBSET Events /\ wire \in SUBSET Events /\ stored \in SUBSET Events
  /\ inflight \in SUBSET ({"group_topic"} \X Events)
  /\ acked \in SUBSET ({"group_topic"} \X Events)
  /\ redelivered \in [Events -> Nat]
  /\ up \in SUBSET Instances /\ looping \in SUBSET Instances
  /\ inbox \in [Instances -> Seq(Events)]
  /\ busy \in [Instances -> Events \cup {None}]
  /\ step \in [Instances -> {"next", "route", "ack"}]
  /\ acks \in SUBSET (Instances \X Events)
  /\ pending \in [Instances -> SUBSET Events]
  /\ taken \in [Events -> Nat]

\* A process that is down holds nothing, and the loop has a message unless it waits for one.
InMemory ==
  \A i \in Instances :
    /\ i \notin up => i \notin looping /\ inbox[i] = <<>> /\ step[i] = "next" /\ pending[i] = {}
    /\ step[i] = "next" <=> busy[i] = None

\* What AckedIsAccountedFor says of one event.
AccountedFor(e) ==
  \/ e \in handled \cup dead
  \/ \E why \in {"refused", "unheard", "crashed", "dropped", "halted"} : <<e, why>> \in lapsed
  \/ \E i \in up : e \in pending[i]

\* An ack is triggered, sent and received only for an event that is accounted for.
AckInv ==
  /\ \A i \in Instances : step[i] = "ack" => AccountedFor(busy[i])
  /\ \A a \in acks : AccountedFor(a[2])
  /\ \A d \in acked : AccountedFor(d[2])

\* A publish sends its event to the broker once at most, and core NATS stores nothing.
SentOnce ==
  /\ \A e \in Events : /\ call[e] = None => e \notin sleeping \cup wire
                       /\ e \notin sleeping \cap wire
  /\ ~jetstream => stored = {}

\* The copies of e that are with a loop and not yet with its local bus.
Copies(e) ==
  {c \in Instances \X Nat :
     \/ c[2] = 0 /\ step[c[1]] = "route" /\ busy[c[1]] = e
     \/ c[2] \in DOMAIN inbox[c[1]] /\ inbox[c[1]][c[2]] = e}

\* How many copies of e the broker has handed out so far: with JetStream one for every
\* ack_wait that ran out, and one that is in flight or acknowledged; else one, once the
\* message has arrived.
HandedOut(e) ==
  IF jetstream
  THEN redelivered[e] + (IF <<"group_topic", e>> \in inflight \cup acked THEN 1 ELSE 0)
  ELSE IF call[e] = None \/ e \in sleeping \cup wire THEN 0 ELSE 1

\* No copy is made up.
CopiesInv ==
  \A e \in Events : /\ IsFiniteSet(Copies(e))
                    /\ taken[e] + Cardinality(Copies(e)) <= HandedOut(e)

-----------------------------------------------------------------------------
(* Types and memory                                                        *)

\* What the end of a process does: everything it holds in memory goes.
LEMMA ProcessEnds ==
  ASSUME RemoteTypes, NEW i \in Instances, Crash(i) \/ Exit(i)
  PROVE  /\ i \in up /\ up' = up \ {i} /\ looping' = looping \ {i}
         /\ inbox' = [inbox EXCEPT ![i] = <<>>]
         /\ busy' = [busy EXCEPT ![i] = None]
         /\ step' = [step EXCEPT ![i] = "next"]
         /\ acks' \subseteq acks
         /\ pending' = [pending EXCEPT ![i] = {}]
         /\ lapsed' = lapsed \cup (pending[i] \X {"crashed"})
         /\ sleeping' \subseteq sleeping /\ wire' \subseteq wire
         /\ UNCHANGED <<jetstream, call, stored, inflight, acked, redelivered, taken, handled, dead>>
BY DEF Crash, Exit, Gone, RemoteTypes, brokerVars

\* Every step keeps the types, and leaves nothing in the memory of a process that is down.
LEMMA StepKeepsMemory ==
  ASSUME RemoteTypes, InMemory, Next
  PROVE  RemoteTypes' /\ InMemory'
<1> USE DEF RemoteTypes, InMemory, callVars, brokerVars, processVars, loopVars, busVars, history, ConsumerName
<1>1. ASSUME NEW e \in Events,
             \/ PublishRemote(e) \/ PublishRefused(e) \/ NetworkTask(e) \/ WireLost(e)
             \/ HandleDelayed(e)
      PROVE  RemoteTypes' /\ InMemory'
  BY <1>1 DEF PublishRemote, PublishRefused, NetworkTask, WireLost, HandleDelayed, Transport, Returned
<1>2. ASSUME NEW e \in Events, PublishLater(e) \/ PublishPast(e)
      PROVE  RemoteTypes' /\ InMemory'
  <2>1. /\ sleeping' \in SUBSET Events /\ wire' \in SUBSET Events
        /\ call' \in [Events -> {None, "ok", "err"}]
        /\ UNCHANGED <<jetstream, brokerVars, processVars, loopVars, acks, pending, taken>>
    BY <1>2 DEF PublishLater, PublishPast, PublishLocally, Transport, Returned
  <2> QED
    BY <2>1
<1>3. ASSUME NEW e \in Events, BrokerReceive(e) PROVE RemoteTypes' /\ InMemory'
  <2>1. /\ wire' \in SUBSET Events /\ stored' \in SUBSET Events
        /\ UNCHANGED <<jetstream, callVars, inflight, acked, redelivered, processVars, busy, step,
                       acks, pending, taken>>
    BY <1>3 DEF BrokerReceive
  <2>2. inbox' = inbox \/ \E i \in looping : inbox' = [inbox EXCEPT ![i] = Append(inbox[i], e)]
    BY <1>3 DEF BrokerReceive
  <2>3. ASSUME NEW i \in looping, inbox' = [inbox EXCEPT ![i] = Append(inbox[i], e)]
        PROVE  RemoteTypes' /\ InMemory'
    BY <2>1, <2>3
  <2>4. CASE inbox' = inbox
    BY <2>1, <2>4
  <2> QED
    BY <2>2, <2>3, <2>4
<1>4. ASSUME NEW d \in inflight, AckWaitOver(d) PROVE RemoteTypes' /\ InMemory'
  BY <1>4 DEF AckWaitOver
<1>5. ASSUME NEW i \in Instances, NEW e \in Events, Deliver(i, e) \/ AckTask(i, e) \/ Handle(i, e)
      PROVE  RemoteTypes' /\ InMemory'
  <2>1. CASE Deliver(i, e)
    BY <2>1 DEF Deliver
  <2>2. CASE AckTask(i, e)
    <3>1. /\ acks' \in SUBSET (Instances \X Events)
          /\ acked' \in SUBSET ({"group_topic"} \X Events)
          /\ inflight' \in SUBSET ({"group_topic"} \X Events)
          /\ UNCHANGED <<jetstream, callVars, wire, stored, redelivered, processVars, loopVars,
                         pending, taken>>
      BY <2>2 DEF AckTask
    <3> QED
      BY <3>1
  <2>3. CASE Handle(i, e)
    BY <2>3 DEF Handle
  <2> QED
    BY <1>5, <2>1, <2>2, <2>3
<1>6. ASSUME NEW i \in Instances,
             SubscribeRemote(i) \/ Unsubscribe(i) \/ ReadDlq(i) \/ Shutdown(i) \/ Restart(i)
      PROVE  RemoteTypes' /\ InMemory'
  BY <1>6 DEF SubscribeRemote, Unsubscribe, ReadDlq, Shutdown, Restart, Running
<1>7. ASSUME NEW i \in Instances, Loop(i) PROVE RemoteTypes' /\ InMemory'
  <2>1. CASE LoopNext(i)
    <3>1. Head(inbox[i]) \in Events /\ Tail(inbox[i]) \in Seq(Events)
      BY <2>1, TailElements DEF LoopNext
    <3> QED
      BY <2>1, <3>1, RemoteConstants DEF LoopNext
  <2>2. CASE LoopRoute(i)
    <3>1. /\ step[i] = "route" /\ step' = [step EXCEPT ![i] = "ack"] /\ busy[i] \in Events
          /\ taken' = [taken EXCEPT ![busy[i]] = taken[busy[i]] + 1]
          /\ pending' = pending \/ pending' = [pending EXCEPT ![i] = pending[i] \cup {busy[i]}]
          /\ UNCHANGED <<jetstream, callVars, wire, brokerVars, processVars, inbox, busy, acks>>
      BY <2>2 DEF LoopRoute
    <3>2. pending' \in [Instances -> SUBSET Events]
      <4>1. pending[i] \cup {busy[i]} \in SUBSET Events
        BY <3>1
      <4> QED
        BY <3>1, <4>1
    <3>3. taken' \in [Events -> Nat] /\ step' \in [Instances -> {"next", "route", "ack"}]
      BY <3>1
    <3>4. RemoteTypes'
      BY <3>1, <3>2, <3>3
    <3>5. \A j \in Instances : j # i => step'[j] = step[j] /\ pending'[j] = pending[j]
      BY <3>1
    <3>6. i \in up /\ step'[i] = "ack" /\ busy[i] # None
      BY <3>1
    <3> QED
      BY <3>1, <3>4, <3>5, <3>6
  <2>3. CASE LoopDeadLetter(i)
    BY <2>3 DEF LoopDeadLetter
  <2>4. CASE LoopAck(i)
    <3>1. busy[i] \in Events
      BY <2>4 DEF LoopAck
    <3> QED
      BY <2>4, <3>1 DEF LoopAck
  <2> QED
    BY <1>7, <2>1, <2>2, <2>3, <2>4 DEF Loop
<1>8. ASSUME NEW i \in Instances, Crash(i) \/ Exit(i) PROVE RemoteTypes' /\ InMemory'
  <2>1. RemoteTypes'
    <3>1. /\ inbox' \in [Instances -> Seq(Events)]
          /\ busy' \in [Instances -> Events \cup {None}]
          /\ step' \in [Instances -> {"next", "route", "ack"}]
          /\ pending' \in [Instances -> SUBSET Events]
      <4>1. /\ inbox' = [inbox EXCEPT ![i] = <<>>]
            /\ busy' = [busy EXCEPT ![i] = None]
            /\ step' = [step EXCEPT ![i] = "next"]
            /\ pending' = [pending EXCEPT ![i] = {}]
        BY <1>8, ProcessEnds
      <4> QED
        BY <4>1
    <3>2. acks' \in SUBSET (Instances \X Events)
      BY <1>8, ProcessEnds
    <3> QED
      BY <1>8, <3>1, <3>2, ProcessEnds
  <2>2. InMemory'
    BY <1>8, ProcessEnds
  <2> QED
    BY <2>1, <2>2
<1>9. ASSUME NEW i \in Instances, Halt(i) PROVE RemoteTypes' /\ InMemory'
  BY <1>9 DEF Halt, Running
<1> QED
  BY <1>1, <1>2, <1>3, <1>4, <1>5, <1>6, <1>7, <1>8, <1>9 DEF Next

\* Types and memory are invariant.
LEMMA MemoryInvariant == Spec => [](RemoteTypes /\ InMemory)
<1>1. Init => RemoteTypes /\ InMemory
  BY RemoteConstants DEF Init, RemoteTypes, InMemory
<1>2. ASSUME RemoteTypes, InMemory, UNCHANGED vars PROVE RemoteTypes' /\ InMemory'
  BY <1>2 DEF vars, callVars, brokerVars, processVars, loopVars, busVars, history, RemoteTypes, InMemory
<1> QED
  BY <1>1, <1>2, StepKeepsMemory, PTL DEF Spec

-----------------------------------------------------------------------------
(* Acknowledgements                                                        *)

\* An event that is accounted for stays so: a local bus that has it hands it to the
\* handler, or dies with it, and that is on record.
LEMMA StaysAccountedFor ==
  ASSUME RemoteTypes, InMemory, Next, NEW x \in Events, AccountedFor(x)
  PROVE  AccountedFor(x)'
<1> USE DEF RemoteTypes, AccountedFor, callVars, brokerVars, processVars, loopVars, busVars, history
<1>1. ASSUME NEW e \in Events,
             \/ PublishRemote(e) \/ PublishLater(e) \/ PublishPast(e) \/ PublishRefused(e)
             \/ NetworkTask(e) \/ WireLost(e) \/ BrokerReceive(e) \/ HandleDelayed(e)
      PROVE  AccountedFor(x)'
  <2>1. UNCHANGED <<up, pending, handled, dead, lapsed>>
    BY <1>1 DEF PublishRemote, PublishLater, PublishPast, PublishLocally, PublishRefused, NetworkTask,
       WireLost, BrokerReceive, HandleDelayed
  <2> QED
    BY <2>1
<1>2. ASSUME NEW i \in Instances, Halt(i) PROVE AccountedFor(x)'
  <2>1. /\ UNCHANGED <<up, handled, dead>> /\ lapsed' = lapsed \cup (pending[i] \X {"halted"})
        /\ \A j \in Instances \ {i} : pending'[j] = pending[j]
    BY <1>2 DEF Halt
  <2>2. x \in pending[i] => <<x, "halted">> \in lapsed'
    BY <2>1
  <2> QED
    BY <2>1, <2>2
<1>3. ASSUME NEW d \in inflight, AckWaitOver(d) PROVE AccountedFor(x)'
  BY <1>3 DEF AckWaitOver
<1>4. ASSUME NEW i \in Instances, NEW e \in Events, Deliver(i, e) \/ AckTask(i, e)
      PROVE  AccountedFor(x)'
  BY <1>4 DEF Deliver, AckTask
<1>5. ASSUME NEW i \in Instances, NEW e \in Events, Handle(i, e) PROVE AccountedFor(x)'
  <2>1. /\ UNCHANGED <<up, dead>> /\ handled \subseteq handled' /\ lapsed \subseteq lapsed'
        /\ e \in handled' \/ \E why \in {"unheard", "dropped"} : <<e, why>> \in lapsed'
        /\ \A j \in Instances : pending[j] \subseteq pending'[j] \cup {e}
    BY <1>5 DEF Handle
  <2> QED
    BY <2>1
<1>6. ASSUME NEW i \in Instances,
             SubscribeRemote(i) \/ Unsubscribe(i) \/ ReadDlq(i) \/ Shutdown(i) \/ Restart(i)
      PROVE  AccountedFor(x)'
  <2>1. UNCHANGED <<pending, handled, dead, lapsed>> /\ up \subseteq up'
    BY <1>6 DEF SubscribeRemote, Unsubscribe, ReadDlq, Shutdown, Restart
  <2> QED
    BY <2>1
<1>7. ASSUME NEW i \in Instances, Loop(i) PROVE AccountedFor(x)'
  <2>1. /\ UNCHANGED <<up, handled>>
        /\ dead \subseteq dead' /\ lapsed \subseteq lapsed'
        /\ \A j \in Instances : pending[j] \subseteq pending'[j]
    <3>1. pending' = pending \/ pending' = [pending EXCEPT ![i] = pending[i] \cup {busy[i]}]
      BY <1>7 DEF Loop, LoopNext, LoopRoute, LoopDeadLetter, LoopAck
    <3>2. \A j \in Instances : pending[j] \subseteq pending'[j]
      BY <3>1
    <3> QED
      BY <1>7, <3>2 DEF Loop, LoopNext, LoopRoute, LoopDeadLetter, LoopAck
  <2> QED
    BY <2>1
<1>8. ASSUME NEW i \in Instances, Crash(i) \/ Exit(i) PROVE AccountedFor(x)'
  <2>1. /\ UNCHANGED <<handled, dead>> /\ lapsed \subseteq lapsed'
        /\ up' = up \ {i} /\ \A j \in Instances \ {i} : pending'[j] = pending[j]
    BY <1>8, ProcessEnds
  <2>2. lapsed' = lapsed \cup (pending[i] \X {"crashed"})
    BY <1>8, ProcessEnds
  <2>3. x \in pending[i] => <<x, "crashed">> \in lapsed'
    BY <2>2
  <2> QED
    BY <2>1, <2>3
<1> QED
  BY <1>1, <1>2, <1>3, <1>4, <1>5, <1>6, <1>7, <1>8 DEF Next

\* Where acknowledgements come from: the loop is about to trigger one when it has brought
\* its message to the local bus or to the DLQ; it triggers the one it was about to; and
\* the broker gets those that were triggered.
LEMMA WhereAcksComeFrom ==
  ASSUME RemoteTypes, InMemory, Next
  PROVE  /\ \A i \in Instances : step'[i] = "ack" =>
              (step[i] = "ack" /\ busy'[i] = busy[i]) \/ LoopRoute(i) \/ LoopDeadLetter(i)
         /\ \A a \in acks' : a \in acks \/ (step[a[1]] = "ack" /\ a[2] = busy[a[1]])
         /\ \A d \in acked' : d \in acked \/ \E a \in acks : d[2] = a[2]
<1> DEFINE Told == /\ \A i \in Instances : step'[i] = "ack" =>
                        (step[i] = "ack" /\ busy'[i] = busy[i]) \/ LoopRoute(i) \/ LoopDeadLetter(i)
                   /\ \A a \in acks' : a \in acks \/ (step[a[1]] = "ack" /\ a[2] = busy[a[1]])
                   /\ \A d \in acked' : d \in acked \/ \E a \in acks : d[2] = a[2]
<1> SUFFICES Told
  OBVIOUS
<1> USE DEF RemoteTypes, callVars, brokerVars, processVars, loopVars
<1>1. ASSUME NEW e \in Events,
             \/ PublishRemote(e) \/ PublishLater(e) \/ PublishPast(e) \/ PublishRefused(e)
             \/ NetworkTask(e) \/ BrokerReceive(e) \/ WireLost(e) \/ HandleDelayed(e)
      PROVE  Told
  <2>1. UNCHANGED <<step, busy, acks, acked>>
    BY <1>1 DEF PublishRemote, PublishLater, PublishPast, PublishRefused, NetworkTask, BrokerReceive,
       WireLost, HandleDelayed
  <2> QED
    BY <2>1
<1>2. ASSUME NEW d \in inflight, AckWaitOver(d) PROVE Told
  BY <1>2 DEF AckWaitOver
<1>3. ASSUME NEW i \in Instances, NEW e \in Events, Deliver(i, e) \/ Handle(i, e) PROVE Told
  BY <1>3 DEF Deliver, Handle
<1>4. ASSUME NEW i \in Instances, NEW e \in Events, AckTask(i, e) PROVE Told
  <2>1. /\ UNCHANGED <<step, busy>> /\ acks' \subseteq acks
        /\ <<i, e>> \in acks /\ acked' \subseteq acked \cup {<<"group_topic", e>>}
    BY <1>4 DEF AckTask, ConsumerName
  <2> QED
    BY <2>1
<1>5. ASSUME NEW i \in Instances,
             \/ SubscribeRemote(i) \/ Unsubscribe(i) \/ ReadDlq(i) \/ Shutdown(i) \/ Halt(i)
             \/ Restart(i)
      PROVE  Told
  <2>1. UNCHANGED <<step, busy, acks, acked>>
    BY <1>5 DEF SubscribeRemote, Unsubscribe, ReadDlq, Shutdown, Halt, Restart
  <2> QED
    BY <2>1
<1>6. ASSUME NEW i \in Instances, Loop(i) PROVE Told
  <2>1. CASE LoopNext(i)
    BY <2>1 DEF LoopNext
  <2>2. CASE LoopRoute(i) \/ LoopDeadLetter(i)
    <3>1. UNCHANGED <<busy, acks, acked>> /\ step' = [step EXCEPT ![i] = "ack"]
      BY <2>2 DEF LoopRoute, LoopDeadLetter
    <3> QED
      BY <2>2, <3>1
  <2>3. CASE LoopAck(i)
    BY <2>3 DEF LoopAck
  <2> QED
    BY <1>6, <2>1, <2>2, <2>3 DEF Loop
<1>7. ASSUME NEW i \in Instances, Crash(i) \/ Exit(i) PROVE Told
  <2>1. /\ acked' = acked /\ acks' \subseteq acks
        /\ step' = [step EXCEPT ![i] = "next"] /\ busy' = [busy EXCEPT ![i] = None]
    BY <1>7, ProcessEnds
  <2> QED
    BY <2>1
<1> QED
  BY <1>1, <1>2, <1>3, <1>4, <1>5, <1>6, <1>7 DEF Next

\* A loop that has brought its message to the local bus or to the DLQ leaves it accounted for.
LEMMA RoutedIsAccountedFor ==
  ASSUME RemoteTypes, InMemory, NEW i \in Instances, LoopRoute(i) \/ LoopDeadLetter(i)
  PROVE  AccountedFor(busy[i])' /\ busy'[i] = busy[i]
<1> USE DEF RemoteTypes, AccountedFor, processVars
<1>1. CASE LoopDeadLetter(i)
  BY <1>1 DEF LoopDeadLetter
<1>2. CASE LoopRoute(i)
  <2>1. i \in up /\ up' = up /\ busy' = busy
    BY <1>2 DEF LoopRoute, InMemory
  <2>2. CASE i \in stopping
    BY <1>2, <2>1, <2>2 DEF LoopRoute
  <2>3. CASE i \notin stopping /\ i \notin listening
    BY <1>2, <2>1, <2>3 DEF LoopRoute
  <2>4. CASE i \notin stopping /\ i \in listening
    <3>1. pending' = [pending EXCEPT ![i] = pending[i] \cup {busy[i]}]
      BY <1>2, <2>4 DEF LoopRoute
    <3> QED
      BY <2>1, <3>1
  <2> QED
    BY <2>2, <2>3, <2>4
<1> QED
  BY <1>1, <1>2

\* Whatever the broker was told to forget has been handled, is with a live bus or in the
\* DLQ, or was lost by a bus that a loop had brought it to, in one of the ways on record.
THEOREM AcknowledgedAccountedFor == Spec => []AckedIsAccountedFor
<1>1. Init => AckInv
  BY DEF Init, AckInv
<1>2. ASSUME RemoteTypes, InMemory, AckInv, Next PROVE AckInv'
  <2>1. ASSUME NEW i \in Instances, step'[i] = "ack" PROVE AccountedFor(busy[i])'
    <3>1. CASE step[i] = "ack" /\ busy'[i] = busy[i]
      <4>1. busy[i] \in Events /\ AccountedFor(busy[i])
        BY <1>2, <3>1, RemoteConstants DEF RemoteTypes, InMemory, AckInv
      <4> QED
        BY <1>2, <3>1, <4>1, StaysAccountedFor DEF AccountedFor
    <3>2. CASE LoopRoute(i) \/ LoopDeadLetter(i)
      BY <1>2, <3>2, RoutedIsAccountedFor
    <3> QED
      BY <1>2, <2>1, <3>1, <3>2, WhereAcksComeFrom
  <2>2. ASSUME NEW a \in acks' PROVE AccountedFor(a[2])'
    <3>1. a[2] \in Events /\ AccountedFor(a[2])
      <4>1. a \in acks \/ (step[a[1]] = "ack" /\ a[2] = busy[a[1]])
        BY <1>2, WhereAcksComeFrom
      <4>2. a \in Instances \X Events
        BY <1>2, StepKeepsMemory DEF RemoteTypes
      <4> QED
        BY <1>2, <4>1, <4>2 DEF AckInv
    <3> QED
      BY <1>2, <3>1, StaysAccountedFor
  <2>3. ASSUME NEW d \in acked' PROVE AccountedFor(d[2])'
    <3>1. d[2] \in Events /\ AccountedFor(d[2])
      <4>1. d \in acked \/ \E a \in acks : d[2] = a[2]
        BY <1>2, WhereAcksComeFrom
      <4>2. d \in {"group_topic"} \X Events
        BY <1>2, StepKeepsMemory DEF RemoteTypes
      <4> QED
        BY <1>2, <4>1, <4>2 DEF AckInv
    <3> QED
      BY <1>2, <3>1, StaysAccountedFor
  <2> QED
    BY <2>1, <2>2, <2>3 DEF AckInv
<1>3. ASSUME AckInv, UNCHANGED vars PROVE AckInv'
  BY <1>3 DEF vars, brokerVars, processVars, loopVars, busVars, history, AckInv, AccountedFor
<1>4. AckInv => AckedIsAccountedFor
  BY DEF AckInv, AccountedFor, AckedIsAccountedFor
<1> QED
  BY <1>1, <1>2, <1>3, <1>4, MemoryInvariant, PTL DEF Spec

-----------------------------------------------------------------------------
(* Deliveries                                                              *)

\* Every step sends an event to the broker once at most.
LEMMA StepKeepsSentOnce ==
  ASSUME RemoteTypes, SentOnce, Next
  PROVE  SentOnce'
<1> USE DEF RemoteTypes, SentOnce, callVars, brokerVars, processVars, loopVars
<1>1. ASSUME NEW e \in Events, PublishRemote(e) \/ PublishLater(e) \/ PublishPast(e) PROVE SentOnce'
  <2>1. /\ call[e] = None /\ UNCHANGED <<jetstream, stored>>
        /\ call' = [call EXCEPT ![e] = "ok"] \/ call' = [call EXCEPT ![e] = "err"]
        /\ \/ sleeping' = sleeping /\ wire' = wire
           \/ sleeping' = sleeping /\ wire' = wire \cup {e}
           \/ sleeping' = sleeping \cup {e} /\ wire' = wire
    BY <1>1 DEF PublishRemote, PublishLater, PublishPast, PublishLocally, Transport, Returned
  <2>2. call'[e] # None /\ \A x \in Events : x # e => call'[x] = call[x]
    BY <2>1, RemoteConstants
  <2> QED
    BY <2>1, <2>2
<1>2. ASSUME NEW e \in Events, PublishRefused(e) PROVE SentOnce'
  BY <1>2, RemoteConstants DEF PublishRefused
<1>3. ASSUME NEW e \in Events,
             NetworkTask(e) \/ BrokerReceive(e) \/ WireLost(e) \/ HandleDelayed(e)
      PROVE  SentOnce'
  BY <1>3 DEF NetworkTask, BrokerReceive, WireLost, HandleDelayed, Transport
<1>4. ASSUME NEW d \in inflight, AckWaitOver(d) PROVE SentOnce'
  BY <1>4 DEF AckWaitOver
<1>5. ASSUME NEW i \in Instances, NEW e \in Events, Deliver(i, e) \/ AckTask(i, e) \/ Handle(i, e)
      PROVE  SentOnce'
  BY <1>5 DEF Deliver, AckTask, Handle
<1>6. ASSUME NEW i \in Instances,
             \/ SubscribeRemote(i) \/ Unsubscribe(i) \/ Loop(i) \/ ReadDlq(i) \/ Shutdown(i)
             \/ Halt(i) \/ Restart(i)
      PROVE  SentOnce'
  <2>1. UNCHANGED <<jetstream, call, sleeping, wire, stored>>
    BY <1>6 DEF SubscribeRemote, Unsubscribe, ReadDlq, Shutdown, Halt, Restart, Loop, LoopNext,
       LoopRoute, LoopDeadLetter, LoopAck
  <2> QED
    BY <2>1
<1>7. ASSUME NEW i \in Instances, Crash(i) \/ Exit(i) PROVE SentOnce'
  <2>1. /\ UNCHANGED <<jetstream, call, stored>> /\ sleeping' \subseteq sleeping /\ wire' \subseteq wire
    BY <1>7, ProcessEnds
  <2> QED
    BY <2>1
<1> QED
  BY <1>1, <1>2, <1>3, <1>4, <1>5, <1>6, <1>7 DEF Next

\* No step takes back what the broker has handed out.
LEMMA HandedOutGrows ==
  ASSUME RemoteTypes, SentOnce, Next, NEW x \in Events
  PROVE  HandedOut(x) \in Nat /\ HandedOut(x)' \in Nat /\ HandedOut(x) <= HandedOut(x)'
<1> USE DEF RemoteTypes, SentOnce, HandedOut, callVars, brokerVars, processVars, loopVars
<1> DEFINE Grows == HandedOut(x) \in Nat /\ HandedOut(x)' \in Nat /\ HandedOut(x) <= HandedOut(x)'
<1>1. ASSUME NEW e \in Events, PublishRemote(e) \/ PublishLater(e) \/ PublishPast(e) PROVE Grows
  <2>1. /\ call[e] = None /\ UNCHANGED <<jetstream, inflight, acked, redelivered>>
        /\ \A y \in Events : y # e => call'[y] = call[y]
        /\ sleeping' \subseteq sleeping \cup {e} /\ wire' \subseteq wire \cup {e}
    BY <1>1 DEF PublishRemote, PublishLater, PublishPast, PublishLocally, Transport, Returned
  <2> QED
    BY <2>1
<1>2. ASSUME NEW e \in Events, PublishRefused(e) PROVE Grows
  BY <1>2 DEF PublishRefused
<1>3. ASSUME NEW e \in Events,
             NetworkTask(e) \/ BrokerReceive(e) \/ WireLost(e) \/ HandleDelayed(e)
      PROVE  Grows
  <2>1. /\ UNCHANGED <<jetstream, call, inflight, acked, redelivered>>
        /\ sleeping' \cup wire' \subseteq sleeping \cup wire
    BY <1>3 DEF NetworkTask, BrokerReceive, WireLost, HandleDelayed, Transport
  <2> QED
    BY <2>1
<1>4. ASSUME NEW d \in inflight, AckWaitOver(d) PROVE Grows
  <2>1. d[2] \in Events /\ d = <<"group_topic", d[2]>>
    OBVIOUS
  <2>2. /\ UNCHANGED <<jetstream, callVars, wire, acked>> /\ inflight' = inflight \ {d}
        /\ redelivered' = [redelivered EXCEPT ![d[2]] = redelivered[d[2]] + 1]
    BY <1>4 DEF AckWaitOver
  <2> QED
    BY <2>1, <2>2
<1>5. ASSUME NEW i \in Instances, NEW e \in Events, Deliver(i, e) \/ AckTask(i, e) \/ Handle(i, e)
      PROVE  Grows
  <2>1. /\ UNCHANGED <<jetstream, call, sleeping, wire, redelivered>>
        /\ inflight \cup acked \subseteq inflight' \cup acked'
    BY <1>5 DEF Deliver, AckTask, Handle, ConsumerName
  <2> QED
    BY <2>1
<1>6. ASSUME NEW i \in Instances,
             \/ SubscribeRemote(i) \/ Unsubscribe(i) \/ Loop(i) \/ ReadDlq(i) \/ Shutdown(i)
             \/ Halt(i) \/ Restart(i)
      PROVE  Grows
  <2>1. UNCHANGED <<jetstream, call, sleeping, wire, inflight, acked, redelivered>>
    BY <1>6 DEF SubscribeRemote, Unsubscribe, ReadDlq, Shutdown, Halt, Restart, Loop, LoopNext,
       LoopRoute, LoopDeadLetter, LoopAck
  <2> QED
    BY <2>1
<1>7. ASSUME NEW i \in Instances, Crash(i) \/ Exit(i) PROVE Grows
  <2>1. /\ UNCHANGED <<jetstream, call, inflight, acked, redelivered>>
        /\ sleeping' \subseteq sleeping /\ wire' \subseteq wire
    BY <1>7, ProcessEnds
  <2> QED
    BY <2>1
<1> QED
  BY <1>1, <1>2, <1>3, <1>4, <1>5, <1>6, <1>7 DEF Next

\* A message that the broker gives to an instance is one more copy.
LEMMA OneMoreCopy ==
  ASSUME RemoteTypes, InMemory, NEW i \in Instances, NEW e \in Events, NEW x \in Events,
         inbox' = [inbox EXCEPT ![i] = Append(inbox[i], e)], UNCHANGED <<busy, step>>
  PROVE  Copies(x)' = IF x = e THEN Copies(x) \cup {<<i, Len(inbox[i]) + 1>>} ELSE Copies(x)
<1> DEFINE q == inbox[i]
<1>1. /\ q \in Seq(Events) /\ Len(q) \in Nat
      /\ DOMAIN q = 1 .. Len(q) /\ DOMAIN Append(q, e) = 1 .. (Len(q) + 1)
      /\ \A k \in 1 .. Len(q) : Append(q, e)[k] = q[k]
      /\ Append(q, e)[Len(q) + 1] = e
  BY AppendProperties DEF RemoteTypes
<1>2. inbox'[i] = Append(q, e) /\ \A j \in Instances : j # i => inbox'[j] = inbox[j]
  BY DEF RemoteTypes
<1> HIDE DEF q
<1>3. ASSUME NEW c \in Instances \X Nat
      PROVE  c \in Copies(x)' <=> c \in Copies(x) \/ (x = e /\ c = <<i, Len(q) + 1>>)
  <2>1. CASE c[1] # i
    BY <1>2, <2>1 DEF Copies
  <2>2. CASE c[1] = i
    <3>1. c[2] \in DOMAIN Append(q, e) /\ Append(q, e)[c[2]] = x <=>
            (c[2] \in DOMAIN q /\ q[c[2]] = x) \/ (x = e /\ c[2] = Len(q) + 1)
      BY <1>1
    <3>2. c = <<i, c[2]>>
      BY <2>2
    <3> QED
      BY <1>2, <2>2, <3>1, <3>2 DEF Copies, q
  <2> QED
    BY <2>1, <2>2
<1>4. Copies(x) \subseteq Instances \X Nat /\ Copies(x)' \subseteq Instances \X Nat
  BY DEF Copies
<1>5. <<i, Len(q) + 1>> \in Instances \X Nat
  BY <1>1
<1> DEFINE S == Copies(x)
           T == Copies(x)'
<1>6. /\ S \subseteq Instances \X Nat /\ T \subseteq Instances \X Nat
      /\ \A c \in Instances \X Nat : c \in T <=> c \in S \/ (x = e /\ c = <<i, Len(q) + 1>>)
  BY <1>3, <1>4
<1> HIDE DEF S, T
<1>7. ASSUME x = e PROVE T = S \cup {<<i, Len(q) + 1>>}
  BY <1>5, <1>6, <1>7
<1>8. ASSUME x # e PROVE T = S
  BY <1>6, <1>8
<1> QED
  BY <1>7, <1>8 DEF q, S, T

\* The loop that takes the next message makes no copy: what was at place k of its inbox is
\* at place k - 1, and place 0 is the message in its hands.
LEMMA NoCopyMade ==
  ASSUME RemoteTypes, InMemory, NEW i \in Instances, LoopNext(i), NEW x \in Events,
         IsFiniteSet(Copies(x))
  PROVE  IsFiniteSet(Copies(x)') /\ Cardinality(Copies(x)') <= Cardinality(Copies(x))
<1> DEFINE q == inbox[i]
           S == Copies(x)
           T == Copies(x)'
           f == [c \in S |-> IF c[1] = i THEN <<i, c[2] - 1>> ELSE c]
<1>1. /\ q \in Seq(Events) /\ q # <<>> /\ step[i] = "next" /\ step'[i] = "route"
      /\ busy'[i] = Head(q) /\ inbox'[i] = Tail(q)
      /\ \A j \in Instances : j # i => /\ inbox'[j] = inbox[j] /\ busy'[j] = busy[j]
                                       /\ step'[j] = step[j]
  BY DEF LoopNext, RemoteTypes
<1>2. /\ Len(q) \in Nat \ {0} /\ DOMAIN q = 1 .. Len(q) /\ DOMAIN Tail(q) = 1 .. (Len(q) - 1)
      /\ Head(q) = q[1]
      /\ \A k \in 1 .. (Len(q) - 1) : Tail(q)[k] = q[k + 1]
  BY <1>1, HeadTailProperties, EmptySeq
<1>3. \A c \in Instances \X Nat : c[1] = i =>
        /\ c \in S <=> c[2] \in 1 .. Len(q) /\ q[c[2]] = x
        /\ c \in T <=> (c[2] = 0 /\ q[1] = x) \/ (c[2] \in 1 .. (Len(q) - 1) /\ q[c[2] + 1] = x)
  <2> SUFFICES ASSUME NEW c \in Instances \X Nat, c[1] = i
               PROVE  /\ c \in S <=> c[2] \in 1 .. Len(q) /\ q[c[2]] = x
                      /\ c \in T <=> \/ c[2] = 0 /\ q[1] = x
                                     \/ c[2] \in 1 .. (Len(q) - 1) /\ q[c[2] + 1] = x
    OBVIOUS
  <2> HIDE DEF q
  <2>1. c \in S <=> c[2] \in DOMAIN q /\ q[c[2]] = x
    BY <1>1 DEF Copies, q
  <2>2. c \in T <=> (c[2] = 0 /\ Head(q) = x) \/ (c[2] \in DOMAIN Tail(q) /\ Tail(q)[c[2]] = x)
    BY <1>1 DEF Copies, q
  <2>3. c[2] \in DOMAIN Tail(q) /\ Tail(q)[c[2]] = x <=> c[2] \in 1 .. (Len(q) - 1) /\ q[c[2] + 1] = x
    BY <1>2
  <2> QED
    BY <1>2, <2>1, <2>2, <2>3
<1>4. \A c \in Instances \X Nat : c[1] # i => (c \in S <=> c \in T)
  BY <1>1 DEF Copies
<1>5. S \subseteq Instances \X Nat /\ T \subseteq Instances \X Nat
  BY DEF Copies
<1> HIDE DEF q, S, T
<1>6. ASSUME NEW c \in S PROVE f[c] \in T
  <2>1. CASE c[1] = i
    <3>1. c[2] \in 1 .. Len(q) /\ q[c[2]] = x
      BY <1>3, <1>5, <2>1
    <3>2. c[2] - 1 \in Nat /\ f[c] = <<i, c[2] - 1>>
      BY <2>1, <3>1
    <3>3. (c[2] - 1 = 0 /\ q[1] = x) \/ (c[2] - 1 \in 1 .. (Len(q) - 1) /\ q[(c[2] - 1) + 1] = x)
      BY <1>2, <3>1
    <3> QED
      BY <1>3, <3>2, <3>3
  <2>2. CASE c[1] # i
    BY <1>4, <1>5, <2>2
  <2> QED
    BY <2>1, <2>2
<1>7. ASSUME NEW t \in T PROVE \E c \in S : f[c] = t
  <2>1. CASE t[1] = i
    <3>1. t \in Instances \X Nat /\ t = <<i, t[2]>> /\ t[2] \in Nat
      BY <1>5, <2>1
    <3>2. t[2] + 1 \in 1 .. Len(q) /\ q[t[2] + 1] = x
      BY <1>2, <1>3, <2>1, <3>1
    <3>3. <<i, t[2] + 1>> \in Instances \X Nat
      BY <3>1
    <3>4. <<i, t[2] + 1>> \in S
      BY <1>3, <3>2, <3>3
    <3>5. f[<<i, t[2] + 1>>] = t
      BY <3>1, <3>4
    <3> QED
      BY <3>4, <3>5
  <2>2. CASE t[1] # i
    BY <1>4, <1>5, <2>2
  <2> QED
    BY <2>1, <2>2
<1>8. f \in Surjection(S, T)
  BY <1>6, <1>7 DEF Surjection
<1>9. IsFiniteSet(S)
  BY DEF S
<1>10. IsFiniteSet(T) /\ Cardinality(T) <= Cardinality(S)
  BY <1>8, <1>9, FS_Surjection
<1> QED
  BY <1>10 DEF S, T

\* What becomes of the copies of an event in a step: there are no more of them, and none is
\* taken; or one is taken and gone; or there is one more, and the broker has handed it out.
LEMMA StepMovesCopies ==
  ASSUME RemoteTypes, InMemory, SentOnce, Next, NEW x \in Events, IsFiniteSet(Copies(x))
  PROVE  /\ IsFiniteSet(Copies(x)')
         /\ \/ taken'[x] = taken[x] /\ Cardinality(Copies(x)') <= Cardinality(Copies(x))
            \/ taken'[x] = taken[x] + 1 /\ Cardinality(Copies(x)') = Cardinality(Copies(x)) - 1
            \/ /\ taken'[x] = taken[x] /\ Cardinality(Copies(x)') <= Cardinality(Copies(x)) + 1
               /\ HandedOut(x)' = HandedOut(x) + 1
<1> DEFINE Moved ==
      /\ IsFiniteSet(Copies(x)')
      /\ \/ taken'[x] = taken[x] /\ Cardinality(Copies(x)') <= Cardinality(Copies(x))
         \/ taken'[x] = taken[x] + 1 /\ Cardinality(Copies(x)') = Cardinality(Copies(x)) - 1
         \/ /\ taken'[x] = taken[x] /\ Cardinality(Copies(x)') <= Cardinality(Copies(x)) + 1
            /\ HandedOut(x)' = HandedOut(x) + 1
<1> USE DEF callVars, brokerVars, processVars, loopVars, history
<1>0. Cardinality(Copies(x)) \in Nat
  BY FS_CardinalityType
<1>1. ASSUME Copies(x)' \subseteq Copies(x), taken'[x] = taken[x] PROVE Moved
  BY <1>0, <1>1, FS_Subset
<1>2. ASSUME UNCHANGED <<inbox, busy, step, taken>> PROVE Moved
  BY <1>1, <1>2 DEF Copies
<1>3. ASSUME NEW i \in Instances, NEW e \in Events,
             inbox' = [inbox EXCEPT ![i] = Append(inbox[i], e)], UNCHANGED <<busy, step, taken>>,
             HandedOut(e)' = HandedOut(e) + 1
      PROVE  Moved
  <2>1. CASE x = e
    <3>1. Copies(x)' = Copies(x) \cup {<<i, Len(inbox[i]) + 1>>}
      BY <1>3, <2>1, OneMoreCopy
    <3>2. IsFiniteSet(Copies(x)') /\ Cardinality(Copies(x)') <= Cardinality(Copies(x)) + 1
      <4> DEFINE S == Copies(x)
                 c == <<i, Len(inbox[i]) + 1>>
      <4>1. IsFiniteSet(S) /\ Cardinality(S) \in Nat /\ Copies(x)' = S \cup {c}
        BY <1>0, <3>1
      <4> HIDE DEF S, c
      <4>2. /\ IsFiniteSet(S \cup {c})
            /\ Cardinality(S \cup {c}) = IF c \in S THEN Cardinality(S) ELSE Cardinality(S) + 1
        BY <4>1, FS_AddElement
      <4>3. IsFiniteSet(S \cup {c}) /\ Cardinality(S \cup {c}) <= Cardinality(S) + 1
        BY <4>1, <4>2
      <4> QED
        BY <4>1, <4>3 DEF S
    <3> QED
      BY <1>3, <2>1, <3>2
  <2>2. CASE x # e
    <3>1. Copies(x)' = Copies(x)
      BY <1>3, <2>2, OneMoreCopy
    <3> QED
      BY <1>1, <1>3, <3>1
  <2> QED
    BY <2>1, <2>2
<1>4. ASSUME NEW e \in Events,
             \/ PublishRemote(e) \/ PublishLater(e) \/ PublishPast(e) \/ PublishRefused(e)
             \/ NetworkTask(e) \/ WireLost(e) \/ HandleDelayed(e)
      PROVE  Moved
  <2>1. UNCHANGED <<inbox, busy, step, taken>>
    BY <1>4 DEF PublishRemote, PublishLater, PublishPast, PublishRefused, NetworkTask, WireLost,
       HandleDelayed
  <2> QED
    BY <1>2, <2>1
<1>5. ASSUME NEW e \in Events, BrokerReceive(e) PROVE Moved
  <2>1. UNCHANGED <<busy, step, taken>>
    BY <1>5 DEF BrokerReceive
  <2>2. CASE inbox' = inbox
    BY <1>2, <2>1, <2>2
  <2>3. ASSUME ~jetstream, NEW i \in looping, inbox' = [inbox EXCEPT ![i] = Append(inbox[i], e)]
        PROVE  Moved
    <3>1. HandedOut(e)' = HandedOut(e) + 1
      BY <1>5, <2>3 DEF BrokerReceive, HandedOut, SentOnce, RemoteTypes
    <3>2. i \in Instances
      BY DEF RemoteTypes
    <3> QED
      BY <1>3, <2>1, <2>3, <3>1, <3>2
  <2> QED
    BY <1>5, <2>2, <2>3 DEF BrokerReceive
<1>6. ASSUME NEW d \in inflight, AckWaitOver(d) PROVE Moved
  BY <1>2, <1>6 DEF AckWaitOver
<1>7. ASSUME NEW i \in Instances, NEW e \in Events, Deliver(i, e) PROVE Moved
  <2>1. /\ inbox' = [inbox EXCEPT ![i] = Append(inbox[i], e)] /\ UNCHANGED <<busy, step, taken>>
        /\ UNCHANGED <<jetstream, redelivered, acked>> /\ e \in stored
        /\ <<"group_topic", e>> \notin inflight \cup acked
        /\ inflight' = inflight \cup {<<"group_topic", e>>}
    BY <1>7 DEF Deliver, ConsumerName
  <2>2. HandedOut(e)' = HandedOut(e) + 1
    BY <2>1 DEF HandedOut, SentOnce, RemoteTypes
  <2> QED
    BY <1>3, <2>1, <2>2
<1>8. ASSUME NEW i \in Instances, NEW e \in Events, AckTask(i, e) \/ Handle(i, e) PROVE Moved
  <2>1. UNCHANGED <<inbox, busy, step, taken>>
    BY <1>8 DEF AckTask, Handle
  <2> QED
    BY <1>2, <2>1
<1>9. ASSUME NEW i \in Instances,
             \/ SubscribeRemote(i) \/ Unsubscribe(i) \/ ReadDlq(i) \/ Shutdown(i) \/ Halt(i)
             \/ Restart(i)
      PROVE  Moved
  <2>1. UNCHANGED <<inbox, busy, step, taken>>
    BY <1>9 DEF SubscribeRemote, Unsubscribe, ReadDlq, Shutdown, Halt, Restart
  <2> QED
    BY <1>2, <2>1
<1>10. ASSUME NEW i \in Instances, LoopNext(i) PROVE Moved
  <2>1. IsFiniteSet(Copies(x)') /\ Cardinality(Copies(x)') <= Cardinality(Copies(x))
    BY <1>10, NoCopyMade
  <2>2. taken' = taken
    BY <1>10 DEF LoopNext
  <2> QED
    BY <2>1, <2>2
<1>11. ASSUME NEW i \in Instances, LoopRoute(i) PROVE Moved
  <2>1. /\ step[i] = "route" /\ step' = [step EXCEPT ![i] = "ack"] /\ UNCHANGED <<inbox, busy>>
        /\ taken' = [taken EXCEPT ![busy[i]] = taken[busy[i]] + 1]
    BY <1>11 DEF LoopRoute
  <2>2. CASE x = busy[i]
    <3>1. <<i, 0>> \in Copies(x)
      BY <2>1, <2>2 DEF Copies
    <3>2. Copies(x)' = Copies(x) \ {<<i, 0>>}
      <4>1. \A c \in Instances \X Nat : c \in Copies(x)' <=> c \in Copies(x) /\ c # <<i, 0>>
        <5> TAKE c \in Instances \X Nat
        <5>1. c = <<i, 0>> <=> c[1] = i /\ c[2] = 0
          OBVIOUS
        <5>2. 0 \notin DOMAIN inbox[i]
          <6>1. inbox[i] \in Seq(Events)
            BY DEF RemoteTypes
          <6> QED
            BY <6>1
        <5> QED
          BY <2>1, <5>1, <5>2 DEF Copies, RemoteTypes
      <4>2. Copies(x) \subseteq Instances \X Nat /\ Copies(x)' \subseteq Instances \X Nat
        BY DEF Copies
      <4> QED
        BY <4>1, <4>2
    <3>3. IsFiniteSet(Copies(x)') /\ Cardinality(Copies(x)') = Cardinality(Copies(x)) - 1
      BY <3>1, <3>2, FS_RemoveElement
    <3>4. taken'[x] = taken[x] + 1
      BY <2>1, <2>2 DEF RemoteTypes
    <3> QED
      BY <3>3, <3>4
  <2>3. CASE x # busy[i]
    <3>1. Copies(x)' \subseteq Copies(x) /\ taken'[x] = taken[x]
      BY <2>1, <2>3 DEF Copies, RemoteTypes
    <3> QED
      BY <1>1, <3>1
  <2> QED
    BY <2>2, <2>3
<1>12. ASSUME NEW i \in Instances, LoopDeadLetter(i) PROVE Moved
  <2>1. Copies(x)' \subseteq Copies(x) /\ taken' = taken
    BY <1>12 DEF LoopDeadLetter, Copies, RemoteTypes
  <2> QED
    BY <1>1, <2>1
<1>13. ASSUME NEW i \in Instances, LoopAck(i) PROVE Moved
  <2>1. Copies(x)' \subseteq Copies(x) /\ taken' = taken
    BY <1>13, RemoteConstants DEF LoopAck, Copies, RemoteTypes
  <2> QED
    BY <1>1, <2>1
<1>14. ASSUME NEW i \in Instances, Crash(i) \/ Exit(i) PROVE Moved
  <2>1. /\ inbox' = [inbox EXCEPT ![i] = <<>>] /\ step' = [step EXCEPT ![i] = "next"]
        /\ busy' = [busy EXCEPT ![i] = None] /\ taken' = taken
    BY <1>14, ProcessEnds
  <2>2. Copies(x)' \subseteq Copies(x)
    BY <2>1 DEF Copies, RemoteTypes
  <2> QED
    BY <1>1, <2>1, <2>2
<1> QED
  BY <1>4, <1>5, <1>6, <1>7, <1>8, <1>9, <1>10, <1>11, <1>12, <1>13, <1>14 DEF Next, Loop

\* The instances of a queue group share the events: however many there are and whichever of
\* them crash, an event gets to a local bus once, and once more for every ack_wait that ran
\* out.
THEOREM TakenOncePerGroup == Spec => []OncePerGroup
<1>1. Init => SentOnce /\ CopiesInv
  <2> SUFFICES ASSUME Init PROVE SentOnce /\ CopiesInv
    OBVIOUS
  <2>1. SentOnce
    BY DEF Init, SentOnce
  <2>2. ASSUME NEW e \in Events PROVE Copies(e) = {} /\ taken[e] = 0 /\ HandedOut(e) = 0
    BY DEF Init, Copies, HandedOut
  <2> QED
    BY <2>1, <2>2, FS_EmptySet DEF CopiesInv
<1>2. ASSUME RemoteTypes, InMemory, SentOnce, CopiesInv, Next PROVE SentOnce' /\ CopiesInv'
  <2>1. SentOnce'
    BY <1>2, StepKeepsSentOnce
  <2>2. ASSUME NEW x \in Events
        PROVE  IsFiniteSet(Copies(x)') /\ taken'[x] + Cardinality(Copies(x)') <= HandedOut(x)'
    <3>1. IsFiniteSet(Copies(x)) /\ taken[x] + Cardinality(Copies(x)) <= HandedOut(x)
      BY <1>2 DEF CopiesInv
    <3>2. HandedOut(x) \in Nat /\ HandedOut(x)' \in Nat /\ HandedOut(x) <= HandedOut(x)'
      BY <1>2, HandedOutGrows
    <3>3. /\ IsFiniteSet(Copies(x)')
          /\ \/ taken'[x] = taken[x] /\ Cardinality(Copies(x)') <= Cardinality(Copies(x))
             \/ taken'[x] = taken[x] + 1 /\ Cardinality(Copies(x)') = Cardinality(Copies(x)) - 1
             \/ /\ taken'[x] = taken[x] /\ Cardinality(Copies(x)') <= Cardinality(Copies(x)) + 1
                /\ HandedOut(x)' = HandedOut(x) + 1
      BY <1>2, <3>1, StepMovesCopies
    <3>4. /\ Cardinality(Copies(x)) \in Nat /\ Cardinality(Copies(x)') \in Nat /\ taken[x] \in Nat
      BY <1>2, <3>1, <3>3, FS_CardinalityType DEF RemoteTypes
    <3> QED
      BY <3>1, <3>2, <3>3, <3>4
  <2> QED
    BY <2>1, <2>2 DEF CopiesInv
<1>3. ASSUME SentOnce, CopiesInv, UNCHANGED vars PROVE SentOnce' /\ CopiesInv'
  BY <1>3 DEF vars, callVars, brokerVars, loopVars, history, SentOnce, CopiesInv, Copies, HandedOut
<1>4. ASSUME RemoteTypes, CopiesInv PROVE OncePerGroup
  <2> SUFFICES ASSUME NEW e \in Events PROVE taken[e] <= 1 + redelivered[e]
    BY DEF OncePerGroup
  <2>1. Cardinality(Copies(e)) \in Nat /\ taken[e] + Cardinality(Copies(e)) <= HandedOut(e)
    BY <1>4, FS_CardinalityType DEF CopiesInv
  <2>2. HandedOut(e) \in Nat /\ HandedOut(e) <= 1 + redelivered[e]
    BY <1>4 DEF HandedOut, RemoteTypes
  <2> QED
    BY <1>4, <2>1, <2>2 DEF RemoteTypes
<1> QED
  BY <1>1, <1>2, <1>3, <1>4, MemoryInvariant, PTL DEF Spec
=============================================================================
