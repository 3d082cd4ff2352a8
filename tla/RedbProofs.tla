----------------------------- MODULE RedbProofs -----------------------------
(***************************************************************************)
(* The persistent dispatcher, for any number of events, subscriptions,     *)
(* crashes, failures and replays: TypeOK, with the reference counts within *)
(* their bounds; Durable, by counting acknowledgements; NothingLeftBehind, *)
(* the promise of a drained shutdown; OncePerKey, of idempotency keys; and *)
(* ScheduledOnTime, of events with a delivery time.                        *)
(***************************************************************************)
EXTENDS RedbDispatcher, SequenceLemmas, FiniteSetTheorems

-----------------------------------------------------------------------------
(* The inductive invariant of Durable                                      *)

Keys == {m.key : m \in UNION Range(Metadata)} \ {NoKey}

Metas == (UNION Range(Metadata)) \cup {Plain}

Acks == [event : Events, success : BOOLEAN]

Counters == 0 .. Cardinality(Subs)

TableTypes ==
  /\ events \in SUBSET Events /\ scheduled \in SUBSET Events /\ dlq \in SUBSET Events
  /\ refcount \in [Events -> Counters]
  /\ processed_keys \in SUBSET Keys
  /\ collected \in SUBSET Events /\ disk_failed \in BOOLEAN

\* The worker stores and delivers batches that are not empty.
WorkerTypes ==
  /\ queue \in Seq(Events) /\ batch \in Seq(Events)
  /\ worker \in {"recv", "drain", "store", "deliver", "exited"}
  /\ worker \in {"store", "deliver"} => batch # <<>>
  /\ count \in Counters /\ (worker = "store" => count > 0)
  /\ later \in SUBSET Events

ProcessTypes ==
  /\ app \in {"fresh", "replayed"} /\ subs \in SUBSET Subs
  /\ is_running \in BOOLEAN /\ sender \in BOOLEAN
  /\ poller \in {"sleep", "send", "exited"} /\ ready \in SUBSET Events
  /\ replay \in {"no", "pending", "dlq"} /\ resend \in SUBSET Events /\ dead \in SUBSET Events
  /\ stop \in {"no", "draining", "drained", "stopping", "stopped", "abandoned"}

CallTypes ==
  /\ call \in [Events -> {"idle", "sending", "waiting", "ok", "err", "crashed"}]
  /\ meta \in [Events -> Metas]
  /\ due \in SUBSET Events
  /\ audience \in [Events -> SUBSET Subs]

HandlerTypes ==
  /\ inbox \in [Subs -> Seq(Events)]
  /\ acks \in Seq(Acks)
  /\ handled \in [Events -> [Subs -> 0 .. 2]]

TypeInv == TableTypes /\ WorkerTypes /\ ProcessTypes /\ CallTypes /\ HandlerTypes

\* Wherever an event can be: in a table, on its way to a handler or acknowledged.
AcksOf(e) == {i \in DOMAIN acks : acks[i].event = e}

Travelling(e) == e \in resend \cup Range(queue) \cup Range(batch)

Arrived(e) == AcksOf(e) # {} \/ \E s \in Subs : e \in Range(inbox[s])

Stored(e) == e \in events \cup scheduled \cup dlq \cup later \cup ready \cup dead

Somewhere(e) == Stored(e) \/ Travelling(e) \/ Arrived(e)

\* An event whose message was not sent yet is nowhere, and one that nobody published has
\* no key; every stored key is the key of some event.
Unsent ==
  /\ \A e \in Events : call[e] \in {"idle", "sending", "err"} =>
       ~Somewhere(e)
  /\ \A e \in Events : call[e] = "idle" => meta[e] = Plain
  /\ \A k \in processed_keys : \E e \in Events : meta[e].key = k
  /\ is_running \/ stop # "no"

\* Durable promises to keep e, and somebody has not handled it yet.
Owed(e) ==
  /\ WaitForPersistence /\ e \notin Tries /\ call[e] \in {"sending", "waiting", "ok"}
  /\ audience[e] = Subs /\ ~meta[e].scheduled /\ ~meta[e].broken
  /\ ~disk_failed /\ e \notin collected \cup forsaken /\ ~Contested(e)
  /\ \E s \in Subs : handled[e][s] = 0

\* Whoever will acknowledge e once more, or ought to.
Awaited(e) == {s \in Subs : handled[e][s] = 0 \/ e \in Range(inbox[s])}

\* There is one message of e on the way, and none when acknowledgements are.
OneMessage(e) ==
  /\ Travelling(e) => ~Arrived(e)
  /\ e \in resend => e \notin Range(queue) \cup Range(batch)
  /\ e \in Range(queue) => e \notin Range(batch)
  /\ AtMostOnce(queue, e) /\ AtMostOnce(batch, e)
  /\ \A s \in Subs : AtMostOnce(inbox[s], e)
  /\ app = "fresh" => ~Travelling(e) /\ ~Arrived(e)

\* The publish call waits in a bus that runs, for a message that is no duplicate.
Waits(e) ==
  call[e] \in {"sending", "waiting"} =>
    /\ subs = Subs /\ stop = "no" /\ app = "replayed"
    /\ e \in Range(batch) \/ meta[e].key \notin processed_keys

\* A message is counted for all the subscriptions, stored, and then delivered, unless
\* there is none any more, or none yet and the message is still to be sent again.
Counts(e) ==
  /\ e \in resend => replay = "pending" /\ subs \in {{}, Subs}
  /\ e \in Range(queue) \cup Range(batch) =>
       subs = Subs \/ (subs = {} /\ stop \in {"stopped", "abandoned"})
  /\ worker = "store" /\ e \in Range(batch) => count = Cardinality(Subs)
  /\ worker = "deliver" /\ e \in Range(batch) =>
       e \in events /\ (refcount[e] = Cardinality(Subs) \/ subs = {})

\* The reference count covers the acknowledgements under way and those to come.
Covered(e) ==
  /\ call[e] = "ok" => e \in events
  /\ e \in events => Cardinality(AcksOf(e)) + Cardinality(Awaited(e)) <= refcount[e]
  /\ e \notin dlq \cup scheduled \cup ready \cup later

Safe(e) == OneMessage(e) /\ Waits(e) /\ Counts(e) /\ Covered(e)

DurableInv ==
  /\ TypeInv
  /\ Unsent
  /\ \A e \in Events : Owed(e) => Safe(e)

-----------------------------------------------------------------------------
(* Types                                                                   *)

\* There are finitely many subscriptions, and so there are in every part of them.
LEMMA SomeSubs ==
  /\ Cardinality(Subs) \in Nat /\ Cardinality(Subs) > 0
  /\ \A S \in SUBSET Subs : /\ IsFiniteSet(S) /\ Cardinality(S) \in Counters
                            /\ S # {} => Cardinality(S) > 0
<1>1. IsFiniteSet(Subs) /\ Subs # {}
  BY RedbConstants
<1>2. Cardinality(Subs) \in Nat /\ Cardinality(Subs) > 0
  BY <1>1, FS_CardinalityType, FS_EmptySet
<1>3. ASSUME NEW S \in SUBSET Subs
      PROVE  IsFiniteSet(S) /\ Cardinality(S) \in Counters /\ (S # {} => Cardinality(S) > 0)
  <2>1. IsFiniteSet(S) /\ Cardinality(S) <= Cardinality(Subs)
    BY <1>1, FS_Subset
  <2>2. Cardinality(S) \in Nat /\ (S # {} => Cardinality(S) > 0)
    BY <2>1, FS_CardinalityType, FS_EmptySet
  <2> QED
    BY <1>2, <2>1, <2>2 DEF Counters
<1> QED
  BY <1>2, <1>3

\* Nothing is in a channel that is new or dropped.
LEMMA NothingInside ==
  /\ <<>> \in Seq(Events) /\ <<>> \in Seq(Acks) /\ Range(<<>>) = {}
  /\ \A q \in Seq(Events) : Len(q) # 0 <=> q # <<>>
BY EmptySeq DEF Range

\* The tables keep their types.
LEMMA StepKeepsTableTypes ==
  ASSUME TypeInv, [Next]_vars
  PROVE  TableTypes'
<1> USE DEF TableTypes, pollerVars, replayVars, workerVars, controlVars, history, disk
<1>0. TableTypes
  BY DEF TypeInv
<1>1. CASE UNCHANGED <<disk, collected, disk_failed>>
  BY <1>0, <1>1
<1>2. CASE UNCHANGED <<disk, collected>> /\ disk_failed' = TRUE
  BY <1>0, <1>2
<1>3. CASE WorkerStore
  <2> DEFINE now == Storable \ later
  <2>1. /\ events' = events \cup now
        /\ refcount' = [e \in Events |-> IF e \in now THEN count ELSE refcount[e]]
        /\ scheduled' = scheduled \cup later
        /\ processed_keys' = processed_keys \cup ({meta[e].key : e \in Storable} \ {NoKey})
        /\ UNCHANGED <<dlq, collected, disk_failed>>
    BY <1>3 DEF WorkerStore
  <2>2. Storable \subseteq Events /\ later \subseteq Events /\ count \in Counters
    BY RangeOfSeq DEF TypeInv, WorkerTypes, Storable
  <2>3. \A e \in Storable : meta[e].key \in Keys \cup {NoKey}
    <3> TAKE e \in Storable
    <3>1. meta[e] \in Metas
      BY <2>2 DEF TypeInv, CallTypes
    <3>2. CASE meta[e] = Plain
      BY <3>2 DEF Plain
    <3>3. CASE meta[e] \in UNION Range(Metadata)
      BY <3>3 DEF Keys
    <3> QED
      BY <3>1, <3>2, <3>3 DEF Metas
  <2> HIDE DEF now
  <2>4. refcount' \in [Events -> Counters]
    BY <1>0, <2>1, <2>2
  <2>5. processed_keys' \subseteq Keys
    BY <1>0, <2>1, <2>3
  <2> QED
    BY <1>0, <2>1, <2>2, <2>4, <2>5 DEF now
<1>4. CASE AckApply
  <2>1. Head(acks) \in Acks
    BY <1>4, HeadTailProperties DEF AckApply, TypeInv, HandlerTypes
  <2>2. Head(acks).event \in Events
    BY <2>1 DEF Acks
  <2>3. \A n \in Counters : (IF n = 0 THEN 0 ELSE n - 1) \in Counters
    BY SomeSubs DEF Counters
  <2>4. refcount' \in [Events -> Counters]
    BY <1>0, <1>4, <2>2, <2>3 DEF AckApply
  <2> QED
    BY <1>0, <1>4, <2>2, <2>4 DEF AckApply
<1>5. CASE PollerPull
  BY <1>0, <1>5 DEF PollerPull
<1>6. CASE ReplayDlq
  BY <1>0, <1>6 DEF ReplayDlq
<1>7. CASE ReplayDone
  <2>1. dead \subseteq Events /\ 0 \in Counters
    BY SomeSubs DEF TypeInv, ProcessTypes, Counters
  <2>2. CASE UNCHANGED <<events, refcount, collected>>
    BY <1>0, <1>7, <2>2 DEF ReplayDone, DiskError
  <2>3. CASE /\ events' = events \ dead
             /\ refcount' = [e \in Events |-> IF e \in dead THEN 0 ELSE refcount[e]]
             /\ collected' = collected \cup dead
             /\ UNCHANGED <<extras, disk_failed>>
    <3>1. refcount' \in [Events -> Counters]
      BY <1>0, <2>1, <2>3
    <3> QED
      BY <1>0, <1>7, <2>1, <2>3, <3>1 DEF ReplayDone
  <2> QED
    BY <1>7, <2>2, <2>3 DEF ReplayDone
<1>8. CASE WorkerStoreFails \/ AckFails
  <2>1. UNCHANGED <<disk, collected>> /\ disk_failed' = TRUE
    BY <1>8 DEF WorkerStoreFails, AckFails, DiskError
  <2> QED
    BY <1>2, <2>1
<1>9. CASE Restart \/ \E group \in Groups : Subscribe(group)
  BY <1>1, <1>9 DEF Restart, Subscribe
<1>10. ASSUME NEW e \in Events, Elapse(e) \/ PublishBegin(e) \/ Publish(e)
       PROVE  TableTypes'
  BY <1>1, <1>10 DEF Elapse, PublishBegin, Publish, PublishSend, PublishFull
<1>11. ASSUME NEW s \in Subs, Handler(s) PROVE TableTypes'
  BY <1>1, <1>11 DEF Handler, Handle
<1>12. CASE WorkerRecv \/ WorkerBreak \/ WorkerClosed \/ WorkerCount \/ WorkerDeliver
  BY <1>1, <1>12 DEF WorkerRecv, WorkerBreak, WorkerClosed, WorkerCount, WorkerDeliver
<1>13. CASE PollerExit \/ \E e \in Events : PollerSend(e)
  BY <1>1, <1>13 DEF PollerExit, PollerSend
<1>14. CASE ReplayPending \/ \E e \in Events : ReplaySend(e) \/ ReplayDlqSend(e)
  BY <1>1, <1>14 DEF ReplayPending, ReplaySend, ReplayDlqSend
<1>15. CASE DrainBegin \/ StopBegin \/ StopAbandoned \/ Stop \/ Rest \/ UNCHANGED vars
  BY <1>1, <1>15 DEF DrainBegin, StopBegin, StopAbandoned, Stop, DrainDone, StopDone, Rest, vars
<1> QED
  BY <1>3, <1>4, <1>5, <1>6, <1>7, <1>8, <1>9, <1>10, <1>11, <1>12, <1>13, <1>14, <1>15
     DEF Next, Worker, AckWorker, Poller, Replay

\* The queue and the batch keep their types.
LEMMA StepKeepsWorkerTypes ==
  ASSUME TypeInv, [Next]_vars
  PROVE  WorkerTypes'
<1> USE DEF WorkerTypes, pollerVars, replayVars, workerVars, controlVars, history, disk
<1>0. WorkerTypes /\ resend \subseteq Events /\ ready \subseteq Events /\ subs \in SUBSET Subs
  BY DEF TypeInv, ProcessTypes
<1>1. ASSUME UNCHANGED <<queue, batch, worker, count, later>> PROVE WorkerTypes'
  BY <1>0, <1>1
<1>2. ASSUME NEW e \in Events, queue' = queue \/ queue' = Append(queue, e),
             UNCHANGED <<batch, worker, count, later>>
      PROVE  WorkerTypes'
  <2>1. Append(queue, e) \in Seq(Events)
    BY <1>0, AppendElements
  <2> QED
    BY <1>0, <1>2, <2>1
<1>3. CASE WorkerRecv
  <2>1. queue # <<>> /\ queue' = Tail(queue) /\ worker' = "drain" /\ UNCHANGED <<count, later>>
    BY <1>3 DEF WorkerRecv
  <2>2. Head(queue) \in Events /\ Tail(queue) \in Seq(Events)
    BY <1>0, <2>1, TailElements
  <2>3. Append(batch, Head(queue)) \in Seq(Events)
    BY <1>0, <2>2, AppendElements
  <2>4. batch' = batch \/ batch' = Append(batch, Head(queue))
    BY <1>3 DEF WorkerRecv
  <2> QED
    BY <1>0, <2>1, <2>2, <2>3, <2>4
<1>4. CASE WorkerBreak \/ WorkerClosed
  BY <1>0, <1>4, NothingInside DEF WorkerBreak, WorkerClosed
<1>5. CASE WorkerCount
  <2>1. count' \in Counters /\ (batch # <<>> /\ subs # {} => count' > 0)
    BY <1>0, <1>5, SomeSubs DEF WorkerCount, Counters
  <2>2. later' \subseteq Events
    BY <1>0, <1>5, RangeOfSeq DEF WorkerCount, Storable
  <2> QED
    BY <1>0, <1>5, <2>1, <2>2 DEF WorkerCount
<1>6. CASE WorkerStore \/ WorkerStoreFails
  <2>1. 0 \in Counters
    BY SomeSubs DEF Counters
  <2>2. UNCHANGED queue /\ count' = 0 /\ later' = {}
    BY <1>6 DEF WorkerStore, WorkerStoreFails
  <2>3. \/ worker = "store" /\ worker' = "deliver" /\ batch' = batch
        \/ worker' = "recv" /\ batch' = <<>>
    BY <1>6 DEF WorkerStore, WorkerStoreFails
  <2> QED
    BY <1>0, <2>1, <2>2, <2>3, NothingInside
<1>7. CASE WorkerDeliver
  <2>1. /\ worker = "deliver" /\ batch' = Tail(batch) /\ UNCHANGED <<queue, count, later>>
        /\ worker' = IF Len(batch) = 1 THEN "recv" ELSE "deliver"
    BY <1>7 DEF WorkerDeliver
  <2>2. Tail(batch) \in Seq(Events) /\ Len(Tail(batch)) = Len(batch) - 1 /\ Len(batch) \in Nat
    BY <1>0, <2>1, HeadTailProperties
  <2>3. Len(batch) # 1 => Tail(batch) # <<>>
    <3>1. Len(batch) # 1 => Len(Tail(batch)) # 0
      BY <2>2
    <3> QED
      BY <2>2, <3>1, NothingInside
  <2> QED
    BY <1>0, <2>1, <2>2, <2>3
<1>8. CASE Restart
  <2>1. 0 \in Counters
    BY SomeSubs DEF Counters
  <2> QED
    BY <1>0, <1>8, <2>1 DEF Restart
<1>9. ASSUME NEW e \in Events,
             \/ Elapse(e) \/ PublishBegin(e) \/ Publish(e) \/ PollerSend(e) \/ ReplaySend(e)
             \/ ReplayDlqSend(e)
      PROVE  WorkerTypes'
  BY <1>1, <1>2, <1>9 DEF Elapse, PublishBegin, Publish, PublishSend, PublishFull, PollerSend, ReplaySend,
     ReplayDlqSend
<1>10. ASSUME NEW s \in Subs, Handler(s) PROVE WorkerTypes'
  BY <1>1, <1>10 DEF Handler, Handle
<1>11. CASE AckWorker \/ PollerPull \/ PollerExit \/ \E group \in Groups : Subscribe(group)
  BY <1>1, <1>11 DEF AckWorker, AckApply, AckFails, PollerPull, PollerExit, Subscribe
<1>12. CASE ReplayPending \/ ReplayDlq \/ ReplayDone
  BY <1>1, <1>12 DEF ReplayPending, ReplayDlq, ReplayDone
<1>13. CASE DrainBegin \/ StopBegin \/ StopAbandoned \/ Stop \/ Rest \/ UNCHANGED vars
  BY <1>1, <1>13 DEF DrainBegin, StopBegin, StopAbandoned, Stop, DrainDone, StopDone, Rest, vars
<1> QED
  BY <1>3, <1>4, <1>5, <1>6, <1>7, <1>8, <1>9, <1>10, <1>11, <1>12, <1>13 DEF Next, Worker, Poller, Replay

\* The rest of the process keeps its types.
LEMMA StepKeepsProcessTypes ==
  ASSUME TypeInv, [Next]_vars
  PROVE  ProcessTypes'
<1> USE DEF ProcessTypes, pollerVars, replayVars, workerVars, controlVars, history, disk
<1>0. ProcessTypes /\ events \subseteq Events /\ scheduled \subseteq Events /\ dlq \subseteq Events
  BY DEF TypeInv, TableTypes
<1>1. ASSUME UNCHANGED <<subs, app, is_running, sender, poller, ready, replay, resend, dead, stop>>
      PROVE  ProcessTypes'
  BY <1>0, <1>1
<1>2. CASE Restart
  BY <1>2 DEF Restart
<1>3. ASSUME NEW group \in Groups, Subscribe(group) PROVE ProcessTypes'
  <2>1. group \subseteq Subs
    BY RedbConstants
  <2> QED
    BY <1>0, <1>3, <2>1 DEF Subscribe
<1>4. ASSUME NEW e \in Events, Elapse(e) \/ PublishBegin(e) \/ Publish(e) PROVE ProcessTypes'
  BY <1>1, <1>4 DEF Elapse, PublishBegin, Publish, PublishSend, PublishFull
<1>5. ASSUME NEW e \in Events, PollerSend(e) \/ ReplaySend(e) \/ ReplayDlqSend(e) PROVE ProcessTypes'
  BY <1>0, <1>5 DEF PollerSend, ReplaySend, ReplayDlqSend
<1>6. ASSUME NEW s \in Subs, Handler(s) PROVE ProcessTypes'
  BY <1>1, <1>6 DEF Handler, Handle
<1>7. CASE Worker \/ AckWorker
  <2>1. UNCHANGED <<subs, pollerVars, replayVars, controlVars>>
    BY <1>7 DEF Worker, WorkerRecv, WorkerBreak, WorkerClosed, WorkerCount, WorkerStore, WorkerStoreFails,
       WorkerDeliver, AckWorker, AckApply, AckFails
  <2> QED
    BY <1>1, <2>1
<1>8. CASE PollerPull \/ PollerExit
  BY <1>0, <1>8 DEF PollerPull, PollerExit
<1>9. CASE ReplayPending \/ ReplayDlq \/ ReplayDone
  BY <1>0, <1>9 DEF ReplayPending, ReplayDlq, ReplayDone
<1>10. CASE DrainBegin \/ StopBegin \/ StopAbandoned \/ Stop
  BY <1>0, <1>10 DEF DrainBegin, StopBegin, StopAbandoned, Stop, DrainDone, StopDone
<1>11. CASE Rest \/ UNCHANGED vars
  BY <1>1, <1>11 DEF Rest, vars
<1> QED
  BY <1>2, <1>3, <1>4, <1>5, <1>6, <1>7, <1>8, <1>9, <1>10, <1>11 DEF Next, Poller, Replay

\* The publish calls and their events keep their types.
LEMMA StepKeepsCallTypes ==
  ASSUME TypeInv, [Next]_vars
  PROVE  CallTypes'
<1> USE DEF CallTypes, pollerVars, replayVars, workerVars, controlVars, history, disk
<1>0. CallTypes /\ subs \in SUBSET Subs
  BY DEF TypeInv, ProcessTypes
<1>1. ASSUME UNCHANGED <<call, meta, due, audience>> PROVE CallTypes'
  BY <1>0, <1>1
<1>2. ASSUME NEW S, Confirmed(S) \/ UNCHANGED call, UNCHANGED <<meta, due, audience>> PROVE CallTypes'
  BY <1>0, <1>2 DEF Confirmed
<1>3. CASE Restart
  BY <1>0, <1>3 DEF Restart
<1>4. ASSUME NEW e \in Events, Elapse(e) \/ Publish(e) PROVE CallTypes'
  BY <1>0, <1>4 DEF Elapse, Publish, PublishSend, PublishFull
<1>5. ASSUME NEW e \in Events, PublishBegin(e) PROVE CallTypes'
  <2>1. PICK m \in Metadata[e] : meta' = [meta EXCEPT ![e] = m]
    BY <1>5 DEF PublishBegin
  <2>2. m \in Metas
    BY RedbConstants DEF Metas, Range
  <2>3. meta' \in [Events -> Metas]
    BY <1>0, <2>1, <2>2
  <2> QED
    BY <1>0, <1>5, <2>3 DEF PublishBegin
<1>6. CASE WorkerRecv
  BY <1>2, <1>6 DEF WorkerRecv
<1>7. CASE WorkerBreak
  BY <1>2, <1>7 DEF WorkerBreak
<1>8. CASE WorkerStoreFails
  BY <1>2, <1>8 DEF WorkerStoreFails
<1>9. CASE WorkerDeliver
  BY <1>2, <1>9 DEF WorkerDeliver
<1>10. CASE WorkerClosed \/ WorkerCount \/ WorkerStore \/ AckWorker
  BY <1>1, <1>10 DEF WorkerClosed, WorkerCount, WorkerStore, AckWorker, AckApply, AckFails
<1>11. CASE Poller \/ Replay \/ ReplayPending \/ ReplayDlq
  BY <1>1, <1>11 DEF Poller, PollerPull, PollerExit, PollerSend, Replay, ReplayDone, ReplaySend,
     ReplayDlqSend, ReplayPending, ReplayDlq
<1>12. ASSUME NEW s \in Subs, Handler(s) PROVE CallTypes'
  BY <1>1, <1>12 DEF Handler, Handle
<1>13. CASE \/ \E group \in Groups : Subscribe(group)
            \/ DrainBegin \/ StopBegin \/ StopAbandoned \/ Stop \/ Rest \/ UNCHANGED vars
  BY <1>1, <1>13 DEF Subscribe, DrainBegin, StopBegin, StopAbandoned, Stop, DrainDone, StopDone, Rest, vars
<1> QED
  BY <1>3, <1>4, <1>5, <1>6, <1>7, <1>8, <1>9, <1>10, <1>11, <1>12, <1>13 DEF Next, Worker

\* What a handler is done with: the head of its channel.
LEMMA HandlerTakes ==
  ASSUME TypeInv, NEW s \in Subs, NEW ok \in BOOLEAN, Handle(s, ok), NEW e, e = Head(inbox[s])
  PROVE  /\ e \in Events /\ inbox[s] \in Seq(Events) /\ inbox[s] # <<>>
         /\ Tail(inbox[s]) \in Seq(Events)
         /\ acks' = Append(acks, [event |-> e, success |-> ok])
         /\ inbox' = [inbox EXCEPT ![s] = Tail(inbox[s])]
         /\ handled' = [handled EXCEPT ![e][s] = IF handled[e][s] < Counted(e) THEN handled[e][s] + 1
                                                                               ELSE handled[e][s]]
<1>1. inbox[s] \in Seq(Events) /\ inbox[s] # <<>>
  BY DEF Handle, TypeInv, HandlerTypes
<1>2. e \in Events /\ Tail(inbox[s]) \in Seq(Events)
  BY <1>1, TailElements
<1> QED
  BY <1>1, <1>2 DEF Handle

\* The channels of the handlers, the acknowledgements and the history keep their types.
LEMMA StepKeepsHandlerTypes ==
  ASSUME TypeInv, [Next]_vars
  PROVE  HandlerTypes'
<1> USE DEF HandlerTypes, pollerVars, replayVars, workerVars, controlVars, history, disk
<1>0. HandlerTypes
  BY DEF TypeInv
<1>1. ASSUME UNCHANGED <<inbox, acks, handled>> PROVE HandlerTypes'
  BY <1>0, <1>1
<1>2. CASE Restart \/ StopDone \/ StopAbandoned
  <2>1. inbox' = [s \in Subs |-> <<>>] /\ UNCHANGED handled /\ (acks' = acks \/ acks' = <<>>)
    BY <1>2 DEF Restart, StopDone, StopAbandoned
  <2> QED
    BY <1>0, <2>1, NothingInside
<1>3. ASSUME NEW s \in Subs, NEW ok \in BOOLEAN, Handle(s, ok) PROVE HandlerTypes'
  <2> DEFINE e == Head(inbox[s])
             n == handled[e][s]
             m == IF n < Counted(e) THEN n + 1 ELSE n
  <2>1. /\ e \in Events /\ Tail(inbox[s]) \in Seq(Events)
        /\ acks' = Append(acks, [event |-> e, success |-> ok])
        /\ inbox' = [inbox EXCEPT ![s] = Tail(inbox[s])]
        /\ handled' = [handled EXCEPT ![e][s] = m]
    BY <1>3, HandlerTakes
  <2> HIDE DEF e
  <2>2. m \in 0 .. 2
    BY <1>0, <2>1 DEF Counted
  <2>3. [event |-> e, success |-> ok] \in Acks
    BY <2>1 DEF Acks
  <2>4. Append(acks, [event |-> e, success |-> ok]) \in Seq(Acks)
    BY <1>0, <2>3, AppendElements
  <2> HIDE DEF m
  <2> QED
    BY <1>0, <2>1, <2>2, <2>4
<1>4. CASE WorkerDeliver
  <2>1. Head(batch) \in Events
    BY <1>4, TailElements DEF WorkerDeliver, TypeInv, WorkerTypes
  <2>2. PICK sent : inbox' = [s \in Subs |-> IF s \in sent THEN Append(inbox[s], Head(batch)) ELSE inbox[s]]
    BY <1>4 DEF WorkerDeliver
  <2>3. \A s \in Subs : Append(inbox[s], Head(batch)) \in Seq(Events)
    BY <1>0, <2>1, AppendElements
  <2> QED
    BY <1>0, <1>4, <2>2, <2>3 DEF WorkerDeliver
<1>5. CASE AckWorker
  <2>1. acks # <<>> /\ acks' = Tail(acks) /\ UNCHANGED <<inbox, handled>>
    BY <1>5 DEF AckWorker, AckApply, AckFails
  <2>2. Tail(acks) \in Seq(Acks)
    BY <1>0, <2>1, TailElements
  <2> QED
    BY <1>0, <2>1, <2>2
<1>6. ASSUME NEW e \in Events, Elapse(e) \/ PublishBegin(e) \/ Publish(e) PROVE HandlerTypes'
  BY <1>1, <1>6 DEF Elapse, PublishBegin, Publish, PublishSend, PublishFull
<1>7. CASE WorkerRecv \/ WorkerBreak \/ WorkerClosed \/ WorkerCount \/ WorkerStore \/ WorkerStoreFails
  BY <1>1, <1>7 DEF WorkerRecv, WorkerBreak, WorkerClosed, WorkerCount, WorkerStore, WorkerStoreFails
<1>8. CASE Poller \/ Replay \/ ReplayPending \/ ReplayDlq
  BY <1>1, <1>8 DEF Poller, PollerPull, PollerExit, PollerSend, Replay, ReplayDone, ReplaySend,
     ReplayDlqSend, ReplayPending, ReplayDlq
<1>9. CASE \/ \E group \in Groups : Subscribe(group)
           \/ DrainBegin \/ StopBegin \/ DrainDone \/ Rest \/ UNCHANGED vars
  BY <1>1, <1>9 DEF Subscribe, DrainBegin, StopBegin, DrainDone, Rest, vars
<1> QED
  BY <1>2, <1>3, <1>4, <1>5, <1>6, <1>7, <1>8, <1>9 DEF Next, Worker, Handler, Stop

\* TypeInv always holds.
THEOREM RedbTypes == Spec => []TypeInv
<1>1. Init => TypeInv
  <2>1. 0 \in Counters
    BY SomeSubs DEF Counters
  <2> QED
    <3> SUFFICES ASSUME Init PROVE TypeInv
      OBVIOUS
    <3>1. TableTypes /\ ProcessTypes
      BY <2>1 DEF Init, Started, TableTypes, ProcessTypes
    <3>2. WorkerTypes
      BY <2>1, NothingInside DEF Init, Started, WorkerTypes
    <3>3. CallTypes
      BY DEF Init, CallTypes, Metas
    <3>4. HandlerTypes
      BY NothingInside DEF Init, Started, HandlerTypes
    <3> QED
      BY <3>1, <3>2, <3>3, <3>4 DEF TypeInv
<1>2. TypeInv /\ [Next]_vars => TypeInv'
  BY StepKeepsTableTypes, StepKeepsWorkerTypes, StepKeepsProcessTypes, StepKeepsCallTypes,
     StepKeepsHandlerTypes DEF TypeInv
<1> QED
  BY <1>1, <1>2, PTL DEF Spec

\* TypeOK for every persistent dispatcher: no reference count leaves the range from 0 to the
\* number of subscriptions (RedbRegistry's acknowledgement worker, process_events and
\* replay_pending), and the worker stores only for somebody.
THEOREM RedbTypeCorrect == Spec => []TypeOK
<1>1. TypeInv => TypeOK
  BY DEF TypeInv, TypeOK, TableTypes, WorkerTypes, ProcessTypes, CallTypes, HandlerTypes, Keys, Metas,
     Acks, Counters
<1> QED
  BY <1>1, RedbTypes, PTL

-----------------------------------------------------------------------------
(* Acknowledgements                                                        *)

\* There are finitely many acknowledgements under way.
LEMMA FewAcks ==
  ASSUME TypeInv, NEW e
  PROVE  IsFiniteSet(AcksOf(e)) /\ Cardinality(AcksOf(e)) \in Nat
<1>1. DOMAIN acks = 1 .. Len(acks) /\ Len(acks) \in Nat
  BY DEF TypeInv, HandlerTypes
<1>2. IsFiniteSet(1 .. Len(acks))
  BY <1>1, FS_Interval
<1>3. AcksOf(e) \in SUBSET (1 .. Len(acks))
  BY <1>1 DEF AcksOf
<1>4. IsFiniteSet(AcksOf(e))
  BY <1>2, <1>3, FS_Subset
<1> QED
  BY <1>4, FS_CardinalityType

\* A handler that is done adds one acknowledgement, of its event.
LEMMA AckSent ==
  ASSUME TypeInv, NEW a \in Acks, acks' = Append(acks, a), NEW e
  PROVE  /\ a.event # e => AcksOf(e)' = AcksOf(e)
         /\ Cardinality(AcksOf(e)') <= Cardinality(AcksOf(e)) + 1
<1>1. /\ Len(acks) \in Nat /\ DOMAIN acks = 1 .. Len(acks) /\ DOMAIN acks' = 1 .. (Len(acks) + 1)
      /\ \A i \in 1 .. Len(acks) : acks'[i] = acks[i]
      /\ acks'[Len(acks) + 1] = a
  BY AppendProperties DEF TypeInv, HandlerTypes
<1>2. CASE a.event # e
  <2>1. AcksOf(e)' = AcksOf(e)
    BY <1>1, <1>2 DEF AcksOf
  <2> QED
    BY <1>2, <2>1, FewAcks
<1>3. CASE a.event = e
  <2>1. AcksOf(e)' = AcksOf(e) \cup {Len(acks) + 1}
    BY <1>1, <1>3 DEF AcksOf
  <2> DEFINE S == AcksOf(e)
             n == Len(acks) + 1
  <2>2. IsFiniteSet(S) /\ Cardinality(S) \in Nat
    BY FewAcks
  <2> HIDE DEF S, n
  <2>3. Cardinality(S \cup {n}) = IF n \in S THEN Cardinality(S) ELSE Cardinality(S) + 1
    BY <2>2, FS_AddElement
  <2>4. Cardinality(S \cup {n}) <= Cardinality(S) + 1
    BY <2>2, <2>3
  <2> QED
    BY <1>3, <2>1, <2>4 DEF S, n
<1> QED
  BY <1>2, <1>3

\* The acknowledgement worker takes one, of the event at the head.
LEMMA AckTaken ==
  ASSUME TypeInv, acks # <<>>, acks' = Tail(acks), NEW e
  PROVE  /\ IsFiniteSet(AcksOf(e)')
         /\ AcksOf(e)' # {} => AcksOf(e) # {}
         /\ Head(acks).event = e => /\ AcksOf(e) # {}
                                    /\ Cardinality(AcksOf(e)') <= Cardinality(AcksOf(e)) - 1
         /\ Cardinality(AcksOf(e)') <= Cardinality(AcksOf(e))
<1> DEFINE n == Len(acks)
           S == AcksOf(e) \ {1}
           T == AcksOf(e)'
           f == [i \in S |-> i - 1]
<1>1. /\ n \in Nat \ {0} /\ DOMAIN acks = 1 .. n /\ DOMAIN acks' = 1 .. (n - 1)
      /\ \A i \in 1 .. (n - 1) : acks'[i] = acks[i + 1]
      /\ Head(acks) = acks[1]
  BY EmptySeq, HeadTailProperties DEF TypeInv, HandlerTypes
<1>2. IsFiniteSet(AcksOf(e)) /\ Cardinality(AcksOf(e)) \in Nat
  BY FewAcks
<1>3. /\ IsFiniteSet(S)
      /\ Cardinality(S) = IF 1 \in AcksOf(e) THEN Cardinality(AcksOf(e)) - 1 ELSE Cardinality(AcksOf(e))
  BY <1>2, FS_RemoveElement
<1>4. \A i : i \in S <=> i \in 2 .. n /\ acks[i].event = e
  BY <1>1 DEF AcksOf
<1>5. \A i : i \in T <=> i \in 1 .. (n - 1) /\ acks[i + 1].event = e
  BY <1>1 DEF AcksOf
<1>6. 1 \in AcksOf(e) <=> Head(acks).event = e
  BY <1>1 DEF AcksOf
<1>7. S \subseteq AcksOf(e)
  OBVIOUS
<1> HIDE DEF n, S, T
<1>8. \A i \in S : f[i] \in T
  BY <1>1, <1>4, <1>5
<1>9. ASSUME NEW i \in T PROVE i + 1 \in S /\ f[i + 1] = i
  BY <1>1, <1>4, <1>5
<1>10. f \in Surjection(S, T)
  BY <1>8, <1>9 DEF Surjection
<1>11. IsFiniteSet(T) /\ Cardinality(T) <= Cardinality(S)
  BY <1>3, <1>10, FS_Surjection
<1>12. T # {} => AcksOf(e) # {}
  BY <1>7, <1>9
<1>13. Cardinality(T) \in Nat
  BY <1>11, FS_CardinalityType
<1>14. /\ Head(acks).event = e => Cardinality(T) <= Cardinality(AcksOf(e)) - 1
       /\ Cardinality(T) <= Cardinality(AcksOf(e))
  BY <1>2, <1>3, <1>6, <1>11, <1>13
<1> QED
  BY <1>6, <1>11, <1>12, <1>14 DEF T

-----------------------------------------------------------------------------
(* Where an event can come from                                            *)

\* An event gets into the process and its tables by being sent, and in no other way.
LEMMA ComesFromSend ==
  ASSUME TypeInv, [Next]_vars, NEW e \in Events, Somewhere(e)'
  PROVE  Somewhere(e) \/ PublishSend(e)
<1> USE DEF Somewhere, pollerVars, replayVars, workerVars, controlVars, history, disk
<1>0. /\ queue \in Seq(Events) /\ batch \in Seq(Events) /\ inbox \in [Subs -> Seq(Events)]
      /\ acks \in Seq(Acks)
  BY DEF TypeInv, WorkerTypes, HandlerTypes
<1>1. ASSUME UNCHANGED <<events, scheduled, dlq, later, ready, dead, resend, queue, batch, inbox, acks>>
      PROVE  Somewhere(e)
  BY <1>1 DEF Stored, Travelling, Arrived, AcksOf
<1>2. ASSUME UNCHANGED <<batch, inbox, acks>>, queue' = queue \/ queue' = <<>>,
             Stored(e)' \/ e \in resend' => Stored(e) \/ e \in resend
      PROVE  Somewhere(e)
  <2>1. Range(queue') \subseteq Range(queue)
    BY <1>2, NothingInside
  <2> QED
    BY <1>2, <2>1 DEF Travelling, Arrived, AcksOf
<1>3. ASSUME NEW f \in Events, queue' = queue \/ (queue' = Append(queue, f) /\ (f = e => Somewhere(e))),
             UNCHANGED <<events, scheduled, dlq, later, batch, inbox, acks>>,
             dead' \subseteq dead \cup resend, resend' \subseteq resend, ready' \subseteq ready
      PROVE  Somewhere(e)
  <2>1. Range(Append(queue, f)) = Range(queue) \cup {f}
    BY <1>0, AppendElements
  <2> QED
    BY <1>3, <2>1 DEF Stored, Travelling, Arrived, AcksOf
<1>4. CASE Restart
  <2>1. /\ UNCHANGED <<events, scheduled, dlq>> /\ queue' = <<>> /\ batch' = <<>> /\ later' = {} /\ acks' = <<>>
        /\ ready' = {} /\ resend' = {} /\ dead' = {} /\ inbox' = [s \in Subs |-> <<>>]
    BY <1>4 DEF Restart
  <2>2. ~Travelling(e)' /\ \A s \in Subs : Range(inbox'[s]) = {}
    BY <2>1, NothingInside DEF Travelling
  <2>3. ~Arrived(e)'
    BY <2>1, <2>2 DEF Arrived, AcksOf
  <2> QED
    BY <2>1, <2>2, <2>3 DEF Stored
<1>5. ASSUME NEW s \in Subs, Handler(s) PROVE Somewhere(e)
  <2>1. PICK ok \in BOOLEAN : Handle(s, ok)
    BY <1>5 DEF Handler
  <2> DEFINE h == Head(inbox[s])
             a == [event |-> h, success |-> ok]
  <2>2. /\ h \in Events /\ inbox[s] \in Seq(Events) /\ inbox[s] # <<>>
        /\ acks' = Append(acks, a)
        /\ inbox' = [inbox EXCEPT ![s] = Tail(inbox[s])]
    BY <2>1, HandlerTakes
  <2>3. Range(inbox[s]) = {h} \cup Range(Tail(inbox[s]))
    BY <2>2, TailElements
  <2>4. a \in Acks /\ a.event = h
    BY <2>2 DEF Acks
  <2>5. UNCHANGED <<events, scheduled, dlq, later, ready, dead, resend, queue, batch>>
    BY <2>1 DEF Handle
  <2> HIDE DEF h, a
  <2>6. ASSUME NEW t \in Subs, e \in Range(inbox'[t]) PROVE e \in Range(inbox[t])
    BY <1>0, <2>2, <2>3, <2>6
  <2>7. AcksOf(e)' # {} => AcksOf(e) # {} \/ e = h
    BY <2>2, <2>4, AckSent
  <2> QED
    BY <2>3, <2>5, <2>6, <2>7 DEF Stored, Travelling, Arrived
<1>6. CASE WorkerRecv
  <2>1. /\ queue # <<>> /\ queue' = Tail(queue)
        /\ batch' = batch \/ batch' = Append(batch, Head(queue))
        /\ UNCHANGED <<events, scheduled, dlq, later, ready, dead, resend, inbox, acks>>
    BY <1>6 DEF WorkerRecv
  <2>2. Head(queue) \in Events /\ Range(queue) = {Head(queue)} \cup Range(Tail(queue))
    BY <1>0, <2>1, TailElements
  <2>3. Range(Append(batch, Head(queue))) = Range(batch) \cup {Head(queue)}
    BY <1>0, <2>2, AppendElements
  <2> QED
    BY <2>1, <2>2, <2>3 DEF Stored, Travelling, Arrived, AcksOf
<1>7. CASE WorkerStore
  <2>1. /\ events' = events \cup (Storable \ later) /\ scheduled' = scheduled \cup later /\ later' = {}
        /\ Storable \subseteq Range(batch)
        /\ UNCHANGED <<dlq, ready, dead, resend, queue, batch, inbox, acks>>
    BY <1>7 DEF WorkerStore, Storable
  <2> QED
    BY <2>1 DEF Stored, Travelling, Arrived, AcksOf
<1>8. CASE WorkerDeliver
  <2>1. /\ batch' = Tail(batch) /\ batch # <<>>
        /\ UNCHANGED <<events, scheduled, dlq, later, ready, dead, resend, queue, acks>>
    BY <1>8 DEF WorkerDeliver, TypeInv, WorkerTypes
  <2>2. PICK sent : inbox' = [s \in Subs |-> IF s \in sent THEN Append(inbox[s], Head(batch)) ELSE inbox[s]]
    BY <1>8 DEF WorkerDeliver
  <2>3. Head(batch) \in Events /\ Range(batch) = {Head(batch)} \cup Range(Tail(batch))
    BY <1>0, <2>1, TailElements
  <2>4. \A s \in Subs : Range(inbox'[s]) \subseteq Range(inbox[s]) \cup {Head(batch)}
    BY <1>0, <2>2, <2>3, AppendElements
  <2> QED
    BY <2>1, <2>3, <2>4 DEF Stored, Travelling, Arrived, AcksOf
<1>9. CASE AckWorker
  <2>1. /\ acks # <<>> /\ acks' = Tail(acks)
        /\ UNCHANGED <<scheduled, later, ready, dead, resend, queue, batch, inbox>>
    BY <1>9 DEF AckWorker, AckApply, AckFails
  <2>2. AcksOf(e)' # {} => AcksOf(e) # {}
    BY <2>1, AckTaken
  <2>3. Stored(e)' => Stored(e)
    BY <1>9 DEF AckWorker, AckApply, AckFails, Stored
  <2> QED
    BY <2>1, <2>2, <2>3 DEF Travelling, Arrived
<1>10. CASE StopDone \/ StopAbandoned
  <2>1. /\ UNCHANGED <<events, scheduled, dlq, later, ready, dead, resend, queue, batch, acks>>
        /\ inbox' = [s \in Subs |-> <<>>]
    BY <1>10 DEF StopDone, StopAbandoned
  <2>2. \A s \in Subs : Range(inbox'[s]) = {}
    BY <2>1, NothingInside
  <2> QED
    BY <2>1, <2>2 DEF Stored, Travelling, Arrived, AcksOf
<1>11. CASE WorkerBreak \/ WorkerClosed
  BY <1>2, <1>11 DEF WorkerBreak, WorkerClosed, Stored
<1>12. CASE WorkerCount
  <2>1. later' \subseteq Range(batch) /\ UNCHANGED <<events, scheduled, dlq, ready, dead, resend, queue, batch, inbox, acks>>
    BY <1>12 DEF WorkerCount, Storable
  <2> QED
    BY <2>1 DEF Stored, Travelling, Arrived, AcksOf
<1>13. CASE WorkerStoreFails
  <2>1. /\ later' = {} /\ (batch' = batch \/ batch' = <<>>)
        /\ UNCHANGED <<events, scheduled, dlq, ready, dead, resend, queue, inbox, acks>>
    BY <1>13 DEF WorkerStoreFails
  <2>2. Range(batch') \subseteq Range(batch)
    BY <2>1, NothingInside
  <2> QED
    BY <2>1, <2>2 DEF Stored, Travelling, Arrived, AcksOf
<1>14. CASE PollerPull \/ ReplayPending \/ ReplayDlq \/ ReplayDone \/ DrainBegin
  <2>1. UNCHANGED <<batch, inbox, acks, queue>>
    BY <1>14 DEF PollerPull, ReplayPending, ReplayDlq, ReplayDone, DrainBegin
  <2>2. Stored(e)' \/ e \in resend' => Stored(e) \/ e \in resend
    BY <1>14 DEF PollerPull, ReplayPending, ReplayDlq, ReplayDone, DrainBegin, Stored
  <2> QED
    BY <1>2, <2>1, <2>2
<1>15. ASSUME NEW f \in Events, Elapse(f) \/ PublishBegin(f) \/ PublishFull(f)
       PROVE  Somewhere(e)
  BY <1>1, <1>15 DEF Elapse, PublishBegin, PublishFull
<1>16. ASSUME NEW f \in Events, (PublishSend(f) /\ f # e) \/ PollerSend(f) \/ ReplaySend(f) \/ ReplayDlqSend(f)
       PROVE  Somewhere(e)
  <2>1. /\ queue' = queue \/ queue' = Append(queue, f)
        /\ UNCHANGED <<events, scheduled, dlq, later, batch, inbox, acks>>
        /\ dead' \subseteq dead \cup resend /\ resend' \subseteq resend /\ ready' \subseteq ready
    BY <1>16 DEF PublishSend, PollerSend, ReplaySend, ReplayDlqSend
  <2>2. f = e => Somewhere(e)
    BY <1>16 DEF PollerSend, ReplaySend, ReplayDlqSend, Stored, Travelling
  <2> QED
    BY <1>3, <2>1, <2>2
<1>17. CASE \/ \E group \in Groups : Subscribe(group)
            \/ PollerExit \/ StopBegin \/ DrainDone \/ Rest \/ UNCHANGED vars
  BY <1>1, <1>17 DEF Subscribe, PollerExit, StopBegin, DrainDone, Rest, vars
<1> QED
  BY <1>4, <1>5, <1>6, <1>7, <1>8, <1>9, <1>10, <1>11, <1>12, <1>13, <1>14, <1>15, <1>16, <1>17
     DEF Next, Publish, Worker, Poller, Replay, Stop

\* What becomes of a publish call: its metadata and audience are fixed when it begins, and
\* once its message is sent it does not go back.
LEMMA CallGoesOn ==
  ASSUME TypeInv, [Next]_vars, NEW e \in Events
  PROVE  /\ ~PublishBegin(e) => meta'[e] = meta[e] /\ audience'[e] = audience[e]
         /\ \/ call'[e] = call[e]
            \/ PublishBegin(e) /\ call[e] = "idle" /\ call'[e] \in {"sending", "err"}
            \/ /\ PublishSend(e) /\ call[e] = "sending"
               /\ call'[e] = IF WaitForPersistence /\ e \notin Tries THEN "waiting" ELSE "ok"
            \/ call[e] = "sending" /\ call'[e] = "err"
            \/ /\ WorkerRecv \/ WorkerBreak \/ WorkerStoreFails \/ WorkerDeliver
               /\ call[e] = "waiting" /\ call'[e] = "ok"
            \/ Restart /\ call[e] \in {"sending", "waiting"} /\ call'[e] = "crashed"
<1> USE DEF pollerVars, replayVars, workerVars, controlVars, history, disk
<1> DEFINE Goal ==
      /\ ~PublishBegin(e) => meta'[e] = meta[e] /\ audience'[e] = audience[e]
      /\ \/ call'[e] = call[e]
         \/ PublishBegin(e) /\ call[e] = "idle" /\ call'[e] \in {"sending", "err"}
         \/ /\ PublishSend(e) /\ call[e] = "sending"
            /\ call'[e] = IF WaitForPersistence /\ e \notin Tries THEN "waiting" ELSE "ok"
         \/ call[e] = "sending" /\ call'[e] = "err"
         \/ /\ WorkerRecv \/ WorkerBreak \/ WorkerStoreFails \/ WorkerDeliver
            /\ call[e] = "waiting" /\ call'[e] = "ok"
         \/ Restart /\ call[e] \in {"sending", "waiting"} /\ call'[e] = "crashed"
<1> SUFFICES Goal
  OBVIOUS
<1> HIDE DEF Goal
<1>0. /\ call \in [Events -> {"idle", "sending", "waiting", "ok", "err", "crashed"}]
      /\ meta \in [Events -> Metas] /\ audience \in [Events -> SUBSET Subs]
  BY DEF TypeInv, CallTypes
<1>1. ASSUME UNCHANGED <<call, meta, audience>> PROVE Goal
  BY <1>1 DEF Goal
<1>2. ASSUME NEW S, Confirmed(S) \/ UNCHANGED call, UNCHANGED <<meta, audience>>,
             WorkerRecv \/ WorkerBreak \/ WorkerStoreFails \/ WorkerDeliver
      PROVE  Goal
  <2>1. call'[e] = call[e] \/ (call[e] = "waiting" /\ call'[e] = "ok")
    BY <1>0, <1>2 DEF Confirmed
  <2> QED
    BY <1>2, <2>1 DEF Goal
<1>3. CASE Restart
  <2>1. /\ UNCHANGED <<meta, audience>>
        /\ call'[e] = IF call[e] \in {"sending", "waiting"} THEN "crashed" ELSE call[e]
    BY <1>3 DEF Restart
  <2> QED
    BY <1>3, <2>1 DEF Goal
<1>4. ASSUME NEW f \in Events, PublishBegin(f) PROVE Goal
  <2>1. PICK m \in Metadata[f] : meta' = [meta EXCEPT ![f] = m]
    BY <1>4 DEF PublishBegin
  <2>2. /\ call[f] = "idle" /\ audience' = [audience EXCEPT ![f] = subs]
        /\ call' = [call EXCEPT ![f] = IF stop = "no" /\ is_running THEN "sending" ELSE "err"]
    BY <1>4 DEF PublishBegin
  <2>3. CASE f = e
    <3>1. call'[e] \in {"sending", "err"}
      BY <1>0, <2>2, <2>3
    <3> QED
      BY <1>4, <2>2, <2>3, <3>1 DEF Goal
  <2>4. CASE f # e
    BY <1>0, <2>1, <2>2, <2>4 DEF Goal
  <2> QED
    BY <2>3, <2>4
<1>5. ASSUME NEW f \in Events, PublishSend(f) PROVE Goal
  <2>1. /\ call[f] = "sending" /\ UNCHANGED <<meta, audience>>
        /\ call' = [call EXCEPT ![f] = IF WaitForPersistence /\ f \notin Tries THEN "waiting" ELSE "ok"]
    BY <1>5 DEF PublishSend
  <2>2. CASE f = e
    BY <1>0, <1>5, <2>1, <2>2 DEF Goal
  <2>3. CASE f # e
    BY <1>0, <2>1, <2>3 DEF Goal
  <2> QED
    BY <2>2, <2>3
<1>6. ASSUME NEW f \in Events, PublishFull(f) PROVE Goal
  <2>1. call[f] = "sending" /\ call' = [call EXCEPT ![f] = "err"] /\ UNCHANGED <<meta, audience>>
    BY <1>6 DEF PublishFull
  <2> QED
    BY <1>0, <2>1 DEF Goal
<1>7. CASE WorkerRecv
  <2>1. (Confirmed({Head(queue)}) \/ UNCHANGED call) /\ UNCHANGED <<meta, audience>>
    BY <1>7 DEF WorkerRecv
  <2> QED
    BY <1>2, <1>7, <2>1
<1>8. CASE WorkerBreak
  <2>1. Confirmed(Range(queue)) /\ UNCHANGED <<meta, audience>>
    BY <1>8 DEF WorkerBreak
  <2> QED
    BY <1>2, <1>8, <2>1
<1>9. CASE WorkerStoreFails
  <2>1. (Confirmed(Range(batch)) \/ UNCHANGED call) /\ UNCHANGED <<meta, audience>>
    BY <1>9 DEF WorkerStoreFails
  <2> QED
    BY <1>2, <1>9, <2>1
<1>10. CASE WorkerDeliver
  <2>1. Confirmed({Head(batch)}) /\ UNCHANGED <<meta, audience>>
    BY <1>10 DEF WorkerDeliver
  <2> QED
    BY <1>2, <1>10, <2>1
<1>11. CASE WorkerClosed \/ WorkerCount \/ WorkerStore \/ AckWorker
  BY <1>1, <1>11 DEF WorkerClosed, WorkerCount, WorkerStore, AckWorker, AckApply, AckFails
<1>12. CASE Poller \/ Replay \/ ReplayPending \/ ReplayDlq
  BY <1>1, <1>12 DEF Poller, PollerPull, PollerExit, PollerSend, Replay, ReplayDone, ReplaySend,
     ReplayDlqSend, ReplayPending, ReplayDlq
<1>13. ASSUME NEW s \in Subs, Handler(s) PROVE Goal
  BY <1>1, <1>13 DEF Handler, Handle
<1>14. CASE \/ \E group \in Groups : Subscribe(group)
            \/ \E f \in Events : Elapse(f)
            \/ DrainBegin \/ StopBegin \/ StopAbandoned \/ Stop \/ Rest \/ UNCHANGED vars
  BY <1>1, <1>14 DEF Subscribe, Elapse, DrainBegin, StopBegin, StopAbandoned, Stop, DrainDone, StopDone, Rest, vars
<1>15. ASSUME NEW f \in Events, Elapse(f) \/ PublishBegin(f) \/ Publish(f) PROVE Goal
  BY <1>4, <1>5, <1>6, <1>14, <1>15 DEF Publish
<1>16. CASE Worker
  BY <1>7, <1>8, <1>9, <1>10, <1>11, <1>16 DEF Worker
<1> QED
  BY <1>3, <1>11, <1>12, <1>13, <1>14, <1>15, <1>16 DEF Next

\* Only the worker's transaction adds idempotency keys.
LEMMA OnlyStoreAddsKeys ==
  ASSUME [Next]_vars, ~WorkerStore
  PROVE  UNCHANGED processed_keys
<1> USE DEF disk
<1>1. CASE Restart \/ Rest \/ UNCHANGED vars \/ \E group \in Groups : Subscribe(group)
  BY <1>1 DEF Restart, Rest, vars, Subscribe
<1>2. ASSUME NEW e \in Events, Elapse(e) \/ PublishBegin(e) \/ Publish(e) PROVE UNCHANGED processed_keys
  BY <1>2 DEF Elapse, PublishBegin, Publish, PublishSend, PublishFull
<1>3. ASSUME NEW s \in Subs, Handler(s) PROVE UNCHANGED processed_keys
  BY <1>3 DEF Handler, Handle
<1>4. CASE Worker \/ AckWorker
  BY <1>4 DEF Worker, WorkerRecv, WorkerBreak, WorkerClosed, WorkerCount, WorkerStoreFails, WorkerDeliver,
     AckWorker, AckApply, AckFails
<1>5. CASE Poller \/ ReplayPending \/ ReplayDlq \/ Replay
  BY <1>5 DEF Poller, PollerPull, PollerExit, PollerSend, ReplayPending, ReplayDlq, Replay, ReplayDone,
     ReplaySend, ReplayDlqSend
<1>6. CASE DrainBegin \/ StopBegin \/ StopAbandoned \/ Stop
  BY <1>6 DEF DrainBegin, StopBegin, StopAbandoned, Stop, DrainDone, StopDone
<1> QED
  BY <1>1, <1>2, <1>3, <1>4, <1>5, <1>6 DEF Next

\* Unsent is kept by every step.
LEMMA StepKeepsUnsent ==
  ASSUME TypeInv, Unsent, [Next]_vars
  PROVE  Unsent'
<1> USE DEF pollerVars, replayVars, workerVars, controlVars, history, disk
<1>1. ASSUME NEW e \in Events, call'[e] \in {"idle", "sending", "err"} PROVE ~Somewhere(e)'
  <2>1. call[e] \in {"idle", "sending", "err"}
    BY <1>1, CallGoesOn DEF TypeInv, CallTypes
  <2>2. ~PublishSend(e)
    BY <1>1 DEF PublishSend, TypeInv, CallTypes
  <2> QED
    BY <2>1, <2>2, ComesFromSend DEF Unsent
<1>2. ASSUME NEW e \in Events, call'[e] = "idle" PROVE meta'[e] = Plain
  <2>1. call[e] = "idle" /\ ~PublishBegin(e)
    <3>1. call[e] = "idle"
      BY <1>2, CallGoesOn
    <3>2. PublishBegin(e) => call'[e] # "idle"
      BY DEF PublishBegin, TypeInv, CallTypes
    <3> QED
      BY <1>2, <3>1, <3>2
  <2> QED
    BY <2>1, CallGoesOn DEF Unsent
<1>3. ASSUME NEW k \in processed_keys' PROVE \E e \in Events : meta'[e].key = k
  <2>1. CASE k \in processed_keys
    <3>1. PICK e \in Events : meta[e].key = k
      BY <2>1 DEF Unsent
    <3>2. k # NoKey
      BY <2>1 DEF TypeInv, TableTypes, Keys
    <3>3. call[e] # "idle"
      BY <3>1, <3>2 DEF Unsent, Plain
    <3>4. ~PublishBegin(e)
      BY <3>3 DEF PublishBegin
    <3> QED
      BY <3>1, <3>4, CallGoesOn
  <2>2. CASE k \notin processed_keys
    <3>1. WorkerStore
      BY <1>3, <2>2, OnlyStoreAddsKeys
    <3>2. /\ UNCHANGED meta
          /\ processed_keys' = processed_keys \cup ({meta[e].key : e \in Storable} \ {NoKey})
      BY <3>1 DEF WorkerStore
    <3>3. PICK e \in Storable : meta[e].key = k
      BY <1>3, <2>2, <3>2
    <3>4. e \in Events
      BY RangeOfSeq DEF TypeInv, WorkerTypes, Storable
    <3> QED
      BY <3>2, <3>3, <3>4
  <2> QED
    BY <2>1, <2>2
<1>4. is_running' \/ stop' # "no"
  <2>1. CASE UNCHANGED <<is_running, stop>>
    BY <2>1 DEF Unsent
  <2>2. CASE Restart \/ DrainBegin \/ StopBegin \/ StopAbandoned \/ Stop
    BY <2>2 DEF Restart, DrainBegin, StopBegin, StopAbandoned, Stop, DrainDone, StopDone, Unsent
  <2>3. CASE \/ \E group \in Groups : Subscribe(group)
             \/ \E s \in Subs : Handler(s)
             \/ \E e \in Events : Elapse(e) \/ PublishBegin(e) \/ Publish(e)
             \/ Rest \/ UNCHANGED vars
    BY <2>1, <2>3 DEF Subscribe, Handler, Handle, Elapse, PublishBegin, Publish, PublishSend, PublishFull,
       Rest, vars
  <2>4. CASE Worker \/ AckWorker
    BY <2>1, <2>4 DEF Worker, WorkerRecv, WorkerBreak, WorkerClosed, WorkerCount, WorkerStore, WorkerStoreFails,
       WorkerDeliver, AckWorker, AckApply, AckFails
  <2>5. CASE Poller \/ ReplayPending \/ ReplayDlq \/ Replay
    BY <2>1, <2>5 DEF Poller, PollerPull, PollerExit, PollerSend, ReplayPending, ReplayDlq, Replay, ReplayDone,
       ReplaySend, ReplayDlqSend
  <2> QED
    BY <2>2, <2>3, <2>4, <2>5 DEF Next
<1> QED
  BY <1>1, <1>2, <1>3, <1>4 DEF Unsent

-----------------------------------------------------------------------------
(* What Durable promises stays promised                                    *)

\* What was handled, collected, forsaken or failed stays so.
LEMMA HistoryStays ==
  ASSUME TypeInv, [Next]_vars, NEW e \in Events
  PROVE  /\ \A s \in Subs : handled'[e][s] = 0 => handled[e][s] = 0
         /\ collected \subseteq collected' /\ forsaken \subseteq forsaken'
         /\ disk_failed => disk_failed'
<1> USE DEF pollerVars, replayVars, workerVars, controlVars, history, disk
<1> DEFINE Stays == /\ \A s \in Subs : handled'[e][s] = 0 => handled[e][s] = 0
                    /\ collected \subseteq collected' /\ forsaken \subseteq forsaken'
                    /\ disk_failed => disk_failed'
<1> SUFFICES Stays
  OBVIOUS
<1>1. ASSUME UNCHANGED handled, collected' = collected \/ collected' = collected \cup dead,
             forsaken \subseteq forsaken', disk_failed' = disk_failed \/ disk_failed' = TRUE
      PROVE  Stays
  BY <1>1
<1>2. ASSUME NEW s \in Subs, Handler(s) PROVE Stays
  <2>1. PICK ok \in BOOLEAN : Handle(s, ok)
    BY <1>2 DEF Handler
  <2> DEFINE h == Head(inbox[s])
             n == IF handled[h][s] < Counted(h) THEN handled[h][s] + 1 ELSE handled[h][s]
  <2>2. h \in Events /\ handled' = [handled EXCEPT ![h][s] = n]
    BY <2>1, HandlerTakes
  <2>3. UNCHANGED <<collected, forsaken, disk_failed>>
    BY <2>1 DEF Handle
  <2> HIDE DEF h
  <2>4. handled[h][s] \in 0 .. 2 /\ Counted(h) \in 1 .. 2
    BY <2>2 DEF TypeInv, HandlerTypes, Counted
  <2>5. n # 0
    BY <2>4
  <2> HIDE DEF n
  <2>6. \A t \in Subs : handled'[e][t] = 0 => handled[e][t] = 0
    BY <2>2, <2>5 DEF TypeInv, HandlerTypes
  <2> QED
    BY <2>3, <2>6
<1> HIDE DEF Stays
<1>3. CASE Restart \/ Rest \/ UNCHANGED vars \/ \E group \in Groups : Subscribe(group)
  BY <1>1, <1>3 DEF Restart, Rest, vars, Subscribe
<1>4. ASSUME NEW f \in Events, Elapse(f) \/ PublishBegin(f) \/ Publish(f) PROVE Stays
  BY <1>1, <1>4 DEF Elapse, PublishBegin, Publish, PublishSend, PublishFull
<1>5. CASE Worker \/ AckWorker
  BY <1>1, <1>5 DEF Worker, WorkerRecv, WorkerBreak, WorkerClosed, WorkerCount, WorkerStore, WorkerStoreFails,
     WorkerDeliver, AckWorker, AckApply, AckFails, DiskError
<1>6. CASE Poller \/ ReplayPending \/ ReplayDlq \/ Replay
  BY <1>1, <1>6 DEF Poller, PollerPull, PollerExit, PollerSend, ReplayPending, ReplayDlq, Replay, ReplayDone,
     ReplaySend, ReplayDlqSend, DiskError
<1>7. CASE DrainBegin \/ StopBegin \/ StopAbandoned \/ Stop
  BY <1>1, <1>7 DEF DrainBegin, StopBegin, StopAbandoned, Stop, DrainDone, StopDone
<1> QED
  BY <1>2, <1>3, <1>4, <1>5, <1>6, <1>7 DEF Next

\* An event becomes owed when its publish call begins, and in no other way.
LEMMA OwedBefore ==
  ASSUME TypeInv, Unsent, [Next]_vars, NEW e \in Events, Owed(e)', ~PublishBegin(e)
  PROVE  Owed(e)
<1>1. meta'[e] = meta[e] /\ audience'[e] = audience[e]
  BY CallGoesOn
<1>2. call[e] \in {"sending", "waiting", "ok"}
  <2>1. call'[e] \in {"sending", "waiting", "ok"}
    BY DEF Owed
  <2> QED
    BY <2>1, CallGoesOn
<1>3. ASSUME Contested(e) PROVE Contested(e)'
  <2>1. PICK f \in Events \ {e} : meta[f].key = meta[e].key /\ meta[e].key # NoKey
    BY <1>3 DEF Contested
  <2>2. call[f] # "idle"
    BY <2>1 DEF Unsent, Plain
  <2>3. meta'[f] = meta[f]
    <3>1. ~PublishBegin(f)
      BY <2>2 DEF PublishBegin
    <3> QED
      BY <3>1, CallGoesOn
  <2> QED
    BY <1>1, <2>1, <2>3 DEF Contested
<1>4. /\ \E s \in Subs : handled[e][s] = 0
      /\ e \notin collected \cup forsaken /\ ~disk_failed
  BY HistoryStays DEF Owed
<1> QED
  BY <1>1, <1>2, <1>3, <1>4 DEF Owed

-----------------------------------------------------------------------------
(* Steps that leave an event alone                                         *)

\* No message of e is added, none of its acknowledgements and none of its copies is taken.
Quiet(e) ==
  /\ e \in resend' => e \in resend /\ UNCHANGED replay
  /\ e \in Range(queue') => e \in Range(queue)
  /\ e \in Range(batch') => e \in Range(batch)
  /\ AtMostOnce(queue', e) /\ AtMostOnce(batch', e)
  /\ \A s \in Subs : AtMostOnce(inbox'[s], e) /\ (e \in Range(inbox'[s]) => e \in Range(inbox[s]))
  /\ AcksOf(e)' # {} => AcksOf(e) # {}
  /\ Cardinality(AcksOf(e)') <= Cardinality(AcksOf(e))
  /\ handled'[e] = handled[e] /\ meta'[e] = meta[e] /\ app' = app
  /\ UNCHANGED processed_keys
  /\ \/ UNCHANGED <<subs, stop>> /\ call'[e] = call[e] /\ (e \in Range(batch) => e \in Range(batch'))
     \/ /\ call[e] = "ok" /\ call'[e] = "ok"
        /\ UNCHANGED subs \/ ~Travelling(e)
        /\ UNCHANGED stop \/ stop \notin {"stopped", "abandoned"}
  /\ e \in Range(batch') /\ worker' = "store" => worker = "store" /\ UNCHANGED count
  /\ e \in Range(batch') /\ worker' = "deliver" => worker = "deliver"
  /\ e \in events' <=> e \in events
  /\ refcount'[e] = refcount[e]
  /\ e \notin dlq' \cup scheduled' \cup ready' \cup later'

\* Fewer acknowledgements to wait for count for less.
LEMMA AwaitLess ==
  ASSUME NEW e, Awaited(e)' \subseteq Awaited(e)
  PROVE  Cardinality(Awaited(e)') <= Cardinality(Awaited(e)) /\ Cardinality(Awaited(e)') \in Nat
<1>1. IsFiniteSet(Subs)
  BY RedbConstants
<1>2. Awaited(e) \in SUBSET Subs
  BY DEF Awaited
<1>3. IsFiniteSet(Awaited(e))
  BY <1>1, <1>2, FS_Subset
<1>4. IsFiniteSet(Awaited(e)') /\ Cardinality(Awaited(e)') <= Cardinality(Awaited(e))
  BY <1>3, FS_Subset
<1> QED
  BY <1>4, FS_CardinalityType

\* The counters are numbers.
LEMMA CountersAreNumbers ==
  ASSUME TypeInv, NEW e \in Events
  PROVE  /\ Cardinality(AcksOf(e)) \in Nat /\ refcount[e] \in Nat
         /\ Cardinality(Awaited(e)) \in Nat /\ Cardinality(Awaited(e)) <= Cardinality(Subs)
<1>1. refcount[e] \in Nat
  BY SomeSubs DEF TypeInv, TableTypes, Counters
<1>2. Awaited(e) \in SUBSET Subs
  BY DEF Awaited
<1>3. Cardinality(Awaited(e)) \in Counters
  BY <1>2, SomeSubs
<1> QED
  BY <1>1, <1>3, FewAcks, SomeSubs DEF Counters

\* They are in the next state, too.
LEMMA CountersStayNumbers ==
  ASSUME TypeInv', NEW e \in Events
  PROVE  /\ Cardinality(AcksOf(e)') \in Nat /\ refcount'[e] \in Nat
         /\ Cardinality(Awaited(e)') \in Nat /\ Cardinality(Awaited(e)') <= Cardinality(Subs)
<1>1. refcount'[e] \in Nat
  BY SomeSubs DEF TypeInv, TableTypes, Counters
<1>2. Awaited(e)' \in SUBSET Subs
  BY DEF Awaited
<1>3. Cardinality(Awaited(e)') \in Counters
  BY <1>2, SomeSubs
<1>4. DOMAIN acks' = 1 .. Len(acks') /\ Len(acks') \in Nat
  BY DEF TypeInv, HandlerTypes
<1>5. IsFiniteSet(1 .. Len(acks'))
  BY <1>4, FS_Interval
<1>6. AcksOf(e)' \in SUBSET (1 .. Len(acks'))
  BY <1>4 DEF AcksOf
<1>7. IsFiniteSet(AcksOf(e)')
  BY <1>5, <1>6, FS_Subset
<1>8. Cardinality(AcksOf(e)') \in Nat
  BY <1>7, FS_CardinalityType
<1> QED
  BY <1>1, <1>3, <1>8, SomeSubs DEF Counters

\* A quiet step keeps an event safe.
LEMMA QuietKeepsSafe ==
  ASSUME TypeInv, TypeInv', NEW e \in Events, Safe(e), Quiet(e)
  PROVE  Safe(e)'
<1>1. Travelling(e)' => Travelling(e)
  BY DEF Quiet, Travelling
<1>2. Arrived(e)' => Arrived(e)
  BY DEF Quiet, Arrived
<1>3. OneMessage(e)'
  <2>1. Travelling(e)' => ~Arrived(e)'
    BY <1>1, <1>2 DEF Safe, OneMessage
  <2>2. app' = "fresh" => ~Travelling(e)' /\ ~Arrived(e)'
    BY <1>1, <1>2 DEF Quiet, Safe, OneMessage
  <2>3. /\ e \in resend' => e \notin Range(queue') \cup Range(batch')
        /\ e \in Range(queue') => e \notin Range(batch')
    BY DEF Quiet, Safe, OneMessage
  <2>4. AtMostOnce(queue', e) /\ AtMostOnce(batch', e) /\ \A s \in Subs : AtMostOnce(inbox'[s], e)
    BY DEF Quiet
  <2> QED
    BY <2>1, <2>2, <2>3, <2>4 DEF OneMessage
<1>4. Waits(e)'
  BY DEF Quiet, Safe, Waits
<1>5. Counts(e)'
  <2>1. /\ e \in resend' => replay' = "pending" /\ subs' \in {{}, Subs}
        /\ e \in Range(queue') \cup Range(batch') =>
             subs' = Subs \/ (subs' = {} /\ stop' \in {"stopped", "abandoned"})
    BY DEF Quiet, Safe, Counts, Travelling
  <2>2. worker' = "store" /\ e \in Range(batch') => count' = Cardinality(Subs)
    BY DEF Quiet, Safe, Counts
  <2>3. worker' = "deliver" /\ e \in Range(batch') =>
          e \in events' /\ (refcount'[e] = Cardinality(Subs) \/ subs' = {})
    BY DEF Quiet, Safe, Counts, Travelling
  <2> QED
    BY <2>1, <2>2, <2>3 DEF Counts
<1>6. Covered(e)'
  <2>1. Awaited(e)' \subseteq Awaited(e)
    BY DEF Quiet, Awaited
  <2>2. /\ Cardinality(Awaited(e)') <= Cardinality(Awaited(e))
        /\ Cardinality(AcksOf(e)') <= Cardinality(AcksOf(e))
    BY <2>1, AwaitLess DEF Quiet
  <2>3. /\ Cardinality(AcksOf(e)) \in Nat /\ Cardinality(Awaited(e)) \in Nat /\ refcount[e] \in Nat
        /\ Cardinality(AcksOf(e)') \in Nat /\ Cardinality(Awaited(e)') \in Nat
    BY <2>1, AwaitLess, CountersAreNumbers, CountersStayNumbers
  <2>4. e \in events' => Cardinality(AcksOf(e)') + Cardinality(Awaited(e)') <= refcount'[e]
    BY <2>2, <2>3 DEF Quiet, Safe, Covered
  <2>5. (call'[e] = "ok" => e \in events') /\ e \notin dlq' \cup scheduled' \cup ready' \cup later'
    BY DEF Quiet, Safe, Covered
  <2> QED
    BY <2>4, <2>5 DEF Covered
<1> QED
  BY <1>3, <1>4, <1>5, <1>6 DEF Safe

\* Nothing of e is in a channel that changes by another event.
LEMMA OtherMoves ==
  ASSUME NEW e, NEW f \in Events, f # e, NEW q \in Seq(Events), NEW r, AtMostOnce(q, e),
         \/ r = q \/ r = Append(q, f) \/ r = <<>>
         \/ q # <<>> /\ r = Tail(q)
  PROVE  /\ e \in Range(r) => e \in Range(q)
         /\ AtMostOnce(r, e)
<1>1. CASE r = Append(q, f)
  BY <1>1, AppendElements, AppendOnce
<1>2. CASE q # <<>> /\ r = Tail(q)
  <2>1. Range(q) = {Head(q)} \cup Range(Tail(q)) /\ AtMostOnce(Tail(q), e)
    BY <1>2, TailElements, TailOnce
  <2> QED
    BY <1>2, <2>1
<1>3. CASE r = <<>>
  <2>1. e \notin Range(r)
    BY <1>3, NothingInside
  <2> QED
    BY <2>1, AbsentOnce
<1> QED
  BY <1>1, <1>2, <1>3

\* Neither is anything of e handled, nor acknowledged.
LEMMA HandlersQuiet ==
  ASSUME TypeInv, NEW e \in Events, Safe(e), UNCHANGED <<inbox, acks>>
  PROVE  /\ \A s \in Subs : AtMostOnce(inbox'[s], e) /\ (e \in Range(inbox'[s]) => e \in Range(inbox[s]))
         /\ AcksOf(e)' # {} => AcksOf(e) # {}
         /\ Cardinality(AcksOf(e)') <= Cardinality(AcksOf(e))
<1>1. AcksOf(e)' = AcksOf(e)
  BY DEF AcksOf
<1>2. Cardinality(AcksOf(e)) \in Nat
  BY FewAcks
<1> QED
  BY <1>1, <1>2 DEF Safe, OneMessage

\* The steps around an event that touch no channel.
LEMMA ChannelsUntouched ==
  ASSUME TypeInv, NEW e \in Events, Owed(e), Owed(e)', Safe(e),
         \/ \E f \in Events : Elapse(f) \/ (f # e /\ (PublishBegin(f) \/ PublishFull(f)))
         \/ \E group \in Groups : Subscribe(group)
         \/ WorkerClosed \/ PollerPull \/ PollerExit \/ ReplayDlq \/ ReplayDone
         \/ DrainBegin \/ StopBegin \/ DrainDone \/ UNCHANGED vars
  PROVE  Quiet(e)
<1> USE DEF pollerVars, replayVars, workerVars, controlVars, history, disk
<1>1. /\ UNCHANGED <<queue, batch, inbox, acks, handled, count>>
      /\ worker' = worker \/ worker' = "exited"
  BY DEF Elapse, PublishBegin, PublishFull, Subscribe, WorkerClosed, PollerPull, PollerExit, ReplayDlq,
     ReplayDone, DrainBegin, StopBegin, DrainDone, vars
<1>2. /\ \A s \in Subs : AtMostOnce(inbox'[s], e) /\ (e \in Range(inbox'[s]) => e \in Range(inbox[s]))
      /\ AcksOf(e)' # {} => AcksOf(e) # {}
      /\ Cardinality(AcksOf(e)') <= Cardinality(AcksOf(e))
  BY <1>1, HandlersQuiet
<1>3. AtMostOnce(queue, e) /\ AtMostOnce(batch, e) /\ e \notin dlq \cup scheduled \cup ready \cup later
  BY DEF Safe, OneMessage, Covered
<1>4. /\ UNCHANGED <<app, processed_keys, later>>
      /\ e \in resend' => e \in resend /\ UNCHANGED replay
      /\ e \notin dlq' \cup scheduled' \cup ready'
  <2>1. UNCHANGED <<app, processed_keys, later>>
    BY DEF Elapse, PublishBegin, PublishFull, Subscribe, WorkerClosed, PollerPull, PollerExit, ReplayDlq,
       ReplayDone, DrainBegin, StopBegin, DrainDone, vars
  <2>2. e \in resend' => e \in resend /\ UNCHANGED replay
    BY <1>3 DEF Elapse, PublishBegin, PublishFull, Subscribe, WorkerClosed, PollerPull, PollerExit, ReplayDlq,
       ReplayDone, DrainBegin, StopBegin, DrainDone, vars
  <2>3. e \notin dlq' \cup scheduled' \cup ready'
    BY <1>3 DEF Elapse, PublishBegin, PublishFull, Subscribe, WorkerClosed, PollerPull, PollerExit, ReplayDlq,
       ReplayDone, DrainBegin, StopBegin, DrainDone, vars
  <2> QED
    BY <2>1, <2>2, <2>3
<1>5. meta'[e] = meta[e] /\ call'[e] = call[e]
  BY DEF Elapse, PublishBegin, PublishFull, Subscribe, WorkerClosed, PollerPull, PollerExit, ReplayDlq,
     ReplayDone, DrainBegin, StopBegin, DrainDone, vars, TypeInv, CallTypes
<1>6. (e \in events' <=> e \in events) /\ refcount'[e] = refcount[e]
  <2>1. CASE UNCHANGED <<events, refcount>>
    BY <2>1
  <2>2. CASE ReplayDone /\ ~UNCHANGED <<events, refcount>>
    <3>1. /\ events' = events \ dead /\ collected' = collected \cup dead
          /\ refcount' = [x \in Events |-> IF x \in dead THEN 0 ELSE refcount[x]]
      BY <2>2 DEF ReplayDone
    <3>2. e \notin dead
      BY <3>1 DEF Owed
    <3> QED
      BY <3>1, <3>2
  <2> QED
    BY <2>1, <2>2 DEF Elapse, PublishBegin, PublishFull, Subscribe, WorkerClosed, PollerPull, PollerExit,
       ReplayDlq, DrainBegin, StopBegin, DrainDone, vars
<1>7. \/ UNCHANGED <<subs, stop>>
      \/ call[e] = "ok" /\ (UNCHANGED subs \/ ~Travelling(e)) /\ (UNCHANGED stop \/ stop \notin {"stopped", "abandoned"})
  <2>1. CASE DrainBegin \/ StopBegin
    <3>1. ~Reading /\ stop = "no" /\ UNCHANGED subs
      BY <2>1 DEF DrainBegin, StopBegin
    <3>2. call[e] = "ok"
      BY <3>1 DEF Reading, Owed
    <3> QED
      BY <3>1, <3>2
  <2>2. CASE DrainDone
    <3>1. stop = "draining" /\ UNCHANGED subs
      BY <2>2 DEF DrainDone
    <3>2. call[e] = "ok"
      BY <3>1 DEF Safe, Waits, Owed
    <3> QED
      BY <3>1, <3>2
  <2>3. ASSUME NEW group \in Groups, Subscribe(group)
        PROVE  call[e] = "ok" /\ ~Travelling(e) /\ UNCHANGED stop
    <3>1. /\ stop = "no" /\ replay # "pending" /\ ~(group \subseteq subs) /\ UNCHANGED stop
          /\ group \subseteq Subs
      BY <2>3, RedbConstants DEF Subscribe
    <3>2. subs # Subs
      BY <3>1
    <3>3. ~Travelling(e)
      BY <3>1, <3>2 DEF Safe, Counts, Travelling
    <3> QED
      BY <3>1, <3>2, <3>3 DEF Safe, Waits, Owed
  <2>4. CASE \/ \E f \in Events : Elapse(f) \/ PublishBegin(f) \/ PublishFull(f)
             \/ WorkerClosed \/ PollerPull \/ PollerExit \/ ReplayDlq \/ ReplayDone \/ UNCHANGED vars
    BY <2>4 DEF Elapse, PublishBegin, PublishFull, WorkerClosed, PollerPull, PollerExit, ReplayDlq,
       ReplayDone, vars
  <2> QED
    BY <2>1, <2>2, <2>3, <2>4
<1> QED
  BY <1>1, <1>2, <1>3, <1>4, <1>5, <1>6, <1>7 DEF Quiet

\* Another event is queued.
LEMMA OtherQueued ==
  ASSUME TypeInv, NEW e \in Events, Owed(e), Safe(e), NEW f \in Events,
         PublishSend(f) \/ PollerSend(f) \/ ReplaySend(f) \/ ReplayDlqSend(f), f # e
  PROVE  Quiet(e)
<1> USE DEF pollerVars, replayVars, workerVars, controlVars, history, disk
<1>1. /\ queue' = queue \/ queue' = Append(queue, f)
      /\ UNCHANGED <<batch, inbox, acks, handled, count, worker, app, processed_keys, later, subs, stop, meta,
                     events, refcount, dlq, scheduled>>
      /\ resend' \subseteq resend /\ ready' \subseteq ready /\ UNCHANGED replay
  BY DEF PublishSend, PollerSend, ReplaySend, ReplayDlqSend
<1>2. call'[e] = call[e]
  BY DEF PublishSend, PollerSend, ReplaySend, ReplayDlqSend, TypeInv, CallTypes
<1>3. AtMostOnce(queue, e) /\ AtMostOnce(batch, e) /\ e \notin dlq \cup scheduled \cup ready \cup later
  BY DEF Safe, OneMessage, Covered
<1>4. (e \in Range(queue') => e \in Range(queue)) /\ AtMostOnce(queue', e)
  BY <1>1, <1>3, OtherMoves DEF TypeInv, WorkerTypes
<1>5. /\ \A s \in Subs : AtMostOnce(inbox'[s], e) /\ (e \in Range(inbox'[s]) => e \in Range(inbox[s]))
      /\ AcksOf(e)' # {} => AcksOf(e) # {}
      /\ Cardinality(AcksOf(e)') <= Cardinality(AcksOf(e))
  BY <1>1, HandlersQuiet
<1> QED
  BY <1>1, <1>2, <1>3, <1>4, <1>5 DEF Quiet

\* An owed event whose publish call has not returned is not taken for a duplicate.
LEMMA NoDuplicate ==
  ASSUME TypeInv, Unsent, NEW e \in Events, Owed(e), Safe(e), e \in Range(queue), IsDuplicate(e)
  PROVE  call[e] = "ok"
<1>1. e \notin Range(batch)
  BY DEF Safe, OneMessage
<1>2. call[e] # "sending"
  BY DEF Unsent, Somewhere, Travelling
<1>3. ASSUME call[e] = "waiting" PROVE FALSE
  <2>1. meta[e].key \notin processed_keys
    BY <1>1, <1>3 DEF Safe, Waits
  <2>2. PICK i \in DOMAIN batch : meta[batch[i]].key = meta[e].key /\ meta[e].key # NoKey
    BY <2>1 DEF IsDuplicate
  <2>3. batch[i] \in Events /\ batch[i] # e
    BY <1>1 DEF TypeInv, WorkerTypes, Range
  <2> QED
    BY <2>2, <2>3 DEF Owed, Contested
<1> QED
  BY <1>2, <1>3 DEF Owed

\* The worker takes something else from the queue, or a duplicate.
LEMMA OtherReceived ==
  ASSUME TypeInv, Unsent, NEW e \in Events, Owed(e), Safe(e),
         WorkerBreak \/ (WorkerRecv /\ (Head(queue) # e \/ IsDuplicate(e)))
  PROVE  Quiet(e)
<1> USE DEF pollerVars, replayVars, workerVars, controlVars, history, disk
<1>1. /\ UNCHANGED <<inbox, acks, handled, count, app, processed_keys, later, subs, stop, meta,
                     events, refcount, dlq, scheduled, resend, replay, ready>>
      /\ worker' \in {"drain", "exited"} /\ queue # <<>>
  BY DEF WorkerBreak, WorkerRecv
<1>2. /\ AtMostOnce(queue, e) /\ AtMostOnce(batch, e) /\ e \notin dlq \cup scheduled \cup ready \cup later
      /\ queue \in Seq(Events) /\ batch \in Seq(Events)
  BY DEF Safe, OneMessage, Covered, TypeInv, WorkerTypes
<1>3. /\ \A s \in Subs : AtMostOnce(inbox'[s], e) /\ (e \in Range(inbox'[s]) => e \in Range(inbox[s]))
      /\ AcksOf(e)' # {} => AcksOf(e) # {}
      /\ Cardinality(AcksOf(e)') <= Cardinality(AcksOf(e))
  BY <1>1, HandlersQuiet
<1>4. /\ Head(queue) \in Events /\ Range(queue) = {Head(queue)} \cup Range(Tail(queue))
      /\ AtMostOnce(Tail(queue), e)
  BY <1>1, <1>2, TailElements, TailOnce
<1>5. CASE WorkerBreak
  <2>1. queue' = <<>> /\ UNCHANGED batch /\ ~is_running /\ Confirmed(Range(queue))
    BY <1>5 DEF WorkerBreak
  <2>2. call[e] = "ok" /\ call'[e] = "ok"
    BY <2>1 DEF Unsent, Safe, Waits, Owed, Confirmed
  <2>3. e \notin Range(queue') /\ AtMostOnce(queue', e)
    BY <2>1, NothingInside, AbsentOnce
  <2> QED
    BY <1>1, <1>2, <1>3, <2>1, <2>2, <2>3 DEF Quiet
<1>6. CASE WorkerRecv /\ Head(queue) = e /\ IsDuplicate(e)
  <2>1. queue' = Tail(queue) /\ UNCHANGED batch /\ Confirmed({e})
    BY <1>6 DEF WorkerRecv
  <2>2. call[e] = "ok"
    BY <1>4, <1>6, NoDuplicate
  <2>3. call'[e] = "ok"
    BY <2>1, <2>2 DEF Confirmed
  <2> QED
    BY <1>1, <1>2, <1>3, <1>4, <2>1, <2>2, <2>3 DEF Quiet
<1>7. CASE WorkerRecv /\ Head(queue) # e
  <2> DEFINE h == Head(queue)
  <2>1. queue' = Tail(queue) /\ (UNCHANGED call \/ Confirmed({h})) /\ (batch' = batch \/ batch' = Append(batch, h))
    BY <1>7 DEF WorkerRecv
  <2>2. call'[e] = call[e]
    BY <1>7, <2>1 DEF Confirmed
  <2>3. (e \in Range(batch') => e \in Range(batch)) /\ AtMostOnce(batch', e)
    BY <1>2, <1>4, <1>7, <2>1, OtherMoves
  <2>4. e \in Range(batch) => e \in Range(batch')
    <3>1. Range(Append(batch, h)) = Range(batch) \cup {h}
      BY <1>2, <1>4, AppendElements
    <3> QED
      BY <2>1, <3>1
  <2> QED
    BY <1>1, <1>2, <1>3, <1>4, <2>1, <2>2, <2>3, <2>4 DEF Quiet
<1> QED
  BY <1>5, <1>6, <1>7

\* The worker delivers something else.
LEMMA OtherDelivered ==
  ASSUME TypeInv, NEW e \in Events, Owed(e), Safe(e), WorkerDeliver, Head(batch) # e
  PROVE  Quiet(e)
<1> USE DEF pollerVars, replayVars, workerVars, controlVars, history, disk
<1> DEFINE h == Head(batch)
<1>1. /\ UNCHANGED <<acks, handled, count, app, processed_keys, later, subs, stop, meta,
                     events, refcount, dlq, scheduled, resend, replay, ready, queue>>
      /\ worker = "deliver" /\ worker' # "store" /\ batch' = Tail(batch) /\ Confirmed({h}) /\ batch # <<>>
  BY DEF WorkerDeliver, TypeInv, WorkerTypes
<1>2. PICK sent : inbox' = [s \in Subs |-> IF s \in sent THEN Append(inbox[s], h) ELSE inbox[s]]
  BY DEF WorkerDeliver
<1>3. /\ AtMostOnce(queue, e) /\ AtMostOnce(batch, e) /\ e \notin dlq \cup scheduled \cup ready \cup later
      /\ batch \in Seq(Events) /\ \A s \in Subs : inbox[s] \in Seq(Events) /\ AtMostOnce(inbox[s], e)
  BY DEF Safe, OneMessage, Covered, TypeInv, WorkerTypes, HandlerTypes
<1>4. h \in Events /\ Range(batch) = {h} \cup Range(Tail(batch)) /\ AtMostOnce(Tail(batch), e)
  BY <1>1, <1>3, TailElements, TailOnce
<1> HIDE DEF h
<1>5. h # e
  BY DEF h
<1>6. \A s \in Subs : AtMostOnce(inbox'[s], e) /\ (e \in Range(inbox'[s]) => e \in Range(inbox[s]))
  <2> TAKE s \in Subs
  <2>1. inbox'[s] = inbox[s] \/ inbox'[s] = Append(inbox[s], h)
    BY <1>2
  <2> QED
    BY <1>3, <1>4, <1>5, <2>1, OtherMoves
<1>7. AcksOf(e)' = AcksOf(e) /\ Cardinality(AcksOf(e)) \in Nat
  BY <1>1, FewAcks DEF AcksOf
<1>8. call'[e] = call[e]
  BY <1>1, <1>5 DEF Confirmed
<1>9. e \in Range(batch') <=> e \in Range(batch)
  BY <1>1, <1>4, <1>5
<1> QED
  BY <1>1, <1>3, <1>4, <1>6, <1>7, <1>8, <1>9 DEF Quiet

\* A handler is done with something else.
LEMMA OtherHandled ==
  ASSUME TypeInv, NEW e \in Events, Owed(e), Safe(e), NEW s \in Subs, NEW ok \in BOOLEAN, Handle(s, ok),
         Head(inbox[s]) # e
  PROVE  Quiet(e)
<1> USE DEF pollerVars, replayVars, workerVars, controlVars, history, disk
<1> DEFINE h == Head(inbox[s])
           a == [event |-> h, success |-> ok]
           n == IF handled[h][s] < Counted(h) THEN handled[h][s] + 1 ELSE handled[h][s]
<1>1. /\ h \in Events /\ inbox[s] \in Seq(Events) /\ inbox[s] # <<>>
      /\ acks' = Append(acks, a) /\ inbox' = [inbox EXCEPT ![s] = Tail(inbox[s])]
      /\ handled' = [handled EXCEPT ![h][s] = n]
  BY HandlerTakes
<1>2. UNCHANGED <<count, app, processed_keys, later, subs, stop, meta, events, refcount, dlq, scheduled,
                  resend, replay, ready, queue, batch, worker, call>>
  BY DEF Handle
<1>3. /\ AtMostOnce(queue, e) /\ AtMostOnce(batch, e) /\ e \notin dlq \cup scheduled \cup ready \cup later
      /\ \A t \in Subs : inbox[t] \in Seq(Events) /\ AtMostOnce(inbox[t], e)
  BY DEF Safe, OneMessage, Covered, TypeInv, HandlerTypes
<1>4. a \in Acks /\ a.event # e
  BY <1>1 DEF Acks
<1>5. AcksOf(e)' = AcksOf(e) /\ Cardinality(AcksOf(e)) \in Nat
  BY <1>1, <1>4, AckSent, FewAcks
<1> HIDE DEF n, a
<1>6. handled'[e] = handled[e]
  BY <1>1 DEF TypeInv, HandlerTypes
<1>7. \A t \in Subs : AtMostOnce(inbox'[t], e) /\ (e \in Range(inbox'[t]) => e \in Range(inbox[t]))
  <2> TAKE t \in Subs
  <2>1. inbox'[t] = inbox[t] \/ (t = s /\ inbox'[t] = Tail(inbox[t]))
    BY <1>1 DEF TypeInv, HandlerTypes
  <2> QED
    BY <1>1, <1>3, <2>1, OtherMoves
<1> QED
  BY <1>2, <1>3, <1>5, <1>6, <1>7 DEF Quiet

\* Something else is acknowledged.
LEMMA OtherAcknowledged ==
  ASSUME TypeInv, NEW e \in Events, Owed(e), Safe(e), AckApply, Head(acks).event # e
  PROVE  Quiet(e)
<1> USE DEF pollerVars, replayVars, workerVars, controlVars, history, disk
<1> DEFINE h == Head(acks).event
<1>1. /\ acks # <<>> /\ acks' = Tail(acks)
      /\ refcount' = [refcount EXCEPT ![h] = IF @ = 0 THEN 0 ELSE @ - 1]
      /\ events' = events \/ events' = events \ {h}
      /\ dlq' = dlq \/ dlq' = dlq \cup {h}
      /\ UNCHANGED <<count, app, processed_keys, later, subs, stop, meta, scheduled, inbox, handled,
                     resend, replay, ready, queue, batch, worker, call>>
  BY DEF AckApply
<1>2. /\ AtMostOnce(queue, e) /\ AtMostOnce(batch, e) /\ e \notin dlq \cup scheduled \cup ready \cup later
      /\ \A s \in Subs : AtMostOnce(inbox[s], e)
  BY DEF Safe, OneMessage, Covered
<1>3. refcount'[e] = refcount[e] /\ (e \in events' <=> e \in events) /\ e \notin dlq'
  BY <1>1, <1>2 DEF TypeInv, TableTypes
<1>4. (AcksOf(e)' # {} => AcksOf(e) # {}) /\ Cardinality(AcksOf(e)') <= Cardinality(AcksOf(e))
  BY <1>1, AckTaken
<1> QED
  BY <1>1, <1>2, <1>3, <1>4 DEF Quiet

-----------------------------------------------------------------------------
(* Steps with the event itself                                             *)

\* A crash, or the end of the handlers, leaves what is in the tables.
LEMMA EndKeepsSafe ==
  ASSUME TypeInv, TypeInv', NEW e \in Events, Owed(e), Owed(e)', Safe(e),
         Restart \/ StopDone \/ StopAbandoned
  PROVE  Safe(e)'
<1> USE DEF pollerVars, replayVars, workerVars, controlVars, history, disk
<1>1. /\ UNCHANGED <<events, refcount, scheduled, dlq, processed_keys, handled, meta>>
      /\ inbox' = [s \in Subs |-> <<>>]
  BY DEF Restart, StopDone, StopAbandoned
<1>2. \A s \in Subs : e \notin Range(inbox'[s]) /\ AtMostOnce(inbox'[s], e)
  BY <1>1, NothingInside, AbsentOnce
<1>3. call[e] = "ok" /\ call'[e] = "ok"
  <2>1. CASE Restart
    BY <2>1 DEF Restart, Owed
  <2>2. CASE StopDone
    BY <2>2 DEF StopDone, Safe, Waits, Owed
  <2>3. CASE StopAbandoned
    BY <2>3 DEF StopAbandoned, Owed
  <2> QED
    BY <2>1, <2>2, <2>3
<1>4. acks' = acks \/ acks' = <<>>
  BY DEF Restart, StopDone, StopAbandoned
<1>5. (AcksOf(e)' # {} => AcksOf(e) # {}) /\ Cardinality(AcksOf(e)') <= Cardinality(AcksOf(e))
  <2>1. AcksOf(e)' = AcksOf(e) \/ AcksOf(e)' = {}
    BY <1>4 DEF AcksOf
  <2>2. Cardinality({}) = 0 /\ Cardinality(AcksOf(e)) \in Nat
    BY FS_EmptySet, FewAcks
  <2> QED
    BY <2>1, <2>2
<1>6. Covered(e)'
  <2>1. Awaited(e)' \subseteq Awaited(e)
    BY <1>1, <1>2 DEF Awaited
  <2>2. /\ Cardinality(Awaited(e)') <= Cardinality(Awaited(e))
        /\ Cardinality(AcksOf(e)) \in Nat /\ Cardinality(Awaited(e)) \in Nat /\ refcount[e] \in Nat
        /\ Cardinality(AcksOf(e)') \in Nat /\ Cardinality(Awaited(e)') \in Nat
    BY <2>1, AwaitLess, CountersAreNumbers, CountersStayNumbers
  <2>3. e \in events' => Cardinality(AcksOf(e)') + Cardinality(Awaited(e)') <= refcount'[e]
    BY <1>1, <1>5, <2>2 DEF Safe, Covered
  <2>4. e \in events' /\ e \notin dlq' \cup scheduled' \cup ready' \cup later'
    BY <1>3 DEF Safe, Covered, Restart, StopDone, StopAbandoned
  <2> QED
    BY <2>3, <2>4 DEF Covered
<1>7. Waits(e)'
  BY <1>3 DEF Waits
<1>8. CASE Restart
  <2>1. queue' = <<>> /\ batch' = <<>> /\ resend' = {} /\ acks' = <<>>
    BY <1>8 DEF Restart
  <2>2. e \notin Range(queue') /\ e \notin Range(batch') /\ AtMostOnce(queue', e) /\ AtMostOnce(batch', e)
    BY <2>1, NothingInside, AbsentOnce
  <2>3. ~Travelling(e)' /\ ~Arrived(e)'
    BY <1>2, <2>1, <2>2 DEF Travelling, Arrived, AcksOf
  <2>4. OneMessage(e)'
    BY <1>2, <2>1, <2>2, <2>3 DEF OneMessage
  <2>5. Counts(e)'
    BY <2>1, <2>2 DEF Counts
  <2> QED
    BY <1>6, <1>7, <2>4, <2>5 DEF Safe
<1>9. CASE StopDone \/ StopAbandoned
  <2>1. /\ UNCHANGED <<queue, batch, resend, replay, app, worker, count>>
        /\ subs' = {} /\ stop' \in {"stopped", "abandoned"}
    BY <1>9 DEF StopDone, StopAbandoned
  <2>2. (Travelling(e)' => Travelling(e)) /\ (Arrived(e)' => Arrived(e))
    BY <1>2, <1>5, <2>1 DEF Travelling, Arrived
  <2>3. OneMessage(e)'
    BY <1>2, <2>1, <2>2 DEF OneMessage, Safe
  <2>4. Counts(e)'
    BY <1>1, <2>1 DEF Safe, Counts, Travelling
  <2> QED
    BY <1>6, <1>7, <2>3, <2>4 DEF Safe
<1> QED
  BY <1>8, <1>9

\* A publish call begins.
LEMMA PublishBeginMakesSafe ==
  ASSUME TypeInv, Unsent, NEW e \in Events, Owed(e)', PublishBegin(e)
  PROVE  Safe(e)'
<1> USE DEF pollerVars, replayVars, workerVars, controlVars, history, disk
<1>1. /\ call[e] = "idle" /\ app = "replayed" /\ audience' = [audience EXCEPT ![e] = subs]
      /\ call' = [call EXCEPT ![e] = IF stop = "no" /\ is_running THEN "sending" ELSE "err"]
      /\ UNCHANGED <<events, refcount, scheduled, dlq, processed_keys, handled, inbox, acks, queue, batch,
                     resend, later, ready, app, subs, stop>>
  BY DEF PublishBegin
<1>2. call'[e] = "sending" /\ stop = "no" /\ subs = Subs
  <2>1. /\ audience'[e] = subs
        /\ call'[e] = IF stop = "no" /\ is_running THEN "sending" ELSE "err"
    BY <1>1 DEF TypeInv, CallTypes
  <2> QED
    BY <2>1 DEF Owed
<1>3. ~Somewhere(e)
  BY <1>1 DEF Unsent
<1>4. /\ e \notin Range(queue) /\ e \notin Range(batch) /\ AcksOf(e)' = AcksOf(e)
      /\ ~Travelling(e)' /\ ~Arrived(e)' /\ \A s \in Subs : e \notin Range(inbox[s])
  BY <1>1, <1>3 DEF Somewhere, Travelling, Arrived, AcksOf
<1>5. OneMessage(e)'
  BY <1>1, <1>4, AbsentOnce DEF OneMessage
<1>6. Waits(e)'
  <2>1. ASSUME meta'[e].key \in processed_keys PROVE FALSE
    <3>1. PICK f \in Events : meta[f].key = meta'[e].key
      BY <2>1 DEF Unsent
    <3>2. meta'[e].key # NoKey
      BY <2>1 DEF TypeInv, TableTypes, Keys
    <3>3. meta[e].key = NoKey
      BY <1>1 DEF Unsent, Plain
    <3>4. f # e
      BY <3>1, <3>2, <3>3
    <3>5. PICK m : meta' = [meta EXCEPT ![e] = m]
      BY DEF PublishBegin
    <3>6. meta'[f] = meta[f]
      BY <3>4, <3>5 DEF TypeInv, CallTypes
    <3> QED
      BY <3>1, <3>2, <3>4, <3>6 DEF Owed, Contested
  <2> QED
    BY <1>1, <1>2, <2>1 DEF Waits
<1>7. Counts(e)'
  BY <1>4 DEF Counts, Travelling
<1>8. Covered(e)'
  BY <1>1, <1>2, <1>3 DEF Covered, Somewhere, Stored
<1> QED
  BY <1>5, <1>6, <1>7, <1>8 DEF Safe

\* The message of e moves on to the worker.
LEMMA MessageMoves ==
  ASSUME TypeInv, NEW e \in Events, Safe(e), ~Arrived(e), app # "fresh",
         UNCHANGED <<inbox, acks, handled, events, refcount, dlq, scheduled, ready, later, subs, stop,
                     meta, processed_keys, app>>,
         e \in Range(queue') \cup Range(batch') =>
           subs = Subs \/ (subs = {} /\ stop \in {"stopped", "abandoned"}),
         e \notin resend',
         e \in Range(queue') => e \notin Range(batch'),
         AtMostOnce(queue', e), AtMostOnce(batch', e), e \in Range(batch) => e \in Range(batch'),
         e \in Range(batch') => worker' \notin {"store", "deliver"},
         call'[e] = call[e] \/ (call[e] = "sending" /\ call'[e] = "waiting")
  PROVE  Safe(e)'
<1>1. AcksOf(e)' = AcksOf(e) /\ Awaited(e)' = Awaited(e) /\ ~Arrived(e)'
  BY DEF AcksOf, Awaited, Arrived
<1>2. OneMessage(e)'
  BY <1>1 DEF Safe, OneMessage
<1>3. Waits(e)'
  BY DEF Safe, Waits
<1>4. Counts(e)'
  BY DEF Safe, Counts
<1>5. Covered(e)'
  BY <1>1 DEF Safe, Covered
<1> QED
  BY <1>2, <1>3, <1>4, <1>5 DEF Safe

\* A publish call puts its message into the queue.
LEMMA PublishSendKeepsSafe ==
  ASSUME TypeInv, Unsent, NEW e \in Events, Owed(e), Owed(e)', Safe(e), PublishSend(e)
  PROVE  Safe(e)'
<1> USE DEF pollerVars, replayVars, workerVars, controlVars, history, disk
<1>1. /\ call[e] = "sending" /\ queue' = Append(queue, e)
      /\ call' = [call EXCEPT ![e] = IF WaitForPersistence /\ e \notin Tries THEN "waiting" ELSE "ok"]
      /\ UNCHANGED <<inbox, acks, handled, events, refcount, dlq, scheduled, ready, later, subs, stop,
                     meta, processed_keys, app, resend, batch>>
  BY DEF PublishSend
<1>2. call'[e] = "waiting"
  BY <1>1 DEF Owed, TypeInv, CallTypes
<1>3. subs = Subs /\ app # "fresh"
  BY <1>1 DEF Safe, Waits
<1>4. ~Travelling(e) /\ ~Arrived(e)
  BY <1>1 DEF Unsent, Somewhere
<1>5. e \notin resend /\ e \notin Range(queue) /\ e \notin Range(batch)
  BY <1>4 DEF Travelling
<1>6. AtMostOnce(queue', e) /\ AtMostOnce(batch', e)
  <2>1. queue \in Seq(Events) /\ AtMostOnce(queue, e)
    BY <1>5, AbsentOnce DEF TypeInv, WorkerTypes
  <2>2. AtMostOnce(Append(queue, e), e)
    BY <1>5, <2>1, AppendOnce
  <2> QED
    BY <1>1, <1>5, <2>2, AbsentOnce
<1>7. e \notin Range(batch') /\ e \notin resend'
  BY <1>1, <1>5
<1> QED
  BY <1>1, <1>2, <1>3, <1>4, <1>6, <1>7, MessageMoves

\* The worker takes the message into its batch.
LEMMA ReceiveKeepsSafe ==
  ASSUME TypeInv, NEW e \in Events, Safe(e), WorkerRecv, Head(queue) = e, ~IsDuplicate(e)
  PROVE  Safe(e)'
<1> USE DEF pollerVars, replayVars, workerVars, controlVars, history, disk
<1>1. /\ queue # <<>> /\ queue' = Tail(queue) /\ batch' = Append(batch, e) /\ worker' = "drain"
      /\ UNCHANGED <<inbox, acks, handled, events, refcount, dlq, scheduled, ready, later, subs, stop,
                     meta, processed_keys, app, resend, call>>
  BY DEF WorkerRecv
<1>2. /\ queue \in Seq(Events) /\ batch \in Seq(Events)
      /\ AtMostOnce(queue, e) /\ AtMostOnce(batch, e)
  BY DEF TypeInv, WorkerTypes, Safe, OneMessage
<1>3. /\ e \in Range(queue) /\ e \notin Range(Tail(queue)) /\ AtMostOnce(Tail(queue), e)
  BY <1>1, <1>2, TailElements, TailOnce
<1>4. Travelling(e)
  BY <1>3 DEF Travelling
<1>5. e \notin Range(batch) /\ e \notin resend /\ ~Arrived(e) /\ app # "fresh"
  BY <1>3, <1>4 DEF Safe, OneMessage
<1>6. subs = Subs \/ (subs = {} /\ stop \in {"stopped", "abandoned"})
  BY <1>3 DEF Safe, Counts
<1>7. AtMostOnce(Append(batch, e), e)
  BY <1>2, <1>5, AppendOnce
<1>8. e \notin Range(queue') /\ e \notin resend' /\ AtMostOnce(queue', e) /\ AtMostOnce(batch', e)
  BY <1>1, <1>3, <1>5, <1>7
<1>9. worker' \notin {"store", "deliver"}
  BY <1>1
<1> QED
  BY <1>1, <1>5, <1>6, <1>8, <1>9, MessageMoves

\* A replay sends the message again, or finds no subscription for it.
LEMMA ReplaySendKeepsSafe ==
  ASSUME TypeInv, NEW e \in Events, Safe(e), ReplaySend(e) \/ ReplayDlqSend(e)
  PROVE  Safe(e)'
<1> USE DEF pollerVars, replayVars, workerVars, controlVars, history, disk
<1>1. /\ e \in resend /\ queue' \in {queue, Append(queue, e)} /\ resend' = resend \ {e}
      /\ queue' = queue \/ subs # {} \/ stop = "abandoned"
      /\ UNCHANGED <<inbox, acks, handled, events, refcount, dlq, scheduled, ready, later, subs, stop,
                     meta, processed_keys, app, batch, call, worker>>
  BY DEF ReplaySend, ReplayDlqSend
<1>2. Travelling(e)
  BY <1>1 DEF Travelling
<1>3. /\ queue \in Seq(Events) /\ AtMostOnce(queue, e) /\ AtMostOnce(batch, e)
      /\ e \notin Range(queue) /\ e \notin Range(batch) /\ ~Arrived(e) /\ app # "fresh"
      /\ subs \in {{}, Subs}
  BY <1>1, <1>2 DEF TypeInv, WorkerTypes, Safe, OneMessage, Counts
<1>4. AtMostOnce(Append(queue, e), e)
  BY <1>3, AppendOnce
<1>5. e \notin Range(batch') /\ e \notin resend' /\ AtMostOnce(queue', e) /\ AtMostOnce(batch', e)
  BY <1>1, <1>3, <1>4
<1>6. e \in Range(queue') => subs = Subs \/ (subs = {} /\ stop \in {"stopped", "abandoned"})
  BY <1>1, <1>3
<1> QED
  BY <1>1, <1>3, <1>5, <1>6, MessageMoves

\* replay_pending picks up the stored events, with nothing on the way.
LEMMA ReplayPendingKeepsSafe ==
  ASSUME TypeInv, NEW e \in Events, Safe(e), ReplayPending
  PROVE  Safe(e)'
<1> USE DEF pollerVars, replayVars, workerVars, controlVars, history, disk
<1>1. /\ app = "fresh" /\ app' = "replayed" /\ subs \in {{}, Subs} /\ replay' = "pending"
      /\ UNCHANGED <<inbox, acks, handled, events, refcount, dlq, scheduled, ready, later, subs, stop,
                     meta, processed_keys, batch, call, worker, queue>>
  BY DEF ReplayPending
<1>2. ~Travelling(e) /\ ~Arrived(e)
  BY <1>1 DEF Safe, OneMessage
<1>3. e \notin Range(queue') /\ e \notin Range(batch')
  BY <1>1, <1>2 DEF Travelling
<1>4. AcksOf(e)' = AcksOf(e) /\ Awaited(e)' = Awaited(e) /\ ~Arrived(e)'
  BY <1>1, <1>2 DEF AcksOf, Awaited, Arrived
<1>5. OneMessage(e)'
  BY <1>1, <1>3, <1>4 DEF Safe, OneMessage
<1>6. Waits(e)'
  BY <1>1 DEF Safe, Waits
<1>7. Counts(e)'
  BY <1>1, <1>3 DEF Counts, Travelling
<1>8. Covered(e)'
  BY <1>1, <1>4 DEF Safe, Covered
<1> QED
  BY <1>5, <1>6, <1>7, <1>8 DEF Safe

\* The worker counts the subscriptions for its batch.
LEMMA CountKeepsSafe ==
  ASSUME TypeInv, NEW e \in Events, Owed(e), Safe(e), WorkerCount
  PROVE  Safe(e)'
<1> USE DEF pollerVars, replayVars, workerVars, controlVars, history, disk
<1>1. /\ count' = IF batch = <<>> THEN 0 ELSE Cardinality(subs)
      /\ later' = {x \in Storable : subs # {} /\ IsScheduled(x)}
      /\ worker' = IF batch = <<>> THEN "recv"
                   ELSE IF subs = {} \/ Storable = {} THEN "deliver" ELSE "store"
      /\ UNCHANGED <<inbox, acks, handled, events, refcount, dlq, scheduled, ready, subs, stop,
                     meta, processed_keys, batch, call, queue, resend, replay, app>>
  BY DEF WorkerCount
<1>2. e \notin later' /\ (e \in Range(batch) => Storable # {})
  BY <1>1 DEF Owed, IsScheduled, Storable
<1>3. /\ AcksOf(e)' = AcksOf(e) /\ Awaited(e)' = Awaited(e)
      /\ (Arrived(e)' <=> Arrived(e)) /\ (Travelling(e)' <=> Travelling(e))
  BY <1>1 DEF AcksOf, Awaited, Arrived, Travelling
<1>4. OneMessage(e)'
  BY <1>1, <1>3 DEF Safe, OneMessage
<1>5. Waits(e)'
  BY <1>1 DEF Safe, Waits
<1>6. Counts(e)'
  <2>1. /\ e \in resend' => replay' = "pending" /\ subs' \in {{}, Subs}
        /\ e \in Range(queue') \cup Range(batch') =>
             subs' = Subs \/ (subs' = {} /\ stop' \in {"stopped", "abandoned"})
    BY <1>1 DEF Safe, Counts
  <2>2. ASSUME worker' = "store", e \in Range(batch') PROVE count' = Cardinality(Subs)
    <3>1. batch # <<>> /\ subs # {}
      BY <1>1, <2>2
    <3>2. subs = Subs
      BY <1>1, <2>1, <2>2, <3>1
    <3> QED
      BY <1>1, <3>1, <3>2
  <2>3. ASSUME worker' = "deliver", e \in Range(batch') PROVE e \in events' /\ subs' = {}
    <3>1. subs = {} /\ Subs # {}
      BY <1>1, <1>2, <2>3, RedbConstants
    <3>2. call[e] = "ok"
      BY <3>1 DEF Safe, Waits, Owed
    <3> QED
      BY <1>1, <3>1, <3>2 DEF Safe, Covered
  <2> QED
    BY <2>1, <2>2, <2>3 DEF Counts
<1>7. Covered(e)'
  BY <1>1, <1>2, <1>3 DEF Safe, Covered
<1> QED
  BY <1>4, <1>5, <1>6, <1>7 DEF Safe

\* The worker stores its batch.
LEMMA StoreKeepsSafe ==
  ASSUME TypeInv, TypeInv', NEW e \in Events, Owed(e), Safe(e), WorkerStore
  PROVE  Safe(e)'
<1> USE DEF pollerVars, replayVars, workerVars, controlVars, history, disk
<1>1. /\ worker = "store" /\ worker' = "deliver" /\ later' = {}
      /\ events' = events \cup (Storable \ later)
      /\ refcount' = [x \in Events |-> IF x \in Storable \ later THEN count ELSE refcount[x]]
      /\ scheduled' = scheduled \cup later
      /\ processed_keys' = processed_keys \cup ({meta[x].key : x \in Storable} \ {NoKey})
      /\ UNCHANGED <<inbox, acks, handled, dlq, ready, subs, stop, meta, batch, call, queue, resend,
                     replay, app>>
      /\ Storable \subseteq Range(batch) /\ (e \in Range(batch) => e \in Storable)
  BY DEF WorkerStore, Storable, Owed
<1>2. /\ AcksOf(e)' = AcksOf(e) /\ Awaited(e)' = Awaited(e)
      /\ (Arrived(e)' <=> Arrived(e)) /\ (Travelling(e)' <=> Travelling(e))
  BY <1>1 DEF AcksOf, Awaited, Arrived, Travelling
<1>3. e \notin later /\ e \notin dlq' \cup scheduled' \cup ready' \cup later'
  BY <1>1 DEF Safe, Covered
<1>4. OneMessage(e)'
  BY <1>1, <1>2 DEF Safe, OneMessage
<1>5. CASE e \in Range(batch)
  <2>1. Travelling(e) /\ count = Cardinality(Subs)
    BY <1>1, <1>5 DEF Safe, Counts, Travelling
  <2>2. e \in events' /\ refcount'[e] = Cardinality(Subs)
    BY <1>1, <1>3, <1>5, <2>1
  <2>3. Waits(e)'
    BY <1>1, <1>5 DEF Safe, Waits
  <2>4. Counts(e)'
    BY <1>1, <2>1, <2>2 DEF Safe, Counts
  <2>5. AcksOf(e) = {}
    BY <2>1 DEF Safe, OneMessage, Arrived
  <2>6. Cardinality(AcksOf(e)') = 0
    BY <1>2, <2>5, FS_EmptySet
  <2>7. Cardinality(Awaited(e)') \in Nat /\ Cardinality(Awaited(e)') <= Cardinality(Subs)
    BY CountersStayNumbers
  <2>8. Cardinality(AcksOf(e)') + Cardinality(Awaited(e)') <= refcount'[e]
    BY <2>2, <2>6, <2>7
  <2>9. Covered(e)'
    BY <1>3, <2>2, <2>8 DEF Covered
  <2> QED
    BY <1>4, <2>3, <2>4, <2>9 DEF Safe
<1>6. CASE e \notin Range(batch)
  <2>1. (e \in events' <=> e \in events) /\ refcount'[e] = refcount[e]
    BY <1>1, <1>6
  <2>2. meta[e].key \in processed_keys' => meta[e].key \in processed_keys
    <3>1. ASSUME NEW f \in Storable, meta[f].key = meta[e].key, meta[e].key # NoKey PROVE FALSE
      <4>1. f \in Events /\ f # e
        BY <1>1, <1>6, <3>1, RangeOfSeq DEF TypeInv, WorkerTypes
      <4> QED
        BY <3>1, <4>1 DEF Owed, Contested
    <3> QED
      BY <1>1, <3>1
  <2>3. Waits(e)'
    BY <1>1, <1>6, <2>2 DEF Safe, Waits
  <2>4. Counts(e)'
    BY <1>1, <1>2, <1>6 DEF Safe, Counts
  <2>5. Covered(e)'
    BY <1>1, <1>2, <1>3, <2>1 DEF Safe, Covered
  <2> QED
    BY <1>4, <2>3, <2>4, <2>5 DEF Safe
<1> QED
  BY <1>5, <1>6

\* The worker sends the event to the handlers and confirms it.
LEMMA DeliverKeepsSafe ==
  ASSUME TypeInv, TypeInv', Unsent, NEW e \in Events, Owed(e), Safe(e), WorkerDeliver, Head(batch) = e
  PROVE  Safe(e)'
<1> USE DEF pollerVars, replayVars, workerVars, controlVars, history, disk
<1>1. /\ worker = "deliver" /\ batch # <<>> /\ batch' = Tail(batch) /\ Confirmed({e})
      /\ UNCHANGED <<acks, handled, dlq, ready, later, subs, stop, meta, queue, resend, app, events,
                     refcount, scheduled, processed_keys>>
  BY DEF WorkerDeliver, TypeInv, WorkerTypes
<1>2. PICK sent : /\ sent \subseteq subs
                  /\ inbox' = [s \in Subs |-> IF s \in sent THEN Append(inbox[s], e) ELSE inbox[s]]
  BY DEF WorkerDeliver
<1>3. /\ e \in Range(batch) /\ e \notin Range(batch') /\ AtMostOnce(batch', e)
  <2>1. batch \in Seq(Events) /\ AtMostOnce(batch, e)
    BY DEF TypeInv, WorkerTypes, Safe, OneMessage
  <2> QED
    BY <1>1, <2>1, TailElements, TailOnce
<1>4. Travelling(e)
  BY <1>3 DEF Travelling
<1>5. /\ ~Arrived(e) /\ app # "fresh" /\ e \notin resend /\ e \notin Range(queue)
      /\ e \in events /\ (refcount[e] = Cardinality(Subs) \/ subs = {})
  BY <1>1, <1>3, <1>4 DEF Safe, OneMessage, Counts
<1>6. call'[e] = "ok"
  <2>1. call[e] \in {"waiting", "ok"}
    BY <1>4 DEF Unsent, Somewhere, Owed
  <2> QED
    BY <1>1, <2>1 DEF Confirmed
<1>7. AcksOf(e) = {} /\ \A s \in Subs : e \notin Range(inbox[s])
  BY <1>5 DEF Arrived
<1>8. ~Travelling(e)'
  BY <1>1, <1>3, <1>5 DEF Travelling
<1>9. \A s \in Subs : AtMostOnce(inbox'[s], e)
  <2> TAKE s \in Subs
  <2>1. inbox[s] \in Seq(Events) /\ AtMostOnce(inbox[s], e)
    BY <1>7, AbsentOnce DEF TypeInv, HandlerTypes
  <2>2. AtMostOnce(Append(inbox[s], e), e)
    BY <1>7, <2>1, AppendOnce
  <2> QED
    BY <1>2, <2>1, <2>2
<1>10. OneMessage(e)'
  <2>1. AtMostOnce(queue', e)
    BY <1>1 DEF Safe, OneMessage
  <2> QED
    BY <1>1, <1>3, <1>5, <1>8, <1>9, <2>1 DEF OneMessage
<1>11. Waits(e)'
  BY <1>6 DEF Waits
<1>12. Counts(e)'
  BY <1>8 DEF Counts, Travelling
<1>13. Cardinality(AcksOf(e)') + Cardinality(Awaited(e)') <= refcount'[e]
  <2>1. AcksOf(e)' = AcksOf(e)
    BY <1>1 DEF AcksOf
  <2>2. CASE refcount[e] = Cardinality(Subs)
    <3>1. Cardinality(AcksOf(e)') = 0
      BY <1>7, <2>1, FS_EmptySet
    <3>2. Cardinality(Awaited(e)') \in Nat /\ Cardinality(Awaited(e)') <= Cardinality(Subs)
      BY CountersStayNumbers
    <3> QED
      BY <1>1, <2>2, <3>1, <3>2
  <2>3. CASE subs = {}
    <3>1. \A s \in Subs : inbox'[s] = inbox[s]
      BY <1>2, <2>3
    <3>2. Awaited(e)' = Awaited(e)
      BY <1>1, <3>1 DEF Awaited
    <3> QED
      BY <1>1, <1>5, <2>1, <3>2 DEF Safe, Covered
  <2> QED
    BY <1>5, <2>2, <2>3
<1>14. Covered(e)'
  BY <1>1, <1>5, <1>13 DEF Safe, Covered
<1> QED
  BY <1>10, <1>11, <1>12, <1>14 DEF Safe

\* A handler is done with the event.
LEMMA HandleKeepsSafe ==
  ASSUME TypeInv, TypeInv', NEW e \in Events, Safe(e), NEW s \in Subs, NEW ok \in BOOLEAN, Handle(s, ok),
         Head(inbox[s]) = e
  PROVE  Safe(e)'
<1> USE DEF pollerVars, replayVars, workerVars, controlVars, history, disk
<1> DEFINE a == [event |-> e, success |-> ok]
           n == IF handled[e][s] < Counted(e) THEN handled[e][s] + 1 ELSE handled[e][s]
<1>1. /\ inbox[s] \in Seq(Events) /\ inbox[s] # <<>>
      /\ acks' = Append(acks, a) /\ inbox' = [inbox EXCEPT ![s] = Tail(inbox[s])]
      /\ handled' = [handled EXCEPT ![e][s] = n]
  BY HandlerTakes
<1>2. UNCHANGED <<count, app, processed_keys, later, subs, stop, meta, events, refcount, dlq, scheduled,
                  resend, replay, ready, queue, batch, worker, call>>
  BY DEF Handle
<1>3. a \in Acks
  BY DEF Acks
<1>4. Cardinality(AcksOf(e)') <= Cardinality(AcksOf(e)) + 1
  BY <1>1, <1>3, AckSent
<1>5. n # 0
  <2>1. handled[e][s] \in 0 .. 2 /\ Counted(e) \in 1 .. 2
    BY DEF TypeInv, HandlerTypes, Counted
  <2> QED
    BY <2>1
<1> HIDE DEF n, a
<1>6. \A t \in Subs : inbox[t] \in Seq(Events) /\ AtMostOnce(inbox[t], e)
  BY DEF Safe, OneMessage, TypeInv, HandlerTypes
<1>7. /\ e \in Range(inbox[s]) /\ e \notin Range(Tail(inbox[s])) /\ AtMostOnce(Tail(inbox[s]), e)
  BY <1>1, <1>6, TailElements, TailOnce
<1>8. /\ inbox'[s] = Tail(inbox[s]) /\ \A t \in Subs \ {s} : inbox'[t] = inbox[t]
      /\ handled'[e][s] = n /\ \A t \in Subs \ {s} : handled'[e][t] = handled[e][t]
  BY <1>1 DEF TypeInv, HandlerTypes
<1>9. Awaited(e)' = Awaited(e) \ {s} /\ s \in Awaited(e)
  <2>1. s \in Awaited(e) /\ s \notin Awaited(e)'
    BY <1>5, <1>7, <1>8 DEF Awaited
  <2>2. \A t \in Subs \ {s} : t \in Awaited(e)' <=> t \in Awaited(e)
    BY <1>8 DEF Awaited
  <2>3. Awaited(e) \subseteq Subs /\ Awaited(e)' \subseteq Subs
    BY DEF Awaited
  <2> QED
    BY <2>1, <2>2, <2>3
<1>10. Cardinality(Awaited(e)') = Cardinality(Awaited(e)) - 1
  <2> DEFINE S == Awaited(e)
  <2>1. IsFiniteSet(S)
    <3>1. S \in SUBSET Subs
      BY DEF Awaited
    <3> QED
      BY <3>1, SomeSubs
  <2>2. s \in S /\ Awaited(e)' = S \ {s}
    BY <1>9
  <2> HIDE DEF S
  <2>3. Cardinality(S \ {s}) = Cardinality(S) - 1
    BY <2>1, <2>2, FS_RemoveElement
  <2> QED
    BY <2>2, <2>3 DEF S
<1>11. Arrived(e)
  BY <1>7 DEF Arrived
<1>12. ~Travelling(e) /\ app # "fresh"
  BY <1>11 DEF Safe, OneMessage
<1>13. ~Travelling(e)' /\ e \notin Range(batch') /\ e \notin Range(queue') /\ e \notin resend'
  BY <1>2, <1>12 DEF Travelling
<1>14. OneMessage(e)'
  <2>1. \A t \in Subs : AtMostOnce(inbox'[t], e)
    BY <1>6, <1>7, <1>8
  <2> QED
    BY <1>2, <1>12, <1>13, <2>1, AbsentOnce DEF OneMessage
<1>15. Waits(e)'
  BY <1>2 DEF Safe, Waits
<1>16. Counts(e)'
  BY <1>13 DEF Counts
<1>17. Covered(e)'
  <2>1. e \in events' => Cardinality(AcksOf(e)') + Cardinality(Awaited(e)') <= refcount'[e]
    <3>1. e \in events => Cardinality(AcksOf(e)) + Cardinality(Awaited(e)) <= refcount[e]
      BY DEF Safe, Covered
    <3>2. /\ Cardinality(AcksOf(e)) \in Nat /\ Cardinality(Awaited(e)) \in Nat /\ refcount[e] \in Nat
          /\ Cardinality(AcksOf(e)') \in Nat
      BY CountersAreNumbers, CountersStayNumbers
    <3> QED
      BY <1>2, <1>4, <1>10, <3>1, <3>2
  <2> QED
    BY <1>2, <2>1 DEF Safe, Covered
<1> QED
  BY <1>14, <1>15, <1>16, <1>17 DEF Safe

\* An acknowledgement of the event is applied, and it is not the last one.
LEMMA AckKeepsSafe ==
  ASSUME TypeInv, TypeInv', NEW e \in Events, Owed(e)', Safe(e), AckApply, Head(acks).event = e
  PROVE  Safe(e)'
<1> USE DEF pollerVars, replayVars, workerVars, controlVars, history, disk
<1>1. /\ acks # <<>> /\ acks' = Tail(acks)
      /\ refcount' = [refcount EXCEPT ![e] = IF @ = 0 THEN 0 ELSE @ - 1]
      /\ events' = IF refcount[e] = 1 THEN events \ {e} ELSE events
      /\ dlq' = dlq \/ (refcount[e] = 1 /\ e \in events)
      /\ UNCHANGED <<count, app, processed_keys, later, subs, stop, meta, scheduled, inbox, handled,
                     resend, replay, ready, queue, batch, worker, call>>
  BY DEF AckApply
<1>2. AcksOf(e) # {} /\ Cardinality(AcksOf(e)') <= Cardinality(AcksOf(e)) - 1
  BY <1>1, AckTaken
<1>3. ~Travelling(e) /\ app # "fresh"
  BY <1>2 DEF Safe, OneMessage, Arrived
<1>4. ~Travelling(e)' /\ e \notin Range(batch') /\ e \notin Range(queue') /\ e \notin resend'
  BY <1>1, <1>3 DEF Travelling
<1>5. Awaited(e)' = Awaited(e)
  BY <1>1 DEF Awaited
<1>6. /\ Cardinality(AcksOf(e)) \in Nat /\ Cardinality(Awaited(e)) \in Nat /\ refcount[e] \in Nat
      /\ Cardinality(AcksOf(e)') \in Nat
  BY CountersAreNumbers, CountersStayNumbers
<1>7. Cardinality(Awaited(e)) > 0 /\ Cardinality(AcksOf(e)) > 0
  <2>1. Awaited(e) # {} /\ Awaited(e) \in SUBSET Subs
    BY <1>1 DEF Owed, Awaited
  <2>2. Cardinality(Awaited(e)) > 0
    BY <2>1, SomeSubs
  <2> QED
    BY <1>2, <1>6, <2>2
<1>8. e \in events => /\ Cardinality(AcksOf(e)) + Cardinality(Awaited(e)) <= refcount[e]
                      /\ refcount[e] # 1
  BY <1>6, <1>7 DEF Safe, Covered
<1>9. refcount'[e] = IF refcount[e] = 0 THEN 0 ELSE refcount[e] - 1
  BY <1>1 DEF TypeInv, TableTypes
<1>10. e \in events' <=> e \in events
  BY <1>1, <1>8
<1>11. e \notin dlq'
  BY <1>1, <1>8 DEF Safe, Covered
<1>12. OneMessage(e)'
  BY <1>1, <1>3, <1>4, AbsentOnce DEF Safe, OneMessage
<1>13. Waits(e)'
  BY <1>1 DEF Safe, Waits
<1>14. Counts(e)'
  BY <1>4 DEF Counts
<1>15. e \in events' => Cardinality(AcksOf(e)') + Cardinality(Awaited(e)') <= refcount'[e]
  BY <1>2, <1>5, <1>6, <1>7, <1>8, <1>9, <1>10
<1>16. Covered(e)'
  BY <1>1, <1>10, <1>11, <1>15 DEF Safe, Covered
<1> QED
  BY <1>12, <1>13, <1>14, <1>16 DEF Safe

-----------------------------------------------------------------------------
(* Durable                                                                 *)

\* A step keeps every event safe that was owed and is.
LEMMA StepKeepsSafe ==
  ASSUME TypeInv, TypeInv', Unsent, [Next]_vars, NEW e \in Events, Owed(e), Owed(e)', Safe(e)
  PROVE  Safe(e)'
<1> DEFINE Goal == Safe(e)'
<1> SUFFICES Goal
  OBVIOUS
<1>1. Quiet(e) => Goal
  BY QuietKeepsSafe
<1>2. (Restart \/ StopDone \/ StopAbandoned) => Goal
  BY EndKeepsSafe
<1>3. ReplayPending => Goal
  BY ReplayPendingKeepsSafe
<1>4. WorkerCount => Goal
  BY CountKeepsSafe
<1>5. WorkerStore => Goal
  BY StoreKeepsSafe
<1> HIDE DEF Goal
<1>6. CASE \/ \E group \in Groups : Subscribe(group)
           \/ WorkerClosed \/ PollerPull \/ PollerExit \/ ReplayDlq \/ ReplayDone
           \/ DrainBegin \/ StopBegin \/ DrainDone \/ Rest \/ UNCHANGED vars
  BY <1>1, <1>6, ChannelsUntouched DEF Rest
<1>7. ASSUME NEW f \in Events, Elapse(f) \/ PublishBegin(f) \/ Publish(f) PROVE Goal
  <2>1. ~PublishBegin(e)
    BY DEF PublishBegin, Owed
  <2>2. ~PublishFull(e)
    <3>1. PublishFull(e) => call'[e] = "err"
      BY DEF PublishFull, TypeInv, CallTypes
    <3> QED
      BY <3>1 DEF Owed
  <2>3. CASE PublishSend(e)
    BY <2>3, PublishSendKeepsSafe DEF Goal
  <2>4. CASE PublishSend(f) /\ f # e
    BY <1>1, <2>4, OtherQueued
  <2>5. CASE Elapse(f) \/ (f # e /\ (PublishBegin(f) \/ PublishFull(f)))
    BY <1>1, <2>5, ChannelsUntouched
  <2> QED
    BY <1>7, <2>1, <2>2, <2>3, <2>4, <2>5 DEF Publish
<1>8. ASSUME NEW f \in Events, PollerSend(f) \/ ReplaySend(f) \/ ReplayDlqSend(f) PROVE Goal
  <2>1. ~PollerSend(e)
    BY DEF PollerSend, Safe, Covered
  <2>2. CASE f # e
    BY <1>1, <1>8, <2>2, OtherQueued
  <2>3. CASE f = e
    BY <1>8, <2>1, <2>3, ReplaySendKeepsSafe DEF Goal
  <2> QED
    BY <2>2, <2>3
<1>9. ASSUME NEW s \in Subs, Handler(s) PROVE Goal
  <2>1. PICK ok \in BOOLEAN : Handle(s, ok)
    BY <1>9 DEF Handler
  <2>2. CASE Head(inbox[s]) = e
    BY <2>1, <2>2, HandleKeepsSafe DEF Goal
  <2>3. CASE Head(inbox[s]) # e
    BY <1>1, <2>1, <2>3, OtherHandled
  <2> QED
    BY <2>2, <2>3
<1>10. CASE WorkerBreak \/ WorkerRecv
  <2>1. CASE WorkerRecv /\ Head(queue) = e /\ ~IsDuplicate(e)
    BY <2>1, ReceiveKeepsSafe DEF Goal
  <2>2. CASE WorkerBreak \/ (WorkerRecv /\ (Head(queue) # e \/ IsDuplicate(e)))
    BY <1>1, <2>2, OtherReceived
  <2> QED
    BY <1>10, <2>1, <2>2
<1>11. CASE WorkerDeliver
  <2>1. CASE Head(batch) = e
    BY <1>11, <2>1, DeliverKeepsSafe DEF Goal
  <2>2. CASE Head(batch) # e
    BY <1>1, <1>11, <2>2, OtherDelivered
  <2> QED
    BY <2>1, <2>2
<1>12. CASE WorkerStoreFails \/ AckFails
  BY <1>12 DEF WorkerStoreFails, AckFails, DiskError, Owed
<1>13. CASE AckApply
  <2>1. CASE Head(acks).event = e
    BY <1>13, <2>1, AckKeepsSafe DEF Goal
  <2>2. CASE Head(acks).event # e
    BY <1>1, <1>13, <2>2, OtherAcknowledged
  <2> QED
    BY <2>1, <2>2
<1> QED
  BY <1>2, <1>3, <1>4, <1>5, <1>6, <1>7, <1>8, <1>9, <1>10, <1>11, <1>12, <1>13
     DEF Next, Worker, AckWorker, Poller, Replay, Stop

\* The dispatcher starts with empty tables, and its invariant is kept: at every moment
\* the reference count of an event that somebody has yet to handle is at least the number
\* of acknowledgements under way (the channel of RedbRegistry's ack worker) plus those to
\* come, so that none of them is the last one that removes the row.
THEOREM DurableInvariant == Spec => []DurableInv
<1>1. Init => Unsent /\ \A e \in Events : ~Owed(e)
  <2> SUFFICES ASSUME Init PROVE Unsent /\ \A e \in Events : ~Owed(e)
    OBVIOUS
  <2>1. /\ events = {} /\ scheduled = {} /\ dlq = {} /\ later = {} /\ ready = {} /\ dead = {} /\ resend = {}
        /\ queue = <<>> /\ batch = <<>> /\ acks = <<>> /\ inbox = [s \in Subs |-> <<>>]
        /\ processed_keys = {} /\ is_running = TRUE
        /\ call = [e \in Events |-> "idle"] /\ meta = [e \in Events |-> Plain]
    BY DEF Init, Started
  <2>2. ASSUME NEW e \in Events PROVE ~Somewhere(e)
    BY <2>1, NothingInside DEF Somewhere, Stored, Travelling, Arrived, AcksOf
  <2>3. Unsent
    BY <2>1, <2>2 DEF Unsent
  <2>4. ASSUME NEW e \in Events PROVE ~Owed(e)
    BY <2>1 DEF Owed
  <2> QED
    BY <2>3, <2>4
<1>2. ASSUME TypeInv, TypeInv', Unsent, \A e \in Events : Owed(e) => Safe(e), [Next]_vars
      PROVE  Unsent' /\ \A e \in Events : Owed(e)' => Safe(e)'
  <2>1. Unsent'
    BY <1>2, StepKeepsUnsent
  <2>2. ASSUME NEW e \in Events, Owed(e)' PROVE Safe(e)'
    <3>1. CASE PublishBegin(e)
      BY <1>2, <2>2, <3>1, PublishBeginMakesSafe
    <3>2. CASE ~PublishBegin(e)
      <4>1. Owed(e)
        BY <1>2, <2>2, <3>2, OwedBefore
      <4>2. Safe(e)
        BY <1>2, <4>1
      <4> QED
        BY <1>2, <2>2, <4>1, <4>2, StepKeepsSafe
    <3> QED
      BY <3>1, <3>2
  <2> QED
    BY <2>1, <2>2
<1> DEFINE AllSafe == Unsent /\ \A e \in Events : Owed(e) => Safe(e)
<1>3. Init => AllSafe
  BY <1>1
<1>4. TypeInv /\ TypeInv' /\ AllSafe /\ [Next]_vars => AllSafe'
  BY <1>2
<1>5. TypeInv /\ AllSafe => DurableInv
  BY DEF DurableInv
<1> HIDE DEF AllSafe
<1> QED
  BY <1>3, <1>4, <1>5, RedbTypes, PTL DEF Spec

\* An event whose publish call returned Ok after waiting for persistence stays in
\* EVENTS_TABLE until every subscription of its audience has handled it.
THEOREM StoredUntilHandled == Spec => []Durable
<1>1. DurableInv => Durable
  <2> SUFFICES ASSUME DurableInv, NEW e \in Events \ (Tries \cup forsaken),
                      WaitForPersistence, call[e] = "ok", audience[e] = Subs,
                      ~meta[e].scheduled, ~meta[e].broken, ~disk_failed, e \notin collected, ~Contested(e),
                      NEW s \in Accepts[e], ~(handled[e][s] > 0)
               PROVE  e \in events
    BY DEF Durable
  <2>1. s \in Subs
    BY RedbConstants
  <2>2. handled[e][s] = 0
    BY <2>1 DEF DurableInv, TypeInv, HandlerTypes
  <2>3. Owed(e)
    BY <2>1, <2>2 DEF Owed
  <2>4. Safe(e)
    BY <2>3 DEF DurableInv
  <2> QED
    BY <2>4 DEF Safe, Covered
<1> QED
  BY <1>1, DurableInvariant, PTL

-----------------------------------------------------------------------------
(* A drained shutdown                                                      *)

\* A replay that is over has sent everything, and nobody publishes or replays any more
\* when a shutdown has the write guard. One that did not get it leaves the dispatcher
\* running. The worker ends with an empty batch, and when it drains with an empty queue.
Closing ==
  /\ replay = "no" => resend = {} /\ dead = {}
  /\ stop \notin {"no", "abandoned"} =>
       replay = "no" /\ \A e \in Events : call[e] \notin {"sending", "waiting"}
  /\ stop \in {"no", "abandoned"} => sender /\ worker # "exited"
  /\ stop \in {"no", "abandoned", "draining"} => is_running
  /\ worker \in {"recv", "exited"} => batch = <<>>
  /\ worker = "exited" /\ stop \in {"draining", "drained"} => queue = <<>>
  /\ stop = "drained" => worker = "exited" /\ \A s \in Subs : inbox[s] = <<>>

\* Every subscription that accepts e has handled it or has it in its channel.
Delivered(e) == \A s \in Accepts[e] : handled[e][s] > 0 \/ e \in Range(inbox[s])

\* Once the replay has begun and unless the handlers are aborted, e is on its way to the
\* subscriptions that have not handled it yet.
OnItsWay(e) ==
  /\ replay = "dlq" => e \notin resend
  /\ app = "replayed" /\ stop \notin {"stopping", "stopped", "abandoned"} =>
       call[e] = "sending" \/ Travelling(e) \/ e \in dead \/ Delivered(e)

\* Excused are events that a dispatch timeout has hit.
Expected(e) == Owed(e) /\ meta[e] = Plain /\ e \notin timed_out

ClosingInv ==
  /\ DurableInv
  /\ Closing
  /\ \A e \in Events : Expected(e) => OnItsWay(e)

\* The locks of the bus and the order of the shutdown keep Closing.
LEMMA StepKeepsClosing ==
  ASSUME TypeInv, Closing, [Next]_vars
  PROVE  Closing'
<1> USE DEF pollerVars, replayVars, workerVars, controlVars, history, disk
<1>1. replay' = "no" => resend' = {} /\ dead' = {}
  <2>1. CASE UNCHANGED <<replay, resend, dead>>
    BY <2>1 DEF Closing
  <2>2. CASE Restart \/ ReplayPending \/ ReplayDlq \/ Replay
    BY <2>2 DEF Restart, ReplayPending, ReplayDlq, Replay, ReplayDone, ReplaySend, ReplayDlqSend, Closing
  <2>3. CASE Worker \/ AckWorker \/ Poller
    BY <2>1, <2>3 DEF Worker, WorkerRecv, WorkerBreak, WorkerClosed, WorkerCount, WorkerStore, WorkerStoreFails,
       WorkerDeliver, AckWorker, AckApply, AckFails, Poller, PollerPull, PollerExit, PollerSend
  <2>4. CASE \/ \E e \in Events : Elapse(e) \/ PublishBegin(e) \/ Publish(e)
             \/ \E s \in Subs : Handler(s)
    BY <2>1, <2>4 DEF Elapse, PublishBegin, Publish, PublishSend, PublishFull, Handler, Handle
  <2>5. CASE \/ \E group \in Groups : Subscribe(group)
             \/ DrainBegin \/ StopBegin \/ StopAbandoned \/ Stop \/ Rest \/ UNCHANGED vars
    BY <2>1, <2>5 DEF Subscribe, DrainBegin, StopBegin, StopAbandoned, Stop, DrainDone, StopDone, Rest, vars
  <2> QED
    BY <2>2, <2>3, <2>4, <2>5 DEF Next
<1>2. ASSUME UNCHANGED <<stop, replay, sender, is_running, worker, batch, inbox>>, queue' = queue \/ worker # "exited",
             \A e \in Events : call'[e] = call[e] \/ stop \in {"no", "abandoned"} \/ call'[e] = "err"
      PROVE  Closing'
  <2>1. stop' \notin {"no", "abandoned"} => \A e \in Events : call'[e] \notin {"sending", "waiting"}
    BY <1>2 DEF Closing
  <2> QED
    BY <1>1, <1>2, <2>1 DEF Closing
<1>3. CASE Restart
  BY <1>1, <1>3 DEF Restart, Closing
<1>4. ASSUME NEW e \in Events, Elapse(e) \/ PublishBegin(e) \/ Publish(e) PROVE Closing'
  <2>1. UNCHANGED <<stop, replay, sender, is_running, worker, batch, inbox>>
    BY <1>4 DEF Elapse, PublishBegin, Publish, PublishSend, PublishFull
  <2>2. queue' = queue \/ worker # "exited"
    <3>1. PublishSend(e) => stop \in {"no", "abandoned"}
      BY DEF PublishSend, Closing
    <3> QED
      BY <1>4, <3>1 DEF Elapse, PublishBegin, Publish, PublishSend, PublishFull, Closing
  <2>3. \A f \in Events : call'[f] = call[f] \/ stop \in {"no", "abandoned"} \/ call'[f] = "err"
    <3>1. CASE PublishSend(e)
      BY <3>1 DEF PublishSend, Closing
    <3>2. CASE Elapse(e) \/ PublishBegin(e) \/ PublishFull(e)
      BY <3>2 DEF Elapse, PublishBegin, PublishFull, TypeInv, CallTypes
    <3> QED
      BY <1>4, <3>1, <3>2 DEF Publish
  <2> QED
    BY <1>2, <2>1, <2>2, <2>3
<1>5. ASSUME NEW group \in Groups, Subscribe(group) PROVE Closing'
  BY <1>2, <1>5 DEF Subscribe
<1>6. ASSUME NEW s \in Subs, Handler(s) PROVE Closing'
  <2>1. PICK ok \in BOOLEAN : Handle(s, ok)
    BY <1>6 DEF Handler
  <2>2. UNCHANGED <<stop, replay, sender, is_running, worker, batch, call, queue>> /\ inbox[s] # <<>>
    BY <2>1 DEF Handle
  <2> QED
    BY <1>1, <2>2 DEF Closing
<1>7. ASSUME UNCHANGED <<stop, replay, sender, is_running>>,
             \A e \in Events : call'[e] \in {call[e], "ok"}, worker # "exited",
             worker' # "exited" \/ (stop \notin {"no", "abandoned"} /\ queue' = <<>>),
             worker' \in {"recv", "exited"} => batch' = <<>>
      PROVE  Closing'
  <2>1. stop' \notin {"no", "abandoned"} => \A e \in Events : call'[e] \notin {"sending", "waiting"}
    BY <1>7 DEF Closing
  <2>2. stop' # "drained"
    BY <1>7 DEF Closing
  <2> QED
    BY <1>1, <1>7, <2>1, <2>2 DEF Closing
<1>8. CASE Worker
  <2>1. /\ UNCHANGED <<stop, replay, sender, is_running>> /\ worker # "exited"
        /\ worker' # "exited" \/ (queue' = <<>> /\ (~is_running \/ ~sender))
    BY <1>8 DEF Worker, WorkerRecv, WorkerBreak, WorkerClosed, WorkerCount, WorkerStore, WorkerStoreFails,
       WorkerDeliver
  <2>2. \A e \in Events : call'[e] \in {call[e], "ok"}
    BY <1>8 DEF Worker, WorkerRecv, WorkerBreak, WorkerClosed, WorkerCount, WorkerStore, WorkerStoreFails,
       WorkerDeliver, Confirmed
  <2>3. worker' \in {"recv", "exited"} => batch' = <<>>
    <3>1. CASE WorkerDeliver
      <4>1. batch \in Seq(Events) /\ batch' = Tail(batch) /\ (worker' = "recv" <=> Len(batch) = 1) /\ worker' # "exited"
        BY <3>1 DEF WorkerDeliver, TypeInv, WorkerTypes
      <4>2. Len(batch) = 1 => Tail(batch) = <<>>
        <5>1. ASSUME Len(batch) = 1 PROVE Tail(batch) \in Seq(Events) /\ Len(Tail(batch)) = 0
          BY <4>1, <5>1, HeadTailProperties, EmptySeq
        <5> QED
          BY <5>1, EmptySeq
      <4> QED
        BY <4>1, <4>2
    <3> QED
      BY <1>8, <3>1 DEF Worker, WorkerRecv, WorkerBreak, WorkerClosed, WorkerCount, WorkerStore, WorkerStoreFails,
         Closing
  <2>4. stop # "drained" /\ (worker' = "exited" => stop \notin {"no", "abandoned"})
    BY <2>1 DEF Closing
  <2> QED
    BY <1>7, <2>1, <2>2, <2>3, <2>4
<1>9. CASE AckWorker
  BY <1>2, <1>9 DEF AckWorker, AckApply, AckFails
<1>10. CASE Poller
  BY <1>2, <1>10 DEF Poller, PollerPull, PollerExit, PollerSend
<1>11. CASE ReplayPending \/ ReplayDlq \/ Replay
  <2>1. /\ stop \in {"no", "abandoned"} /\ worker # "exited"
    BY <1>11 DEF ReplayPending, ReplayDlq, Replay, ReplayDone, ReplaySend, ReplayDlqSend, Closing
  <2>2. UNCHANGED <<stop, sender, is_running, worker, batch, inbox, call>>
    BY <1>11 DEF ReplayPending, ReplayDlq, Replay, ReplayDone, ReplaySend, ReplayDlqSend
  <2> QED
    BY <1>1, <2>1, <2>2 DEF Closing
<1>12. CASE DrainBegin \/ StopBegin
  <2>1. /\ stop = "no" /\ ~Reading /\ ~Writing /\ stop' \in {"draining", "stopping"}
        /\ UNCHANGED <<replay, worker, batch, inbox, call, queue>>
    BY <1>12 DEF DrainBegin, StopBegin
  <2>2. replay = "no" /\ \A e \in Events : call[e] \notin {"sending", "waiting"}
    BY <2>1 DEF Reading, Writing, TypeInv, ProcessTypes
  <2>3. worker # "exited"
    BY <2>1 DEF Closing
  <2>4. stop' = "draining" => is_running'
    BY <1>12 DEF DrainBegin, StopBegin, Closing
  <2> QED
    BY <1>1, <2>1, <2>2, <2>3, <2>4 DEF Closing
<1>13. CASE DrainDone
  BY <1>1, <1>13 DEF DrainDone, Closing
<1>14. CASE StopDone \/ StopAbandoned
  BY <1>1, <1>14 DEF StopDone, StopAbandoned, Closing
<1>15. CASE Rest \/ UNCHANGED vars
  BY <1>2, <1>15 DEF Rest, vars
<1> QED
  BY <1>3, <1>4, <1>5, <1>6, <1>8, <1>9, <1>10, <1>11, <1>12, <1>13, <1>14, <1>15 DEF Next, Stop

\* What only grows, and what only a new start of the process takes back.
LEMMA WorldGoesOn ==
  ASSUME TypeInv, [Next]_vars
  PROVE  /\ timed_out \subseteq timed_out' /\ due \subseteq due'
         /\ \/ Restart /\ boots' = boots + 1
            \/ /\ boots' = boots
               /\ stop' = "no" => stop = "no" /\ subs \subseteq subs'
<1> USE DEF pollerVars, replayVars, workerVars, controlVars, history, disk
<1>1. CASE Restart
  BY <1>1 DEF Restart
<1>2. CASE Worker
  BY <1>2 DEF Worker, WorkerRecv, WorkerBreak, WorkerClosed, WorkerCount, WorkerStore, WorkerStoreFails,
     WorkerDeliver
<1>3. CASE AckWorker \/ Poller \/ ReplayPending \/ ReplayDlq \/ Replay
  BY <1>3 DEF AckWorker, AckApply, AckFails, Poller, PollerPull, PollerExit, PollerSend, ReplayPending,
     ReplayDlq, Replay, ReplayDone, ReplaySend, ReplayDlqSend
<1>4. CASE DrainBegin \/ StopBegin \/ StopAbandoned \/ Stop
  BY <1>4 DEF DrainBegin, StopBegin, StopAbandoned, Stop, DrainDone, StopDone
<1>5. CASE \/ \E f \in Events : Elapse(f) \/ PublishBegin(f) \/ Publish(f)
           \/ \E s \in Subs : Handler(s)
           \/ \E group \in Groups : Subscribe(group)
           \/ Rest \/ UNCHANGED vars
  BY <1>5 DEF Elapse, PublishBegin, Publish, PublishSend, PublishFull, Handler, Handle, Subscribe, Rest, vars
<1> QED
  BY <1>1, <1>2, <1>3, <1>4, <1>5 DEF Next

\* An event that was expected before the step.
LEMMA ExpectedBefore ==
  ASSUME TypeInv, Unsent, [Next]_vars, NEW e \in Events, Expected(e)', ~PublishBegin(e)
  PROVE  Expected(e)
<1>1. Owed(e) /\ meta[e] = Plain
  BY OwedBefore, CallGoesOn DEF Expected
<1> QED
  BY <1>1, WorldGoesOn DEF Expected

\* What takes an event further, or leaves it where it is.
LEMMA GoesOn ==
  ASSUME NEW e \in Events, OnItsWay(e),
         replay' = "dlq" => e \notin resend',
         stop' \notin {"stopping", "stopped", "abandoned"} => app' = app /\ stop \notin {"stopping", "stopped", "abandoned"},
         call[e] = "sending" => call'[e] = "sending" \/ Travelling(e)',
         Travelling(e) => Travelling(e)' \/ Delivered(e)' \/ stop' \in {"stopping", "stopped", "abandoned"},
         e \in dead => e \in dead',
         Delivered(e) => Delivered(e)' \/ stop' \in {"stopping", "stopped", "abandoned"}
  PROVE  OnItsWay(e)'
BY DEF OnItsWay

\* Nothing of the event moves, or it is queued.
LEMMA StaysOrQueued ==
  ASSUME TypeInv, NEW e \in Events, OnItsWay(e), NEW f \in Events,
         queue' = queue \/ queue' = Append(queue, f),
         e \in resend /\ e \notin resend' => f = e /\ queue' = Append(queue, f),
         UNCHANGED <<batch, inbox, handled, app>>,
         e \in dead => e \in dead',
         replay' = "dlq" => e \notin resend',
         stop' \notin {"stopping", "stopped", "abandoned"} => stop \notin {"stopping", "stopped", "abandoned"},
         call'[e] = call[e] \/ (f = e /\ queue' = Append(queue, f))
  PROVE  OnItsWay(e)'
<1>1. queue \in Seq(Events)
  BY DEF TypeInv, WorkerTypes
<1>2. Range(Append(queue, f)) = Range(queue) \cup {f}
  BY <1>1, AppendElements
<1>3. Travelling(e) => Travelling(e)'
  BY <1>2 DEF Travelling
<1>4. call[e] = "sending" => call'[e] = "sending" \/ Travelling(e)'
  BY <1>2 DEF Travelling
<1>5. Delivered(e) => Delivered(e)'
  BY DEF Delivered
<1> QED
  BY <1>3, <1>4, <1>5, GoesOn

\* A step keeps an expected event on its way.
LEMMA StepKeepsOnItsWay ==
  ASSUME TypeInv, TypeInv', Unsent, Closing, [Next]_vars, NEW e \in Events, Expected(e), Expected(e)',
         Safe(e), OnItsWay(e)
  PROVE  OnItsWay(e)'
<1> USE DEF pollerVars, replayVars, workerVars, controlVars, history, disk
<1> DEFINE Goal == OnItsWay(e)'
<1> SUFFICES Goal
  OBVIOUS
<1>0. /\ queue \in Seq(Events) /\ batch \in Seq(Events) /\ inbox \in [Subs -> Seq(Events)]
      /\ e \in resend /\ replay = "dlq" => FALSE
  BY DEF TypeInv, WorkerTypes, HandlerTypes, OnItsWay
<1>1. CASE Restart
  BY <1>1 DEF Restart, OnItsWay
<1>2. CASE StopBegin \/ StopAbandoned \/ StopDone
  BY <1>2 DEF StopBegin, StopAbandoned, StopDone, OnItsWay
<1>3. CASE ReplayPending
  <2>1. ~Reading /\ replay' = "pending" /\ resend' = {x \in events : refcount[x] > 0}
    BY <1>3 DEF ReplayPending
  <2>2. call[e] = "ok"
    BY <2>1 DEF Reading, Expected, Owed
  <2>3. e \in events /\ Cardinality(AcksOf(e)) + Cardinality(Awaited(e)) <= refcount[e]
    BY <2>2 DEF Safe, Covered
  <2>4. Awaited(e) # {} /\ Awaited(e) \in SUBSET Subs
    BY DEF Expected, Owed, Awaited
  <2>5. Cardinality(Awaited(e)) > 0
    BY <2>4, SomeSubs
  <2>6. refcount[e] > 0
    BY <2>3, <2>5, CountersAreNumbers
  <2>7. e \in resend'
    BY <2>1, <2>3, <2>6
  <2> QED
    BY <2>1, <2>7 DEF OnItsWay, Travelling
<1>4. CASE ReplayDlq
  <2>1. /\ replay = "no" /\ resend' = dlq
        /\ UNCHANGED <<queue, batch, inbox, handled, app, stop, call, dead>>
    BY <1>4 DEF ReplayDlq
  <2>2. e \notin resend /\ e \notin resend'
    BY <2>1 DEF Closing, Safe, Covered
  <2> QED
    BY <2>1, <2>2, StaysOrQueued
<1>5. CASE ReplayDone
  <2>1. /\ replay' = "no" /\ resend = {} /\ UNCHANGED <<queue, batch, inbox, handled, app, stop, call, resend>>
        /\ disk_failed' \/ collected' = collected \cup dead
    BY <1>5 DEF ReplayDone, DiskError
  <2>2. e \notin dead
    BY <2>1 DEF Expected, Owed
  <2> QED
    BY <2>1, <2>2, StaysOrQueued
<1>6. ASSUME NEW f \in Events, ReplaySend(f) \/ ReplayDlqSend(f) \/ PollerSend(f) PROVE Goal
  <2>1. /\ queue' = queue \/ queue' = Append(queue, f)
        /\ UNCHANGED <<replay, batch, inbox, handled, app, stop, call>>
        /\ resend' \subseteq resend /\ dead \subseteq dead'
    BY <1>6 DEF ReplaySend, ReplayDlqSend, PollerSend
  <2>2. replay' = "dlq" => e \notin resend'
    BY <1>0, <2>1
  <2>3. CASE ReplaySend(e) /\ e \in dead'
    BY <2>2, <2>3 DEF OnItsWay
  <2>4. CASE ~(ReplaySend(e) /\ e \in dead')
    <3>1. e \in resend /\ e \notin resend' => f = e /\ queue' = Append(queue, f)
      BY <1>0, <1>6, <2>4 DEF ReplaySend, ReplayDlqSend, PollerSend
    <3> QED
      BY <2>1, <2>2, <3>1, StaysOrQueued
  <2> QED
    BY <2>3, <2>4
<1>7. ASSUME NEW f \in Events, Elapse(f) \/ PublishBegin(f) \/ Publish(f) PROVE Goal
  <2>1. UNCHANGED <<replay, batch, inbox, handled, app, stop, dead, resend>>
    BY <1>7 DEF Elapse, PublishBegin, Publish, PublishSend, PublishFull
  <2>2. /\ queue' = queue \/ queue' = Append(queue, f)
        /\ call'[e] = call[e] \/ (f = e /\ queue' = Append(queue, f))
    <3>1. CASE PublishSend(f)
      BY <3>1 DEF PublishSend, TypeInv, CallTypes
    <3>2. CASE PublishFull(f)
      BY <3>2 DEF PublishFull, TypeInv, CallTypes, Expected, Owed
    <3>3. CASE PublishBegin(f)
      BY <3>3 DEF PublishBegin, TypeInv, CallTypes, Expected, Owed
    <3>4. CASE Elapse(f)
      BY <3>4 DEF Elapse
    <3> QED
      BY <1>7, <3>1, <3>2, <3>3, <3>4 DEF Publish
  <2> QED
    BY <1>0, <2>1, <2>2, StaysOrQueued
<1>8. ASSUME NEW s \in Subs, Handler(s) PROVE Goal
  <2>1. PICK ok \in BOOLEAN : Handle(s, ok)
    BY <1>8 DEF Handler
  <2> DEFINE h == Head(inbox[s])
             n == IF handled[h][s] < Counted(h) THEN handled[h][s] + 1 ELSE handled[h][s]
  <2>2. /\ h \in Events /\ inbox[s] \in Seq(Events) /\ inbox[s] # <<>>
        /\ inbox' = [inbox EXCEPT ![s] = Tail(inbox[s])]
        /\ handled' = [handled EXCEPT ![h][s] = n]
    BY <2>1, HandlerTakes
  <2>3. Range(inbox[s]) = {h} \cup Range(Tail(inbox[s]))
    BY <2>2, TailElements
  <2>4. UNCHANGED <<queue, batch, replay, resend, dead, app, stop, call>>
    BY <2>1 DEF Handle
  <2> HIDE DEF h
  <2>5. handled[h][s] \in 0 .. 2 /\ Counted(h) \in 1 .. 2
    BY <2>2 DEF TypeInv, HandlerTypes, Counted
  <2>6. n > 0
    BY <2>5
  <2> HIDE DEF n
  <2>7. ASSUME NEW t \in Subs, handled[e][t] > 0 \/ e \in Range(inbox[t])
        PROVE  handled'[e][t] > 0 \/ e \in Range(inbox'[t])
    BY <1>0, <2>2, <2>3, <2>6, <2>7 DEF TypeInv, HandlerTypes
  <2>8. Delivered(e) => Delivered(e)'
    BY <2>7, RedbConstants DEF Delivered
  <2>9. Travelling(e) => Travelling(e)'
    BY <2>4 DEF Travelling
  <2> QED
    BY <1>0, <2>4, <2>8, <2>9, GoesOn
<1>9. CASE WorkerRecv
  <2>1. /\ queue # <<>> /\ queue' = Tail(queue)
        /\ Head(queue) = e => batch' = Append(batch, e)
        /\ batch' = batch \/ batch' = Append(batch, Head(queue))
        /\ UNCHANGED <<replay, resend, dead, app, stop, inbox, handled>>
    BY <1>9 DEF WorkerRecv, IsDuplicate, Expected, Plain
  <2>2. Head(queue) \in Events /\ Range(queue) = {Head(queue)} \cup Range(Tail(queue))
    BY <1>0, <2>1, TailElements
  <2>3. Range(Append(batch, Head(queue))) = Range(batch) \cup {Head(queue)}
    BY <1>0, <2>2, AppendElements
  <2>4. Travelling(e) => Travelling(e)'
    BY <2>1, <2>2, <2>3 DEF Travelling
  <2>5. Delivered(e) => Delivered(e)'
    BY <2>1 DEF Delivered
  <2>6. call[e] = "sending" => call'[e] = "sending"
    BY <1>9 DEF WorkerRecv, Confirmed
  <2> QED
    BY <1>0, <2>1, <2>4, <2>5, <2>6, GoesOn
<1>10. CASE WorkerBreak
  <2>1. worker = "recv" /\ ~is_running /\ UNCHANGED <<replay, resend, stop>>
    BY <1>10 DEF WorkerBreak
  <2>2. stop \in {"stopping", "stopped", "abandoned"}
    BY <2>1 DEF Closing, TypeInv, ProcessTypes
  <2> QED
    BY <1>0, <2>1, <2>2 DEF OnItsWay
<1>11. CASE WorkerDeliver
  <2>1. /\ worker = "deliver" /\ batch # <<>> /\ batch' = Tail(batch) /\ Confirmed({Head(batch)})
        /\ UNCHANGED <<replay, resend, dead, app, stop, handled, queue, subs>>
    BY <1>11 DEF WorkerDeliver, TypeInv, WorkerTypes
  <2> DEFINE targets == IF IsScheduled(Head(batch)) THEN {} ELSE subs \cap Accepts[Head(batch)]
  <2>2. PICK sent : /\ inbox' = [s \in Subs |-> IF s \in sent THEN Append(inbox[s], Head(batch)) ELSE inbox[s]]
                    /\ sent = targets \/ timed_out' = timed_out \cup {Head(batch)}
    BY <1>11 DEF WorkerDeliver
  <2>9. Head(batch) = e => sent = subs \cap Accepts[e]
    <3>1. ~IsScheduled(e)
      BY DEF IsScheduled, Expected, Plain
    <3>2. e \notin timed_out'
      BY DEF Expected
    <3> QED
      BY <2>2, <3>1, <3>2
  <2>3. Head(batch) \in Events /\ Range(batch) = {Head(batch)} \cup Range(Tail(batch))
    BY <1>0, <2>1, TailElements
  <2>4. \A s \in Subs : Range(Append(inbox[s], Head(batch))) = Range(inbox[s]) \cup {Head(batch)}
    BY <1>0, <2>3, AppendElements
  <2>5. Accepts[e] \subseteq Subs
    BY RedbConstants
  <2>6. Delivered(e) => Delivered(e)'
    BY <2>1, <2>2, <2>4, <2>5 DEF Delivered
  <2>7. Travelling(e) => Travelling(e)' \/ Delivered(e)' \/ stop' \in {"stopped", "abandoned"}
    <3>1. CASE Head(batch) # e
      BY <2>1, <2>3, <3>1 DEF Travelling
    <3>2. CASE Head(batch) = e /\ stop \notin {"stopped", "abandoned"}
      <4>1. subs = Subs
        BY <2>3, <3>2 DEF Safe, Counts, Travelling
      <4>2. \A s \in Accepts[e] : e \in Range(inbox'[s])
        BY <2>2, <2>4, <2>5, <2>9, <3>2, <4>1
      <4> QED
        BY <4>2 DEF Delivered
    <3> QED
      BY <2>1, <3>1, <3>2
  <2>8. call[e] = "sending" => call'[e] = "sending"
    BY <2>1 DEF Confirmed
  <2> QED
    BY <1>0, <2>1, <2>6, <2>7, <2>8, GoesOn
<1>12. CASE WorkerStoreFails \/ AckFails
  BY <1>12 DEF WorkerStoreFails, AckFails, DiskError, Expected, Owed
<1>13. CASE \/ WorkerClosed \/ WorkerCount \/ WorkerStore \/ AckApply \/ PollerPull \/ PollerExit
            \/ DrainBegin \/ DrainDone \/ Rest \/ UNCHANGED vars \/ \E group \in Groups : Subscribe(group)
  <2>1. UNCHANGED <<queue, batch, inbox, handled, app, call, dead, resend, replay>>
    BY <1>13 DEF WorkerClosed, WorkerCount, WorkerStore, AckApply, PollerPull, PollerExit, DrainBegin, DrainDone,
       Rest, vars, Subscribe
  <2>2. stop' \notin {"stopping", "stopped", "abandoned"} => stop \notin {"stopping", "stopped", "abandoned"}
    BY <1>13 DEF WorkerClosed, WorkerCount, WorkerStore, AckApply, PollerPull, PollerExit, DrainBegin, DrainDone,
       Rest, vars, Subscribe
  <2> QED
    BY <1>0, <2>1, <2>2, StaysOrQueued
<1> HIDE DEF Goal
<1> QED
  BY <1>1, <1>2, <1>3, <1>4, <1>5, <1>6, <1>7, <1>8, <1>9, <1>10, <1>11, <1>12, <1>13
     DEF Next, Worker, AckWorker, Poller, Replay, Stop

\* A drained shutdown, as an invariant of every state before it.
THEOREM ClosingInvariant == Spec => []ClosingInv
<1> DEFINE Ways == \A e \in Events : Expected(e) => OnItsWay(e)
<1>1. Init => Closing /\ Ways
  <2> SUFFICES ASSUME Init PROVE Closing /\ Ways
    OBVIOUS
  <2>1. Closing
    BY DEF Init, Started, Closing
  <2>2. ASSUME NEW e \in Events PROVE ~Expected(e)
    BY DEF Init, Expected, Owed
  <2> QED
    BY <2>1, <2>2
<1>2. DurableInv /\ Closing /\ [Next]_vars => Closing'
  BY StepKeepsClosing DEF DurableInv
<1>3. DurableInv /\ DurableInv' /\ Closing /\ Ways /\ [Next]_vars => Ways'
  <2> SUFFICES ASSUME DurableInv, DurableInv', Closing, Ways, [Next]_vars, NEW e \in Events, Expected(e)'
               PROVE  OnItsWay(e)'
    OBVIOUS
  <2>1. TypeInv /\ TypeInv' /\ Unsent
    BY DEF DurableInv
  <2>2. CASE PublishBegin(e)
    <3>1. call[e] = "idle" /\ UNCHANGED <<replay, resend>>
      BY <2>2 DEF PublishBegin, replayVars
    <3>2. call'[e] = "sending"
      BY <2>1, <2>2 DEF PublishBegin, Expected, Owed, TypeInv, CallTypes
    <3>3. e \notin resend
      BY <2>1, <3>1 DEF Unsent, Somewhere, Travelling
    <3> QED
      BY <3>1, <3>2, <3>3 DEF OnItsWay
  <2>3. CASE ~PublishBegin(e)
    <3>1. Expected(e)
      BY <2>1, <2>3, ExpectedBefore
    <3>2. Safe(e)
      BY <3>1 DEF Expected, DurableInv
    <3>3. OnItsWay(e)
      BY <3>1
    <3> QED
      BY <2>1, <3>1, <3>2, <3>3, StepKeepsOnItsWay
  <2> QED
    BY <2>2, <2>3
<1>4. DurableInv /\ Closing /\ Ways => ClosingInv
  BY DEF ClosingInv
<1> HIDE DEF Ways
<1> QED
  BY <1>1, <1>2, <1>3, <1>4, DurableInvariant, PTL DEF Spec

\* When RedbDispatcher::shutdown_gracefully returns, no accepted event is left that a
\* subscription has not handled, for any number of events and earlier crashes.
THEOREM DrainLeavesNothing == Spec => []NothingLeftBehind
<1>1. ClosingInv => NothingLeftBehind
  <2> SUFFICES ASSUME ClosingInv, stop = "drained", app = "replayed", ~disk_failed,
                      NEW e \in Events \ (Tries \cup timed_out \cup collected \cup forsaken),
                      WaitForPersistence, call[e] = "ok", meta[e] = Plain, audience[e] = Subs,
                      NEW s \in Accepts[e], ~(handled[e][s] > 0)
               PROVE  FALSE
    BY DEF NothingLeftBehind
  <2>1. s \in Subs
    BY RedbConstants
  <2>2. handled[e][s] = 0
    BY <2>1 DEF ClosingInv, DurableInv, TypeInv, HandlerTypes
  <2>3. meta[e].key = NoKey /\ ~meta[e].scheduled /\ ~meta[e].broken
    BY DEF Plain
  <2>4. Expected(e)
    BY <2>1, <2>2, <2>3 DEF Expected, Owed, Contested
  <2>5. /\ queue = <<>> /\ batch = <<>> /\ resend = {} /\ dead = {} /\ inbox[s] = <<>>
    BY <2>1 DEF ClosingInv, Closing
  <2>6. ~Travelling(e) /\ e \notin Range(inbox[s])
    BY <2>5, NothingInside DEF Travelling
  <2>7. OnItsWay(e)
    BY <2>4 DEF ClosingInv
  <2> QED
    BY <2>2, <2>5, <2>6, <2>7 DEF OnItsWay, Delivered
<1> QED
  BY <1>1, ClosingInvariant, PTL

-----------------------------------------------------------------------------
(* Idempotency keys                                                        *)

\* Events whose message was never sent have not been handled.
Silent == \A e \in Events : call[e] \in {"idle", "sending", "err"} => \A s \in Subs : handled[e][s] = 0

\* Without a subscription the worker gets nothing that was published to one, until the
\* handlers are aborted.
Attended ==
  subs = {} /\ stop \notin {"stopped", "abandoned"} =>
    \A e \in Events : audience[e] # {} => call[e] # "sending" /\ e \notin Range(queue) \cup Range(batch)

\* The events OncePerKey is about, and those that share a key.
Idempotent(e) == meta[e].key # NoKey /\ ~meta[e].broken /\ audience[e] # {}

Rivals(e) == {f \in Events : Idempotent(f) /\ meta[f].key = meta[e].key}

NoneTaken(e) == \A f \in Rivals(e) : \A s \in Subs : handled[f][s] = 0 /\ f \notin Range(inbox[s])

\* Handlers get nothing with a key that is not in the table yet.
Fresh(e) == meta[e].key \notin processed_keys => NoneTaken(e)

\* The worker has one event per key, which nobody else has, and it sends the event when
\* the key is in the table.
Chosen(e) ==
  e \in Range(batch) =>
    /\ AtMostOnce(batch, e)
    /\ \A f \in Range(batch) : meta[f].key = meta[e].key => f = e
    /\ worker \in {"drain", "store"} => meta[e].key \notin processed_keys
    /\ worker = "deliver" =>
         NoneTaken(e) /\ (meta[e].key \in processed_keys \/ (subs = {} /\ stop \in {"stopped", "abandoned"}))

\* So has a handler.
Received(e) ==
  \A s \in Subs : e \in Range(inbox[s]) =>
    /\ AtMostOnce(inbox[s], e)
    /\ \A f \in Rivals(e) : handled[f][s] = 0 /\ (f \in Range(inbox[s]) => f = e)

\* Whoever handled an event did so once, and handled none of its rivals.
Single(e) ==
  \A s \in Subs :
    /\ handled[e][s] < 2
    /\ \A f \in Rivals(e) \ {e} : handled[e][s] = 0 \/ handled[f][s] = 0

AllSingle ==
  \A e \in Events : Idempotent(e) => Fresh(e) /\ Chosen(e) /\ Received(e) /\ Single(e)

KeyInv == ClosingInv /\ Silent /\ Attended /\ (~disk_failed => AllSingle)

\* Only handlers handle.
LEMMA OnlyHandlersHandle ==
  ASSUME [Next]_vars, \A s \in Subs : ~Handler(s)
  PROVE  UNCHANGED handled
<1> USE DEF history
<1>1. CASE Restart \/ Rest \/ UNCHANGED vars \/ \E group \in Groups : Subscribe(group)
  BY <1>1 DEF Restart, Rest, vars, Subscribe
<1>2. ASSUME NEW e \in Events, Elapse(e) \/ PublishBegin(e) \/ Publish(e) PROVE UNCHANGED handled
  BY <1>2 DEF Elapse, PublishBegin, Publish, PublishSend, PublishFull
<1>3. CASE Worker \/ AckWorker
  BY <1>3 DEF Worker, WorkerRecv, WorkerBreak, WorkerClosed, WorkerCount, WorkerStore, WorkerStoreFails,
     WorkerDeliver, AckWorker, AckApply, AckFails
<1>4. CASE Poller \/ ReplayPending \/ ReplayDlq \/ Replay
  BY <1>4 DEF Poller, PollerPull, PollerExit, PollerSend, ReplayPending, ReplayDlq, Replay, ReplayDone,
     ReplaySend, ReplayDlqSend
<1>5. CASE DrainBegin \/ StopBegin \/ StopAbandoned \/ Stop
  BY <1>5 DEF DrainBegin, StopBegin, StopAbandoned, Stop, DrainDone, StopDone
<1> QED
  BY <1>1, <1>2, <1>3, <1>4, <1>5 DEF Next

\* What a handler changes: it takes the head of its channel and counts it.
LEMMA HandlerCounts ==
  ASSUME TypeInv, NEW s \in Subs, Handler(s), NEW h, h = Head(inbox[s])
  PROVE  /\ h \in Events /\ inbox[s] \in Seq(Events) /\ inbox[s] # <<>>
         /\ h \in Range(inbox[s]) /\ Range(inbox[s]) = {h} \cup Range(Tail(inbox[s]))
         /\ inbox'[s] = Tail(inbox[s])
         /\ \A t \in Subs : t # s => inbox'[t] = inbox[t]
         /\ handled'[h][s] <= handled[h][s] + 1
         /\ \A e \in Events, t \in Subs : e # h \/ t # s => handled'[e][t] = handled[e][t]
<1>1. PICK ok \in BOOLEAN : Handle(s, ok)
  BY DEF Handler
<1> DEFINE n == IF handled[h][s] < Counted(h) THEN handled[h][s] + 1 ELSE handled[h][s]
<1>2. /\ h \in Events /\ inbox[s] \in Seq(Events) /\ inbox[s] # <<>>
      /\ inbox' = [inbox EXCEPT ![s] = Tail(inbox[s])]
      /\ handled' = [handled EXCEPT ![h][s] = n]
  BY <1>1, HandlerTakes
<1>3. Range(inbox[s]) = {h} \cup Range(Tail(inbox[s]))
  BY <1>2, TailElements
<1>4. n <= handled[h][s] + 1
  <2>1. handled[h][s] \in 0 .. 2
    BY <1>2 DEF TypeInv, HandlerTypes
  <2> QED
    BY <2>1
<1> HIDE DEF n
<1>5. handled'[h][s] = n /\ \A e \in Events, t \in Subs : e # h \/ t # s => handled'[e][t] = handled[e][t]
  BY <1>2 DEF TypeInv, HandlerTypes
<1>6. inbox'[s] = Tail(inbox[s]) /\ \A t \in Subs : t # s => inbox'[t] = inbox[t]
  BY <1>2 DEF TypeInv, HandlerTypes
<1> QED
  BY <1>2, <1>3, <1>4, <1>5, <1>6

\* What was not sent is not handled.
LEMMA StepKeepsSilent ==
  ASSUME TypeInv, Unsent, Silent, [Next]_vars
  PROVE  Silent'
<1> SUFFICES ASSUME NEW e \in Events, call'[e] \in {"idle", "sending", "err"}, NEW s \in Subs
             PROVE  handled'[e][s] = 0
  BY DEF Silent
<1>1. call[e] \in {"idle", "sending", "err"}
  BY CallGoesOn DEF TypeInv, CallTypes
<1>2. handled[e][s] = 0 /\ \A t \in Subs : e \notin Range(inbox[t])
  BY <1>1 DEF Silent, Unsent, Somewhere, Arrived
<1>3. CASE UNCHANGED handled
  BY <1>2, <1>3
<1>4. ASSUME NEW t \in Subs, Handler(t) PROVE handled'[e][s] = 0
  <2>1. Head(inbox[t]) # e
    BY <1>2, <1>4, HandlerCounts
  <2> QED
    BY <1>2, <1>4, <2>1, HandlerCounts
<1> QED
  BY <1>3, <1>4, OnlyHandlersHandle

\* Nothing gets to the worker without a subscription.
LEMMA StepKeepsAttended ==
  ASSUME TypeInv, Attended, [Next]_vars
  PROVE  Attended'
<1> USE DEF pollerVars, replayVars, workerVars, controlVars, history, disk
<1>0. /\ queue \in Seq(Events) /\ batch \in Seq(Events)
  BY DEF TypeInv, WorkerTypes
<1>2. CASE Restart
  <2>1. queue' = <<>> /\ batch' = <<>> /\ resend' = {}
    BY <1>2 DEF Restart
  <2>2. \A e \in Events : call'[e] # "sending"
    BY <1>2 DEF Restart
  <2> QED
    BY <2>1, <2>2, NothingInside DEF Attended
<1>3. CASE StopDone \/ StopAbandoned
  BY <1>3 DEF StopDone, StopAbandoned, Attended
<1>4. ASSUME UNCHANGED <<subs, audience>>, stop \notin {"stopped", "abandoned"} \/ UNCHANGED stop,
             Range(queue') \cup Range(batch') \subseteq Range(queue) \cup Range(batch),
             \A e \in Events : call'[e] = "sending" => call[e] = "sending"
      PROVE  Attended'
  BY <1>4 DEF Attended
<1>5. CASE WorkerRecv
  <2>1. /\ queue # <<>> /\ queue' = Tail(queue) /\ (batch' = batch \/ batch' = Append(batch, Head(queue)))
        /\ UNCHANGED <<subs, replay, resend, audience, stop>>
    BY <1>5 DEF WorkerRecv
  <2>2. Head(queue) \in Events /\ Range(queue) = {Head(queue)} \cup Range(Tail(queue))
    BY <1>0, <2>1, TailElements
  <2>3. Range(Append(batch, Head(queue))) = Range(batch) \cup {Head(queue)}
    BY <1>0, <2>2, AppendElements
  <2>4. \A e \in Events : call'[e] = "sending" => call[e] = "sending"
    BY <1>5 DEF WorkerRecv, Confirmed
  <2>5. Range(queue') \cup Range(batch') \subseteq Range(queue) \cup Range(batch)
    BY <2>1, <2>2, <2>3
  <2> QED
    BY <1>4, <2>1, <2>4, <2>5
<1>6. CASE WorkerDeliver
  <2>1. /\ batch # <<>> /\ batch' = Tail(batch) /\ UNCHANGED <<queue, subs, replay, resend, audience, stop>>
    BY <1>6 DEF WorkerDeliver, TypeInv, WorkerTypes
  <2>2. Range(batch) = {Head(batch)} \cup Range(Tail(batch))
    BY <1>0, <2>1, TailElements
  <2>3. \A e \in Events : call'[e] = "sending" => call[e] = "sending"
    BY <1>6 DEF WorkerDeliver, Confirmed
  <2> QED
    BY <1>4, <2>1, <2>2, <2>3
<1>7. CASE WorkerBreak \/ WorkerStoreFails
  <2>1. /\ queue' = queue \/ queue' = <<>>
        /\ batch' = batch \/ batch' = <<>>
        /\ UNCHANGED <<subs, replay, resend, audience, stop>>
    BY <1>7 DEF WorkerBreak, WorkerStoreFails
  <2>2. \A e \in Events : call'[e] = "sending" => call[e] = "sending"
    BY <1>7 DEF WorkerBreak, WorkerStoreFails, Confirmed
  <2>3. Range(queue') \cup Range(batch') \subseteq Range(queue) \cup Range(batch)
    BY <2>1, NothingInside
  <2> QED
    BY <1>4, <2>1, <2>2, <2>3
<1>8. CASE \/ WorkerClosed \/ WorkerCount \/ WorkerStore \/ AckWorker \/ PollerPull \/ PollerExit \/ DrainBegin
           \/ StopBegin \/ DrainDone \/ Rest \/ UNCHANGED vars \/ \E s \in Subs : Handler(s)
  <2>1. UNCHANGED <<queue, batch, subs, replay, resend, audience, call>> /\ (stop \notin {"stopped", "abandoned"} \/ UNCHANGED stop)
    BY <1>8 DEF WorkerClosed, WorkerCount, WorkerStore, AckWorker, AckApply, AckFails, PollerPull, PollerExit,
       DrainBegin, StopBegin, DrainDone, Rest, vars, Handler, Handle
  <2> QED
    BY <1>4, <2>1
<1>9. ASSUME NEW group \in Groups, Subscribe(group) PROVE Attended'
  BY <1>9 DEF Subscribe, Attended
<1>10. CASE ReplayPending \/ ReplayDlq \/ ReplayDone
  <2>1. UNCHANGED <<queue, batch, subs, audience, call, stop>>
    BY <1>10 DEF ReplayPending, ReplayDlq, ReplayDone
  <2> QED
    BY <2>1 DEF Attended
<1>11. ASSUME NEW f \in Events, PollerSend(f) \/ ReplaySend(f) \/ ReplayDlqSend(f) PROVE Attended'
  <2>1. /\ UNCHANGED <<batch, subs, audience, call, stop>>
        /\ queue' # queue => subs # {} \/ stop = "abandoned"
    BY <1>11 DEF PollerSend, ReplaySend, ReplayDlqSend
  <2> QED
    BY <2>1 DEF Attended
<1>12. ASSUME NEW f \in Events, PublishSend(f) PROVE Attended'
  <2>1. /\ UNCHANGED <<batch, subs, audience, stop, replay, resend>> /\ call[f] = "sending" /\ queue' = Append(queue, f)
    BY <1>12 DEF PublishSend
  <2>2. \A e \in Events : call'[e] = "sending" => call[e] = "sending"
    BY <1>12 DEF PublishSend, TypeInv, CallTypes
  <2>3. Range(Append(queue, f)) = Range(queue) \cup {f}
    BY <1>0, AppendElements
  <2> QED
    BY <2>1, <2>2, <2>3 DEF Attended
<1>13. ASSUME NEW f \in Events, Elapse(f) \/ PublishFull(f) PROVE Attended'
  <2>1. UNCHANGED <<queue, batch, subs, replay, resend, audience, stop>>
    BY <1>13 DEF Elapse, PublishFull
  <2>2. \A e \in Events : call'[e] = "sending" => call[e] = "sending"
    BY <1>13 DEF Elapse, PublishFull, TypeInv, CallTypes
  <2> QED
    BY <1>4, <2>1, <2>2
<1>14. ASSUME NEW f \in Events, PublishBegin(f) PROVE Attended'
  <2>1. /\ UNCHANGED <<queue, batch, subs, replay, resend, stop>>
        /\ audience'[f] = subs /\ \A e \in Events : e # f => call'[e] = call[e] /\ audience'[e] = audience[e]
    BY <1>14 DEF PublishBegin, TypeInv, CallTypes
  <2> QED
    BY <2>1 DEF Attended
<1> QED
  BY <1>2, <1>3, <1>5, <1>6, <1>7, <1>8, <1>9, <1>10, <1>11, <1>12, <1>13, <1>14
     DEF Next, Publish, Worker, Poller, Replay, Stop

\* The event, its rivals and what handlers have of them stay as they are.
LEMMA RivalsStay ==
  ASSUME NEW e \in Events, UNCHANGED <<meta, audience>>
  PROVE  /\ Idempotent(e)' <=> Idempotent(e)
         /\ Rivals(e)' = Rivals(e)
         /\ UNCHANGED <<inbox, handled>> => (NoneTaken(e)' <=> NoneTaken(e))
<1>1. \A f : Idempotent(f)' <=> Idempotent(f)
  BY DEF Idempotent
<1>2. Rivals(e)' = Rivals(e)
  BY <1>1 DEF Rivals
<1> QED
  BY <1>1, <1>2 DEF NoneTaken

\* Steps that leave the batch, the handlers and the keys alone.
LEMMA KeysUntouched ==
  ASSUME AllSingle, UNCHANGED <<processed_keys, batch, inbox, handled, meta, audience>>,
         worker' \in {worker, "exited"},
         subs = {} /\ stop \in {"stopped", "abandoned"} => subs' = {} /\ stop' \in {"stopped", "abandoned"}
  PROVE  AllSingle'
<1> SUFFICES ASSUME NEW e \in Events, Idempotent(e)'
             PROVE  Fresh(e)' /\ Chosen(e)' /\ Received(e)' /\ Single(e)'
  BY DEF AllSingle
<1>1. /\ Idempotent(e) /\ Rivals(e)' = Rivals(e) /\ (NoneTaken(e)' <=> NoneTaken(e))
  BY RivalsStay
<1>2. Fresh(e) /\ Chosen(e) /\ Received(e) /\ Single(e)
  BY <1>1 DEF AllSingle
<1>3. Fresh(e)'
  BY <1>1, <1>2 DEF Fresh
<1>4. Chosen(e)'
  BY <1>1, <1>2 DEF Chosen
<1>5. Received(e)'
  BY <1>1, <1>2 DEF Received
<1>6. Single(e)'
  BY <1>1, <1>2 DEF Single
<1> QED
  BY <1>3, <1>4, <1>5, <1>6

\* A publish call begins: its event is nowhere, and nobody has handled it.
LEMMA BeginKeepsKeys ==
  ASSUME TypeInv, Unsent, Silent, AllSingle, NEW g \in Events, PublishBegin(g)
  PROVE  AllSingle'
<1> USE DEF pollerVars, replayVars, workerVars, controlVars, history, disk
<1>1. /\ UNCHANGED <<processed_keys, batch, inbox, handled, worker, subs, stop>> /\ call[g] = "idle"
  BY DEF PublishBegin
<1>2. PICK m : meta' = [meta EXCEPT ![g] = m]
  BY DEF PublishBegin
<1>3. \A f \in Events : f # g => meta'[f] = meta[f] /\ audience'[f] = audience[f]
  BY <1>2 DEF PublishBegin, TypeInv, CallTypes
<1>4. /\ g \notin Range(batch) /\ \A s \in Subs : g \notin Range(inbox[s]) /\ handled[g][s] = 0
  BY <1>1 DEF Unsent, Somewhere, Travelling, Arrived, Silent
<1>5. \A f \in Events : f # g => (Idempotent(f)' <=> Idempotent(f))
  BY <1>3 DEF Idempotent
<1>6. Range(batch) \subseteq Events
  BY RangeOfSeq DEF TypeInv, WorkerTypes
<1> SUFFICES ASSUME NEW e \in Events, Idempotent(e)'
             PROVE  Fresh(e)' /\ Chosen(e)' /\ Received(e)' /\ Single(e)'
  BY DEF AllSingle
<1>7. CASE e = g
  <2>1. ASSUME meta'[e].key \notin processed_keys, NEW f \in Rivals(e)', NEW s \in Subs
        PROVE  handled[f][s] = 0 /\ f \notin Range(inbox[s])
    <3>1. CASE f = g
      BY <1>4, <3>1
    <3>2. CASE f # g
      <4>1. f \in Events /\ Idempotent(f) /\ meta[f].key \notin processed_keys
        BY <1>3, <1>5, <2>1, <3>2 DEF Rivals
      <4>2. NoneTaken(f) /\ f \in Rivals(f)
        BY <4>1 DEF AllSingle, Fresh, Rivals
      <4> QED
        BY <4>2 DEF NoneTaken
    <3> QED
      BY <3>1, <3>2
  <2>2. Fresh(e)'
    BY <1>1, <2>1 DEF Fresh, NoneTaken
  <2>3. Chosen(e)' /\ Received(e)'
    BY <1>1, <1>4, <1>7 DEF Chosen, Received
  <2>4. Single(e)'
    BY <1>1, <1>4, <1>7 DEF Single
  <2> QED
    BY <2>2, <2>3, <2>4
<1>8. CASE e # g
  <2>1. Idempotent(e) /\ meta'[e] = meta[e] /\ Fresh(e) /\ Chosen(e) /\ Received(e) /\ Single(e)
    BY <1>3, <1>5, <1>8 DEF AllSingle
  <2>2. \A f \in Rivals(e)' : f = g \/ f \in Rivals(e)
    BY <1>3, <1>5, <2>1 DEF Rivals
  <2>3. NoneTaken(e) => NoneTaken(e)'
    BY <1>1, <1>4, <2>2 DEF NoneTaken
  <2>4. Fresh(e)'
    BY <1>1, <2>1, <2>3 DEF Fresh
  <2>5. Chosen(e)'
    <3>1. \A f \in Range(batch) : meta'[f] = meta[f]
      BY <1>3, <1>4, <1>6
    <3> QED
      BY <1>1, <2>1, <2>3, <3>1 DEF Chosen
  <2>6. Received(e)'
    BY <1>1, <1>4, <2>1, <2>2 DEF Received
  <2>7. Single(e)'
    BY <1>1, <1>4, <2>1, <2>2 DEF Single
  <2> QED
    BY <2>4, <2>5, <2>6, <2>7
<1> QED
  BY <1>7, <1>8

\* A crash, or the end of the handlers: the keys are on disk.
LEMMA EndKeepsKeys ==
  ASSUME AllSingle, Restart \/ StopDone \/ StopAbandoned
  PROVE  AllSingle'
<1> USE DEF pollerVars, replayVars, workerVars, controlVars, history, disk
<1>1. /\ UNCHANGED <<processed_keys, handled, meta, audience>> /\ inbox' = [s \in Subs |-> <<>>]
      /\ batch' = <<>> \/ (UNCHANGED <<batch, worker>> /\ subs' = {} /\ stop' \in {"stopped", "abandoned"})
  BY DEF Restart, StopDone, StopAbandoned
<1>2. \A s \in Subs : Range(inbox'[s]) = {}
  BY <1>1, NothingInside
<1> SUFFICES ASSUME NEW e \in Events, Idempotent(e)'
             PROVE  Fresh(e)' /\ Chosen(e)' /\ Received(e)' /\ Single(e)'
  BY DEF AllSingle
<1>3. Idempotent(e) /\ Rivals(e)' = Rivals(e)
  BY <1>1, RivalsStay
<1>4. Fresh(e) /\ Chosen(e) /\ Received(e) /\ Single(e)
  BY <1>3 DEF AllSingle
<1>5. NoneTaken(e) => NoneTaken(e)'
  BY <1>1, <1>2, <1>3 DEF NoneTaken
<1>6. Fresh(e)'
  BY <1>1, <1>4, <1>5 DEF Fresh
<1>7. Chosen(e)'
  BY <1>1, <1>4, <1>5, NothingInside DEF Chosen
<1>8. Received(e)'
  BY <1>2 DEF Received
<1>9. Single(e)'
  BY <1>1, <1>3, <1>4 DEF Single
<1> QED
  BY <1>6, <1>7, <1>8, <1>9

\* The worker receives, and keeps one event per key.
LEMMA ReceiveKeepsKeys ==
  ASSUME TypeInv, Closing, AllSingle, WorkerRecv
  PROVE  AllSingle'
<1> USE DEF pollerVars, replayVars, workerVars, controlVars, history, disk
<1> DEFINE h == Head(queue)
<1>1. /\ UNCHANGED <<processed_keys, handled, meta, audience, inbox>> /\ worker' = "drain"
      /\ worker \in {"recv", "drain"} /\ queue # <<>>
      /\ batch' = batch \/ (batch' = Append(batch, h) /\ ~IsDuplicate(h))
  BY DEF WorkerRecv
<1>2. queue \in Seq(Events) /\ batch \in Seq(Events)
  BY DEF TypeInv, WorkerTypes
<1>3. h \in Events
  BY <1>1, <1>2, TailElements
<1> HIDE DEF h
<1>4. Range(Append(batch, h)) = Range(batch) \cup {h}
  BY <1>2, <1>3, AppendElements
<1>5. ~IsDuplicate(h) /\ meta[h].key # NoKey =>
        meta[h].key \notin processed_keys /\ \A f \in Range(batch) : meta[f].key # meta[h].key
  BY DEF IsDuplicate, Range
<1>6. worker = "recv" => Range(batch) = {}
  BY NothingInside DEF Closing
<1> SUFFICES ASSUME NEW e \in Events, Idempotent(e)'
             PROVE  Fresh(e)' /\ Chosen(e)' /\ Received(e)' /\ Single(e)'
  BY DEF AllSingle
<1>7. /\ Idempotent(e) /\ Rivals(e)' = Rivals(e) /\ (NoneTaken(e)' <=> NoneTaken(e))
  BY <1>1, RivalsStay
<1>8. Fresh(e) /\ Chosen(e) /\ Received(e) /\ Single(e) /\ meta[e].key # NoKey
  BY <1>7 DEF AllSingle, Idempotent
<1>9. Fresh(e)' /\ Received(e)' /\ Single(e)'
  BY <1>1, <1>7, <1>8 DEF Fresh, Received, Single
<1>10. CASE batch' = batch
  <2>1. Chosen(e)'
    BY <1>1, <1>6, <1>8, <1>10 DEF Chosen
  <2> QED
    BY <1>9, <2>1
<1>11. CASE batch' = Append(batch, h) /\ ~IsDuplicate(h)
  <2>1. CASE e \in Range(batch)
    <3>1. h # e /\ meta[h].key # meta[e].key
      BY <1>5, <1>8, <1>11, <2>1
    <3>2. AtMostOnce(batch', e)
      BY <1>2, <1>3, <1>8, <1>11, <2>1, <3>1, AppendOnce DEF Chosen
    <3>3. Chosen(e)'
      BY <1>1, <1>4, <1>6, <1>8, <1>11, <2>1, <3>1, <3>2 DEF Chosen
    <3> QED
      BY <1>9, <3>3
  <2>2. CASE e \notin Range(batch) /\ e = h
    <3>1. AtMostOnce(batch', e)
      BY <1>2, <1>3, <1>11, <2>2, AbsentOnce, AppendOnce
    <3>2. Chosen(e)'
      BY <1>1, <1>4, <1>5, <1>8, <1>11, <2>2, <3>1 DEF Chosen
    <3> QED
      BY <1>9, <3>2
  <2>3. CASE e \notin Range(batch) /\ e # h
    BY <1>4, <1>9, <1>11, <2>3 DEF Chosen
  <2> QED
    BY <2>1, <2>2, <2>3
<1> QED
  BY <1>1, <1>10, <1>11

\* The worker counts and stores: the keys of the batch get into the table.
LEMMA StoreKeepsKeys ==
  ASSUME TypeInv, Attended, AllSingle, WorkerCount \/ WorkerStore
  PROVE  AllSingle'
<1> USE DEF pollerVars, replayVars, workerVars, controlVars, history, disk
<1>1. /\ UNCHANGED <<handled, meta, audience, inbox, batch, subs, stop>> /\ worker \in {"drain", "store"}
      /\ processed_keys \subseteq processed_keys'
  BY DEF WorkerCount, WorkerStore
<1> SUFFICES ASSUME NEW e \in Events, Idempotent(e)'
             PROVE  Fresh(e)' /\ Chosen(e)' /\ Received(e)' /\ Single(e)'
  BY DEF AllSingle
<1>2. /\ Idempotent(e) /\ Rivals(e)' = Rivals(e) /\ (NoneTaken(e)' <=> NoneTaken(e))
  BY <1>1, RivalsStay
<1>3. Fresh(e) /\ Chosen(e) /\ Received(e) /\ Single(e) /\ meta[e].key # NoKey /\ audience[e] # {}
  BY <1>2 DEF AllSingle, Idempotent
<1>4. Fresh(e)' /\ Received(e)' /\ Single(e)'
  BY <1>1, <1>2, <1>3 DEF Fresh, Received, Single
<1>5. CASE e \notin Range(batch)
  BY <1>1, <1>4, <1>5 DEF Chosen
<1>6. e \in Range(batch) => e \in Storable
  BY <1>2 DEF Storable, Idempotent
<1>7. CASE e \in Range(batch)
  <2>1. meta[e].key \notin processed_keys /\ NoneTaken(e)
    BY <1>1, <1>3, <1>7 DEF Chosen, Fresh
  <2>2. CASE WorkerStore
    <3>1. worker' = "deliver" /\ meta[e].key \in processed_keys'
      BY <1>3, <1>6, <1>7, <2>2 DEF WorkerStore
    <3>2. Chosen(e)'
      BY <1>1, <1>2, <1>3, <1>7, <2>1, <3>1 DEF Chosen
    <3> QED
      BY <1>4, <3>2
  <2>3. CASE WorkerCount
    <3>1. UNCHANGED processed_keys /\ worker' \in {"recv", "deliver", "store"} /\ (worker' = "deliver" => subs = {})
      BY <1>6, <1>7, <2>3 DEF WorkerCount
    <3>2. subs = {} => stop \in {"stopped", "abandoned"}
      BY <1>3, <1>7 DEF Attended
    <3>3. Chosen(e)'
      BY <1>1, <1>2, <1>3, <1>7, <2>1, <3>1, <3>2 DEF Chosen
    <3> QED
      BY <1>4, <3>3
  <2> QED
    BY <2>2, <2>3
<1> QED
  BY <1>5, <1>7

\* The worker delivers: the handlers get the event that has the key.
LEMMA DeliverKeepsKeys ==
  ASSUME TypeInv, AllSingle, WorkerDeliver
  PROVE  AllSingle'
<1> USE DEF pollerVars, replayVars, workerVars, controlVars, history, disk
<1> DEFINE h == Head(batch)
<1>1. /\ UNCHANGED <<processed_keys, handled, meta, audience, subs, stop>> /\ worker = "deliver"
      /\ worker' \in {"recv", "deliver"} /\ batch' = Tail(batch) /\ batch # <<>>
  BY DEF WorkerDeliver, TypeInv, WorkerTypes
<1>2. PICK sent : /\ sent \subseteq subs
                  /\ inbox' = [s \in Subs |-> IF s \in sent THEN Append(inbox[s], h) ELSE inbox[s]]
  BY DEF WorkerDeliver
<1>3. /\ batch \in Seq(Events) /\ \A s \in Subs : inbox[s] \in Seq(Events)
  BY DEF TypeInv, WorkerTypes, HandlerTypes
<1>4. h \in Events /\ h \in Range(batch) /\ Range(batch) = {h} \cup Range(Tail(batch))
  BY <1>1, <1>3, TailElements
<1> HIDE DEF h
<1>5. \A s \in Subs : Range(Append(inbox[s], h)) = Range(inbox[s]) \cup {h}
  BY <1>3, <1>4, AppendElements
<1>6. \A s \in Subs : \A f \in Range(inbox'[s]) : f \in Range(inbox[s]) \/ (f = h /\ subs # {})
  BY <1>2, <1>5
<1> SUFFICES ASSUME NEW e \in Events, Idempotent(e)'
             PROVE  Fresh(e)' /\ Chosen(e)' /\ Received(e)' /\ Single(e)'
  BY DEF AllSingle
<1>7. Idempotent(e) /\ Rivals(e)' = Rivals(e)
  BY <1>1, RivalsStay
<1>8. Fresh(e) /\ Chosen(e) /\ Received(e) /\ Single(e) /\ e \in Rivals(e)
  BY <1>7 DEF AllSingle, Rivals
<1>9. h \in Rivals(e) => /\ e \in Rivals(h) /\ NoneTaken(h) /\ Rivals(h) = Rivals(e)
                         /\ meta[e].key \in processed_keys \/ subs = {}
  <2>1. ASSUME h \in Rivals(e) PROVE Idempotent(h) /\ meta[h].key = meta[e].key
    BY <2>1 DEF Rivals
  <2>2. ASSUME h \in Rivals(e) PROVE Chosen(h) /\ e \in Rivals(h) /\ Rivals(h) = Rivals(e)
    BY <1>4, <1>7, <2>1, <2>2 DEF AllSingle, Rivals
  <2> QED
    BY <1>1, <1>4, <2>1, <2>2 DEF Chosen
<1>10. Fresh(e)'
  <2> SUFFICES ASSUME meta'[e].key \notin processed_keys', NEW f \in Rivals(e), NEW s \in Subs
               PROVE  handled'[f][s] = 0 /\ f \notin Range(inbox'[s])
    BY <1>7 DEF Fresh, NoneTaken
  <2>1. handled[f][s] = 0 /\ f \notin Range(inbox[s])
    BY <1>1, <1>8 DEF Fresh, NoneTaken
  <2>2. ~(f = h /\ subs # {})
    BY <1>1, <1>9
  <2> QED
    BY <1>1, <1>6, <2>1, <2>2
<1>11. Chosen(e)'
  <2> SUFFICES ASSUME e \in Range(Tail(batch)) PROVE Chosen(e)'
    BY <1>1 DEF Chosen
  <2>1. /\ e \in Range(batch) /\ AtMostOnce(batch, e) /\ NoneTaken(e)
        /\ meta[e].key \in processed_keys \/ (subs = {} /\ stop \in {"stopped", "abandoned"})
        /\ \A f \in Range(batch) : meta[f].key = meta[e].key => f = e
    BY <1>1, <1>4, <1>8 DEF Chosen
  <2>2. h # e /\ AtMostOnce(Tail(batch), e)
    BY <1>1, <1>3, <2>1, TailOnce DEF h
  <2>3. h \notin Rivals(e)
    BY <1>4, <2>1, <2>2 DEF Rivals
  <2>4. NoneTaken(e)'
    BY <1>1, <1>6, <1>7, <2>1, <2>3 DEF NoneTaken
  <2> QED
    BY <1>1, <1>4, <2>1, <2>2, <2>4 DEF Chosen
<1>12. Received(e)'
  <2> SUFFICES ASSUME NEW s \in Subs, e \in Range(inbox'[s])
               PROVE  /\ AtMostOnce(inbox'[s], e)
                      /\ \A f \in Rivals(e) : handled[f][s] = 0 /\ (f \in Range(inbox'[s]) => f = e)
    BY <1>1, <1>7 DEF Received
  <2>1. CASE e \in Range(inbox[s])
    <3>1. h \notin Rivals(e)
      BY <1>9, <2>1 DEF NoneTaken
    <3>2. AtMostOnce(inbox[s], e) /\ \A f \in Rivals(e) : handled[f][s] = 0 /\ (f \in Range(inbox[s]) => f = e)
      BY <1>8, <2>1 DEF Received
    <3>3. AtMostOnce(Append(inbox[s], h), e)
      BY <1>3, <1>4, <1>8, <3>1, <3>2, AppendOnce
    <3> QED
      BY <1>2, <1>6, <3>1, <3>2, <3>3
  <2>2. CASE e \notin Range(inbox[s])
    <3>1. e = h
      BY <1>6, <2>2
    <3>2. \A f \in Rivals(e) : handled[f][s] = 0 /\ f \notin Range(inbox[s])
      BY <1>8, <1>9, <3>1 DEF NoneTaken
    <3>3. AtMostOnce(Append(inbox[s], h), e) /\ AtMostOnce(inbox[s], e)
      BY <1>3, <1>4, <2>2, AbsentOnce, AppendOnce
    <3> QED
      BY <1>2, <1>6, <3>1, <3>2, <3>3
  <2> QED
    BY <2>1, <2>2
<1>13. Single(e)'
  BY <1>1, <1>7, <1>8 DEF Single
<1> QED
  BY <1>10, <1>11, <1>12, <1>13

\* A handler handles: it was the only event with its key that the handler had.
LEMMA HandleKeepsKeys ==
  ASSUME TypeInv, AllSingle, NEW t \in Subs, Handler(t)
  PROVE  AllSingle'
<1> USE DEF pollerVars, replayVars, workerVars, controlVars, history, disk
<1> DEFINE h == Head(inbox[t])
<1>1. UNCHANGED <<processed_keys, meta, audience, subs, stop, batch, worker>>
  BY DEF Handler, Handle
<1>2. /\ h \in Events /\ inbox[t] \in Seq(Events) /\ inbox[t] # <<>>
      /\ h \in Range(inbox[t]) /\ Range(inbox[t]) = {h} \cup Range(Tail(inbox[t]))
      /\ inbox'[t] = Tail(inbox[t])
      /\ \A s \in Subs : s # t => inbox'[s] = inbox[s]
      /\ handled'[h][t] <= handled[h][t] + 1
      /\ \A f \in Events, s \in Subs : f # h \/ s # t => handled'[f][s] = handled[f][s]
  BY HandlerCounts
<1>3. \A s \in Subs : Range(inbox'[s]) \subseteq Range(inbox[s])
  BY <1>2
<1>4. \A f : AtMostOnce(inbox[t], f) => AtMostOnce(Tail(inbox[t]), f) /\ (h = f => f \notin Range(Tail(inbox[t])))
  BY <1>2, TailOnce
<1> HIDE DEF h
<1> SUFFICES ASSUME NEW e \in Events, Idempotent(e)'
             PROVE  Fresh(e)' /\ Chosen(e)' /\ Received(e)' /\ Single(e)'
  BY DEF AllSingle
<1>5. Idempotent(e) /\ Rivals(e)' = Rivals(e) /\ Rivals(e) \subseteq Events
  BY <1>1, RivalsStay DEF Rivals
<1>6. Fresh(e) /\ Chosen(e) /\ Received(e) /\ Single(e) /\ e \in Rivals(e)
  BY <1>5 DEF AllSingle, Rivals
<1>7. NoneTaken(e) => NoneTaken(e)'
  <2>1. NoneTaken(e) => h \notin Rivals(e)
    BY <1>2 DEF NoneTaken
  <2> QED
    BY <1>2, <1>3, <1>5, <2>1 DEF NoneTaken
<1>8. Fresh(e)'
  BY <1>1, <1>6, <1>7 DEF Fresh
<1>9. Chosen(e)'
  BY <1>1, <1>6, <1>7 DEF Chosen
<1>10. Received(e)'
  <2> SUFFICES ASSUME NEW s \in Subs, e \in Range(inbox'[s])
               PROVE  /\ AtMostOnce(inbox'[s], e)
                      /\ \A f \in Rivals(e) : handled'[f][s] = 0 /\ (f \in Range(inbox'[s]) => f = e)
    BY <1>5 DEF Received
  <2>1. /\ e \in Range(inbox[s]) /\ AtMostOnce(inbox[s], e)
        /\ \A f \in Rivals(e) : handled[f][s] = 0 /\ (f \in Range(inbox[s]) => f = e)
    BY <1>3, <1>6 DEF Received
  <2>2. AtMostOnce(inbox'[s], e)
    BY <1>2, <1>4, <2>1
  <2>3. s = t => h \notin Rivals(e)
    BY <1>2, <1>4, <2>1
  <2>4. \A f \in Rivals(e) : handled'[f][s] = handled[f][s]
    BY <1>2, <1>5, <2>3
  <2> QED
    BY <1>3, <2>1, <2>2, <2>4
<1>11. Single(e)'
  <2> SUFFICES ASSUME NEW s \in Subs
               PROVE  /\ handled'[e][s] < 2
                      /\ \A f \in Rivals(e) \ {e} : handled'[e][s] = 0 \/ handled'[f][s] = 0
    BY <1>5 DEF Single
  <2>1. handled[e][s] < 2 /\ \A f \in Rivals(e) \ {e} : handled[e][s] = 0 \/ handled[f][s] = 0
    BY <1>6 DEF Single
  <2>2. CASE s # t \/ h \notin Rivals(e)
    BY <1>2, <1>5, <1>6, <2>1, <2>2
  <2>3. CASE s = t /\ h = e
    <3>1. \A f \in Rivals(e) : handled[f][s] = 0
      BY <1>2, <1>6, <2>3 DEF Received
    <3>2. handled'[e][s] <= handled[e][s] + 1 /\ \A f \in Rivals(e) \ {e} : handled'[f][s] = handled[f][s]
      BY <1>2, <1>5, <2>3
    <3>3. handled[e][s] = 0 /\ handled'[e][s] \in Int
      <4>1. handled'[e][s] \in 0 .. 2
        BY StepKeepsHandlerTypes DEF HandlerTypes, Next
      <4> QED
        BY <1>6, <3>1, <4>1
    <3> QED
      BY <3>1, <3>2, <3>3
  <2>4. CASE s = t /\ h # e /\ h \in Rivals(e)
    <3>1. Idempotent(h) /\ e \in Rivals(h)
      BY <1>5, <2>4 DEF Rivals
    <3>2. Received(h)
      BY <1>2, <3>1 DEF AllSingle
    <3>3. handled[e][s] = 0
      BY <1>2, <2>4, <3>1, <3>2 DEF Received
    <3>4. handled'[e][s] = 0
      BY <1>2, <2>4, <3>3
    <3> QED
      BY <3>4
  <2> QED
    BY <2>2, <2>3, <2>4
<1> QED
  BY <1>8, <1>9, <1>10, <1>11

\* A step that fails no transaction keeps the keys.
LEMMA StepKeepsKeys ==
  ASSUME TypeInv, Unsent, Closing, Silent, Attended, AllSingle, [Next]_vars, ~disk_failed'
  PROVE  AllSingle'
<1> USE DEF pollerVars, replayVars, workerVars, controlVars, history, disk
<1> DEFINE Goal == AllSingle'
           Untouched == /\ UNCHANGED <<processed_keys, batch, inbox, handled, meta, audience>>
                        /\ worker' \in {worker, "exited"}
                        /\ subs = {} /\ stop \in {"stopped", "abandoned"} => subs' = {} /\ stop' \in {"stopped", "abandoned"}
<1> SUFFICES Goal
  OBVIOUS
<1>1. Untouched => Goal
  BY KeysUntouched
<1>2. (Restart \/ StopDone \/ StopAbandoned) => Goal
  BY EndKeepsKeys
<1>3. WorkerRecv => Goal
  BY ReceiveKeepsKeys
<1>4. (WorkerCount \/ WorkerStore) => Goal
  BY StoreKeepsKeys
<1>5. WorkerDeliver => Goal
  BY DeliverKeepsKeys
<1>6. ASSUME NEW s \in Subs, Handler(s) PROVE Goal
  BY <1>6, HandleKeepsKeys
<1>7. ASSUME NEW f \in Events, PublishBegin(f) PROVE Goal
  BY <1>7, BeginKeepsKeys
<1> HIDE DEF Goal
<1>8. CASE WorkerStoreFails \/ AckFails
  BY <1>8 DEF WorkerStoreFails, AckFails, DiskError
<1>9. ASSUME NEW f \in Events,
             Elapse(f) \/ Publish(f) \/ PollerSend(f) \/ ReplaySend(f) \/ ReplayDlqSend(f)
      PROVE  Goal
  BY <1>1, <1>9 DEF Elapse, Publish, PublishSend, PublishFull, PollerSend, ReplaySend, ReplayDlqSend
<1>10. CASE \/ WorkerBreak \/ WorkerClosed \/ AckApply \/ PollerPull \/ PollerExit
            \/ ReplayPending \/ ReplayDlq \/ ReplayDone
  BY <1>1, <1>10 DEF WorkerBreak, WorkerClosed, AckApply, PollerPull, PollerExit, ReplayPending, ReplayDlq,
     ReplayDone
<1>11. CASE \/ DrainBegin \/ StopBegin \/ DrainDone \/ Rest \/ UNCHANGED vars
            \/ \E group \in Groups : Subscribe(group)
  BY <1>1, <1>11 DEF DrainBegin, StopBegin, DrainDone, Rest, vars, Subscribe
<1> QED
  BY <1>2, <1>3, <1>4, <1>5, <1>6, <1>7, <1>8, <1>9, <1>10, <1>11
     DEF Next, Worker, AckWorker, Poller, Replay, Stop

\* The invariant of the idempotency keys, from the moment a message is received.
THEOREM KeyInvariant == Spec => []KeyInv
<1> DEFINE Keys1 == Silent /\ Attended /\ (~disk_failed => AllSingle)
<1>1. Init => Keys1
  <2> SUFFICES ASSUME Init PROVE Keys1
    OBVIOUS
  <2>1. Silent
    BY DEF Init, Silent
  <2>2. \A e \in Events : audience[e] = {}
    BY DEF Init
  <2>3. Attended
    BY <2>2 DEF Init, Started, Attended
  <2>4. AllSingle
    BY <2>2 DEF AllSingle, Idempotent
  <2> QED
    BY <2>1, <2>3, <2>4
<1>2. ClosingInv /\ Keys1 /\ [Next]_vars => Keys1'
  <2> SUFFICES ASSUME ClosingInv, Keys1, [Next]_vars PROVE Keys1'
    OBVIOUS
  <2>1. TypeInv /\ Unsent /\ Closing
    BY DEF ClosingInv, DurableInv
  <2>2. Silent' /\ Attended'
    BY <2>1, StepKeepsSilent, StepKeepsAttended
  <2>3. ASSUME ~disk_failed' PROVE AllSingle'
    <3>1. ASSUME NEW e \in Events PROVE ~disk_failed
      BY <2>1, <2>3, HistoryStays
    <3>2. CASE Events = {}
      BY <3>2 DEF AllSingle
    <3>3. CASE Events # {}
      BY <2>1, <2>3, <3>1, <3>3, StepKeepsKeys
    <3> QED
      BY <3>2, <3>3
  <2> QED
    BY <2>2, <2>3
<1>3. ClosingInv /\ Keys1 => KeyInv
  BY DEF KeyInv
<1> HIDE DEF Keys1
<1> QED
  BY <1>1, <1>2, <1>3, ClosingInvariant, PTL DEF Spec

\* Of the events that share an idempotency key (process_events), a handler gets one at
\* most, and once at most, whatever crashes, replays and schedules do in between.
THEOREM KeyHandledOnce == Spec => []OncePerKey
<1>1. KeyInv => OncePerKey
  <2> SUFFICES ASSUME KeyInv, ~disk_failed, NEW s \in Subs, NEW e \in Events, NEW f \in Events,
                      Idempotent(e), Idempotent(f)
               PROVE  /\ handled[e][s] < 2
                      /\ e # f /\ meta[e].key = meta[f].key => handled[e][s] = 0 \/ handled[f][s] = 0
    BY DEF OncePerKey, Idempotent
  <2>1. Single(e)
    BY DEF KeyInv, AllSingle
  <2>2. meta[e].key = meta[f].key => f \in Rivals(e)
    BY DEF Rivals
  <2> QED
    BY <2>1, <2>2 DEF Single
<1> QED
  BY <1>1, KeyInvariant, PTL
-----------------------------------------------------------------------------
(* Scheduled events                                                        *)

\* No handler has what is not due, and the worker stores it for later.
Early(e) ==
  IsScheduled(e) =>
    /\ \A s \in Subs : handled[e][s] = 0 /\ e \notin Range(inbox[s])
    /\ worker = "store" /\ e \in Storable => e \in later

\* The events ScheduledOnTime promises to keep, from their publish call on.
Promised(e) ==
  /\ meta[e].scheduled /\ meta[e].key = NoKey /\ ~meta[e].broken /\ audience[e] = Subs
  /\ call[e] \in {"sending", "waiting", "ok"}
  /\ boots = 1 /\ stop = "no" /\ ~disk_failed /\ e \notin timed_out

\* Until it is delivered, such an event is in its table, or on its way from there, from
\* its publisher or in the worker's batch; and it is in its table when the worker passes
\* it over.
Kept(e) ==
  /\ subs = Subs
  /\ worker = "deliver" /\ e \in Range(batch) /\ IsScheduled(e) => e \in scheduled
  /\ \/ call[e] = "sending" \/ Delivered(e)
     \/ e \in scheduled \cup ready \cup Range(queue) \cup Range(batch)

ScheduleInv ==
  /\ KeyInv
  /\ boots \in Nat \ {0}
  /\ poller = "sleep" => ready = {}
  /\ \A e \in Events : Early(e) /\ (Promised(e) => Kept(e))

\* An event is not due before the step when it is not due after it, unless it is published.
LEMMA ScheduledBefore ==
  ASSUME TypeInv, [Next]_vars, NEW e \in Events, IsScheduled(e)', ~PublishBegin(e)
  PROVE  IsScheduled(e)
BY CallGoesOn, WorldGoesOn DEF IsScheduled

\* A step keeps the handlers from what is not due.
LEMMA StepKeepsEarly ==
  ASSUME TypeInv, Unsent, Silent, [Next]_vars, NEW e \in Events, Early(e)
  PROVE  Early(e)'
<1> USE DEF pollerVars, replayVars, workerVars, controlVars, history, disk
<1> DEFINE Away == \A s \in Subs : handled[e][s] = 0 /\ e \notin Range(inbox[s])
           Later == worker = "store" /\ e \in Storable => e \in later
<1> SUFFICES ASSUME IsScheduled(e)' PROVE Away' /\ Later'
  BY DEF Early
<1>0. /\ queue \in Seq(Events) /\ batch \in Seq(Events) /\ inbox \in [Subs -> Seq(Events)]
  BY DEF TypeInv, WorkerTypes, HandlerTypes
<1>1. CASE PublishBegin(e)
  <2>1. call[e] = "idle" /\ UNCHANGED <<handled, inbox, worker, batch, later>>
    BY <1>1 DEF PublishBegin
  <2>2. ~Somewhere(e) /\ \A s \in Subs : handled[e][s] = 0
    BY <2>1 DEF Unsent, Silent
  <2> QED
    BY <2>1, <2>2 DEF Somewhere, Travelling, Arrived, Storable
<1> SUFFICES ASSUME ~PublishBegin(e) PROVE Away' /\ Later'
  BY <1>1
<1>2. IsScheduled(e) /\ Away /\ Later
  BY ScheduledBefore DEF Early
<1>3. Later'
  <2>1. CASE UNCHANGED <<worker, batch, later>> \/ worker' # "store"
    <3>1. UNCHANGED batch => (e \in Storable' => e \in Storable)
      BY CallGoesOn DEF Storable
    <3> QED
      BY <1>2, <2>1, <3>1
  <2>2. CASE WorkerCount
    <3>1. worker' = "store" => subs # {}
      BY <2>2 DEF WorkerCount
    <3>2. e \in Storable' => e \in Storable
      BY <2>2 DEF WorkerCount, Storable
    <3> QED
      BY <1>2, <2>2, <3>1, <3>2 DEF WorkerCount
  <2>3. CASE WorkerRecv \/ WorkerBreak \/ WorkerClosed \/ WorkerStore \/ WorkerStoreFails \/ WorkerDeliver \/ Restart
    BY <2>1, <2>3 DEF WorkerRecv, WorkerBreak, WorkerClosed, WorkerStore, WorkerStoreFails, WorkerDeliver, Restart
  <2>4. CASE \/ \E f \in Events : Elapse(f) \/ PublishBegin(f) \/ Publish(f)
             \/ \E s \in Subs : Handler(s)
             \/ \E group \in Groups : Subscribe(group)
             \/ Rest \/ UNCHANGED vars
    BY <2>1, <2>4 DEF Elapse, PublishBegin, Publish, PublishSend, PublishFull, Handler, Handle, Subscribe, Rest, vars
  <2>5. CASE AckWorker \/ Poller \/ ReplayPending \/ ReplayDlq \/ Replay \/ DrainBegin \/ StopBegin \/ StopAbandoned \/ Stop
    BY <2>1, <2>5 DEF AckWorker, AckApply, AckFails, Poller, PollerPull, PollerExit, PollerSend, ReplayPending,
       ReplayDlq, Replay, ReplayDone, ReplaySend, ReplayDlqSend, DrainBegin, StopBegin, StopAbandoned, Stop, DrainDone, StopDone
  <2> QED
    BY <2>2, <2>3, <2>4, <2>5 DEF Next, Worker
<1>4. Away'
  <2>1. CASE UNCHANGED <<handled, inbox>>
    BY <1>2, <2>1
  <2>2. CASE Restart \/ StopDone \/ StopAbandoned
    BY <1>2, <2>2, NothingInside DEF Restart, StopDone, StopAbandoned
  <2>3. ASSUME NEW t \in Subs, Handler(t) PROVE Away'
    <3>1. Head(inbox[t]) # e
      BY <1>2, <2>3, HandlerCounts
    <3> QED
      BY <1>2, <2>3, <3>1, HandlerCounts
  <2>4. CASE WorkerDeliver
    <3>1. batch # <<>>
      BY <2>4 DEF WorkerDeliver, TypeInv, WorkerTypes
    <3>2. Head(batch) \in Events
      BY <1>0, <3>1, TailElements
    <3>3. CASE Head(batch) = e
      <4>1. inbox' = [s \in Subs |-> inbox[s]] /\ UNCHANGED handled
        BY <1>2, <2>4, <3>3 DEF WorkerDeliver
      <4> QED
        BY <1>2, <4>1
    <3>4. CASE Head(batch) # e
      <4>1. PICK sent : inbox' = [s \in Subs |-> IF s \in sent THEN Append(inbox[s], Head(batch)) ELSE inbox[s]]
        BY <2>4 DEF WorkerDeliver
      <4>2. \A s \in Subs : Range(Append(inbox[s], Head(batch))) = Range(inbox[s]) \cup {Head(batch)}
        BY <1>0, <3>2, AppendElements
      <4>3. UNCHANGED handled
        BY <2>4 DEF WorkerDeliver
      <4>4. ASSUME NEW s \in Subs PROVE handled'[e][s] = 0 /\ e \notin Range(inbox'[s])
        <5>1. inbox'[s] = inbox[s] \/ inbox'[s] = Append(inbox[s], Head(batch))
          BY <4>1
        <5>2. handled[e][s] = 0 /\ e \notin Range(inbox[s])
          BY <1>2
        <5> QED
          BY <3>4, <4>2, <4>3, <5>1, <5>2
      <4> QED
        BY <4>4
    <3> QED
      BY <3>3, <3>4
  <2>5. CASE WorkerRecv \/ WorkerBreak \/ WorkerClosed \/ WorkerCount \/ WorkerStore \/ WorkerStoreFails
    BY <2>1, <2>5 DEF WorkerRecv, WorkerBreak, WorkerClosed, WorkerCount, WorkerStore, WorkerStoreFails
  <2>6. CASE \/ \E f \in Events : Elapse(f) \/ PublishBegin(f) \/ Publish(f)
             \/ \E group \in Groups : Subscribe(group)
             \/ DrainBegin \/ StopBegin \/ DrainDone \/ Rest \/ UNCHANGED vars
    BY <2>1, <2>6 DEF Elapse, PublishBegin, Publish, PublishSend, PublishFull, Subscribe, DrainBegin, StopBegin,
       DrainDone, Rest, vars
  <2>7. CASE AckWorker \/ Poller \/ ReplayPending \/ ReplayDlq \/ Replay
    BY <2>1, <2>7 DEF AckWorker, AckApply, AckFails, Poller, PollerPull, PollerExit, PollerSend, ReplayPending,
       ReplayDlq, Replay, ReplayDone, ReplaySend, ReplayDlqSend
  <2> QED
    BY <2>2, <2>3, <2>4, <2>5, <2>6, <2>7 DEF Next, Worker, Stop
<1> QED
  BY <1>3, <1>4

\* The poller pulls when it has sent all it had.
LEMMA StepKeepsPoller ==
  ASSUME [Next]_vars, poller = "sleep" => ready = {}
  PROVE  poller' = "sleep" => ready' = {}
<1> USE DEF pollerVars, replayVars, workerVars, controlVars, history, disk
<1>1. CASE Restart \/ DrainBegin \/ PollerPull \/ PollerExit
  BY <1>1 DEF Restart, DrainBegin, PollerPull, PollerExit
<1>2. ASSUME NEW e \in Events, PollerSend(e) PROVE poller' = "sleep" => ready' = {}
  BY <1>2 DEF PollerSend
<1>3. CASE UNCHANGED pollerVars
  BY <1>3
<1>4. CASE Worker \/ AckWorker
  BY <1>3, <1>4 DEF Worker, WorkerRecv, WorkerBreak, WorkerClosed, WorkerCount, WorkerStore, WorkerStoreFails,
     WorkerDeliver, AckWorker, AckApply, AckFails
<1>5. CASE ReplayPending \/ ReplayDlq \/ Replay \/ StopBegin \/ StopAbandoned \/ Stop
  BY <1>3, <1>5 DEF ReplayPending, ReplayDlq, Replay, ReplayDone, ReplaySend, ReplayDlqSend, StopBegin, StopAbandoned, Stop,
     DrainDone, StopDone
<1>6. CASE \/ \E f \in Events : Elapse(f) \/ PublishBegin(f) \/ Publish(f)
           \/ \E s \in Subs : Handler(s)
           \/ \E group \in Groups : Subscribe(group)
           \/ Rest \/ UNCHANGED vars
  BY <1>3, <1>6 DEF Elapse, PublishBegin, Publish, PublishSend, PublishFull, Handler, Handle, Subscribe, Rest, vars
<1> QED
  BY <1>1, <1>2, <1>4, <1>5, <1>6 DEF Next, Poller

\* An event that was promised before the step.
LEMMA PromisedBefore ==
  ASSUME TypeInv, [Next]_vars, boots \in Nat \ {0}, NEW e \in Events, Promised(e)', ~PublishBegin(e)
  PROVE  Promised(e) /\ ~Restart
<1>1. meta'[e] = meta[e] /\ audience'[e] = audience[e] /\ call[e] \in {"sending", "waiting", "ok"}
  BY CallGoesOn DEF Promised
<1>2. boots = 1 /\ ~Restart
  <2>1. Restart => boots' = boots + 1
    BY DEF Restart
  <2>2. boots' = 1
    BY DEF Promised
  <2> QED
    BY <2>1, <2>2, WorldGoesOn
<1>3. stop = "no" /\ e \notin timed_out /\ ~disk_failed
  BY <1>2, WorldGoesOn, HistoryStays DEF Promised
<1> QED
  BY <1>1, <1>2, <1>3 DEF Promised

\* What the event has not left behind, it has not left: the steps that move it are those
\* that queue it.
LEMMA KeptOrQueued ==
  ASSUME TypeInv, NEW e \in Events, Kept(e), subs' = Subs, NEW f \in Events,
         queue' = queue \/ queue' = Append(queue, f),
         UNCHANGED <<worker, batch, inbox, handled, scheduled>>,
         ready' = ready \/ (ready' = ready \ {f} /\ queue' = Append(queue, f)),
         IsScheduled(e)' => IsScheduled(e),
         call[e] = "sending" => call'[e] = "sending" \/ (f = e /\ queue' = Append(queue, f))
  PROVE  Kept(e)'
<1>1. Range(Append(queue, f)) = Range(queue) \cup {f}
  BY AppendElements DEF TypeInv, WorkerTypes
<1>2. Range(queue) \subseteq Range(queue') /\ (queue' = Append(queue, f) => f \in Range(queue'))
  BY <1>1
<1>3. Delivered(e) => Delivered(e)'
  BY DEF Delivered
<1> QED
  BY <1>2, <1>3 DEF Kept

\* A step keeps a promised event.
LEMMA StepKeepsKept ==
  ASSUME TypeInv, TypeInv', Closing, [Next]_vars, boots \in Nat \ {0}, NEW e \in Events, ~PublishBegin(e),
         Promised(e)', Early(e), Kept(e), poller = "sleep" => ready = {}
  PROVE  Kept(e)'
<1> USE DEF pollerVars, replayVars, workerVars, controlVars, history, disk
<1> DEFINE Goal == Kept(e)'
<1> SUFFICES Goal
  OBVIOUS
<1>0. /\ queue \in Seq(Events) /\ batch \in Seq(Events) /\ inbox \in [Subs -> Seq(Events)]
      /\ Accepts[e] \subseteq Subs
  BY RedbConstants DEF TypeInv, WorkerTypes, HandlerTypes
<1>1. Promised(e) /\ ~Restart /\ (IsScheduled(e)' => IsScheduled(e))
  BY PromisedBefore, ScheduledBefore
<1>2. /\ stop = "no" /\ stop' = "no" /\ ~disk_failed' /\ e \notin timed_out' /\ meta[e].key = NoKey
      /\ call'[e] \in {"sending", "waiting", "ok"}
      /\ sender /\ is_running /\ worker # "exited"
  BY <1>1 DEF Promised, Closing
<1>3. subs = Subs /\ subs' = Subs /\ subs # {}
  <2>1. subs \subseteq subs' /\ subs' \subseteq Subs
    BY <1>1, <1>2, WorldGoesOn DEF TypeInv, ProcessTypes
  <2> QED
    BY <2>1, RedbConstants DEF Kept
<1>4. call[e] = "sending" => call'[e] = "sending" \/ PublishSend(e)
  BY <1>1, <1>2, CallGoesOn
<1>5. \/ call[e] = "sending" \/ Delivered(e)
      \/ e \in scheduled \cup ready \cup Range(queue) \cup Range(batch)
  BY DEF Kept
<1>6. CASE Restart \/ WorkerBreak \/ WorkerClosed \/ WorkerStoreFails \/ AckFails \/ DrainBegin \/ StopBegin \/ StopAbandoned \/ Stop
  BY <1>1, <1>2, <1>6 DEF WorkerBreak, WorkerClosed, WorkerStoreFails, AckFails, DiskError, DrainBegin, StopBegin,
     StopAbandoned, Stop, DrainDone, StopDone
<1>7. ASSUME NEW f \in Events, PublishSend(f) PROVE Goal
  <2>1. UNCHANGED <<worker, batch, inbox, handled, scheduled, ready>> /\ queue' = Append(queue, f)
    BY <1>7 DEF PublishSend
  <2>2. call[e] = "sending" /\ f # e => call'[e] = "sending"
    BY <1>7 DEF PublishSend, TypeInv, CallTypes
  <2> QED
    BY <1>1, <1>3, <2>1, <2>2, KeptOrQueued
<1>8. ASSUME NEW f \in Events, PollerSend(f) \/ ReplaySend(f) \/ ReplayDlqSend(f) PROVE Goal
  <2>1. /\ UNCHANGED <<worker, batch, inbox, handled, scheduled, call>>
        /\ queue' = queue \/ queue' = Append(queue, f)
        /\ ready' = ready \/ (ready' = ready \ {f} /\ queue' = Append(queue, f))
    BY <1>2, <1>3, <1>8 DEF PollerSend, ReplaySend, ReplayDlqSend
  <2> QED
    BY <1>1, <1>3, <2>1, KeptOrQueued
<1>9. ASSUME UNCHANGED <<worker, batch, inbox, handled, scheduled, ready, queue>>, ~PublishSend(e)
      PROVE  Goal
  BY <1>1, <1>3, <1>4, <1>9, KeptOrQueued
<1>10. CASE \/ \E f \in Events : Elapse(f) \/ PublishBegin(f) \/ PublishFull(f)
            \/ \E group \in Groups : Subscribe(group)
            \/ AckApply \/ PollerExit \/ ReplayPending \/ ReplayDlq \/ ReplayDone \/ Rest \/ UNCHANGED vars
  <2>1. UNCHANGED <<worker, batch, inbox, handled, scheduled, ready, queue>>
    BY <1>10 DEF Elapse, PublishBegin, PublishFull, Subscribe, AckApply, PollerExit, ReplayPending, ReplayDlq,
       ReplayDone, Rest, vars
  <2>2. PublishSend(e) => Goal
    BY <1>7
  <2> HIDE DEF Goal
  <2> QED
    BY <1>9, <2>1, <2>2
<1>11. CASE PollerPull
  <2>1. /\ UNCHANGED <<worker, batch, inbox, handled, queue, call, meta, due>> /\ ready = {}
        /\ scheduled' = scheduled \ due /\ ready' = scheduled \cap due
    BY <1>11 DEF PollerPull
  <2>2. scheduled \cup ready = scheduled' \cup ready' /\ (IsScheduled(e)' => (e \in scheduled => e \in scheduled'))
    BY <2>1 DEF IsScheduled
  <2>3. Delivered(e) => Delivered(e)'
    BY <2>1 DEF Delivered
  <2> QED
    BY <1>1, <1>3, <2>1, <2>2, <2>3 DEF Kept
<1>12. ASSUME NEW s \in Subs, Handler(s) PROVE Goal
  <2>1. UNCHANGED <<worker, batch, scheduled, ready, queue, call, meta, due>>
    BY <1>12 DEF Handler, Handle
  <2>2. PICK ok \in BOOLEAN : Handle(s, ok)
    BY <1>12 DEF Handler
  <2> DEFINE h == Head(inbox[s])
             n == IF handled[h][s] < Counted(h) THEN handled[h][s] + 1 ELSE handled[h][s]
  <2>3. /\ h \in Events /\ inbox[s] \in Seq(Events) /\ inbox[s] # <<>>
        /\ inbox' = [inbox EXCEPT ![s] = Tail(inbox[s])]
        /\ handled' = [handled EXCEPT ![h][s] = n]
    BY <2>2, HandlerTakes
  <2>4. Range(inbox[s]) = {h} \cup Range(Tail(inbox[s]))
    BY <2>3, TailElements
  <2> HIDE DEF h
  <2>5. handled[h][s] \in 0 .. 2 /\ Counted(h) \in 1 .. 2
    BY <2>3 DEF TypeInv, HandlerTypes, Counted
  <2>6. n > 0
    BY <2>5
  <2> HIDE DEF n
  <2>7. ASSUME NEW t \in Subs, handled[e][t] > 0 \/ e \in Range(inbox[t])
        PROVE  handled'[e][t] > 0 \/ e \in Range(inbox'[t])
    BY <1>0, <2>3, <2>4, <2>6, <2>7 DEF TypeInv, HandlerTypes
  <2>8. Delivered(e) => Delivered(e)'
    BY <1>0, <2>7 DEF Delivered
  <2> QED
    BY <1>1, <1>3, <2>1, <2>8 DEF Kept
<1>13. CASE WorkerRecv
  <2>1. /\ queue # <<>> /\ queue' = Tail(queue) /\ worker' = "drain"
        /\ Head(queue) = e => batch' = Append(batch, e)
        /\ batch' = batch \/ batch' = Append(batch, Head(queue))
        /\ UNCHANGED <<scheduled, ready, inbox, handled>>
    BY <1>2, <1>13 DEF WorkerRecv, IsDuplicate
  <2>2. Head(queue) \in Events /\ Range(queue) = {Head(queue)} \cup Range(Tail(queue))
    BY <1>0, <2>1, TailElements
  <2>3. Range(Append(batch, Head(queue))) = Range(batch) \cup {Head(queue)}
    BY <1>0, <2>2, AppendElements
  <2>4. e \in Range(queue) \cup Range(batch) => e \in Range(queue') \cup Range(batch')
    BY <2>1, <2>2, <2>3
  <2>5. Delivered(e) => Delivered(e)'
    BY <2>1 DEF Delivered
  <2>6. ~PublishSend(e)
    BY <1>13 DEF PublishSend, WorkerRecv
  <2> QED
    BY <1>3, <1>4, <1>5, <2>1, <2>4, <2>5, <2>6 DEF Kept
<1>14. CASE WorkerCount
  <2>1. UNCHANGED <<batch, scheduled, ready, queue, call, inbox, handled>>
    BY <1>14 DEF WorkerCount
  <2>2. ASSUME e \in Range(batch) PROVE worker' # "deliver"
    <3>1. e \in Storable
      BY <1>1, <2>2 DEF Promised, Storable
    <3> QED
      BY <1>3, <1>14, <3>1 DEF WorkerCount
  <2>3. Delivered(e) => Delivered(e)'
    BY <2>1 DEF Delivered
  <2> QED
    BY <1>3, <1>5, <2>1, <2>2, <2>3 DEF Kept
<1>15. CASE WorkerStore
  <2>1. /\ UNCHANGED <<batch, ready, queue, call, inbox, handled>> /\ worker = "store"
        /\ scheduled' = scheduled \cup later
    BY <1>15 DEF WorkerStore
  <2>2. Delivered(e) => Delivered(e)'
    BY <2>1 DEF Delivered
  <2>3. IsScheduled(e)' /\ e \in Range(batch') => e \in scheduled'
    BY <1>1, <2>1 DEF Early, Promised, Storable
  <2> QED
    BY <1>3, <1>5, <2>1, <2>2, <2>3 DEF Kept
<1>16. CASE WorkerDeliver
  <2>1. /\ worker = "deliver" /\ batch # <<>> /\ batch' = Tail(batch) /\ worker' \in {"recv", "deliver"}
        /\ UNCHANGED <<scheduled, ready, queue, handled, meta, due>>
    BY <1>16 DEF WorkerDeliver, TypeInv, WorkerTypes
  <2> DEFINE targets == IF IsScheduled(Head(batch)) THEN {} ELSE subs \cap Accepts[Head(batch)]
  <2>2. PICK sent : /\ inbox' = [s \in Subs |-> IF s \in sent THEN Append(inbox[s], Head(batch)) ELSE inbox[s]]
                    /\ sent = targets \/ timed_out' = timed_out \cup {Head(batch)}
    BY <1>16 DEF WorkerDeliver
  <2>3. Head(batch) \in Events /\ Range(batch) = {Head(batch)} \cup Range(Tail(batch))
    BY <1>0, <2>1, TailElements
  <2>4. \A s \in Subs : Range(Append(inbox[s], Head(batch))) = Range(inbox[s]) \cup {Head(batch)}
    BY <1>0, <2>3, AppendElements
  <2>5. Delivered(e) => Delivered(e)'
    BY <1>0, <2>1, <2>2, <2>4 DEF Delivered
  <2>6. Head(batch) = e => e \in scheduled \/ Delivered(e)'
    <3>1. CASE Head(batch) = e /\ IsScheduled(e)
      BY <2>1, <2>3, <3>1 DEF Kept
    <3>2. CASE Head(batch) = e /\ ~IsScheduled(e)
      <4>1. sent = Accepts[e]
        BY <1>0, <1>2, <1>3, <2>2, <3>2
      <4>2. \A s \in Accepts[e] : e \in Range(inbox'[s])
        BY <1>0, <2>2, <2>4, <3>2, <4>1
      <4> QED
        BY <4>2 DEF Delivered
    <3> QED
      BY <3>1, <3>2
  <2>7. IsScheduled(e)' /\ e \in Range(batch') => e \in scheduled'
    BY <1>1, <2>1, <2>3 DEF Kept
  <2>8. ~PublishSend(e)
    BY <1>16 DEF PublishSend, WorkerDeliver, TypeInv, WorkerTypes
  <2> QED
    BY <1>3, <1>4, <1>5, <2>1, <2>3, <2>5, <2>6, <2>7, <2>8 DEF Kept
<1> HIDE DEF Goal
<1> QED
  BY <1>6, <1>7, <1>8, <1>10, <1>11, <1>12, <1>13, <1>14, <1>15, <1>16
     DEF Next, Worker, AckWorker, Poller, Replay, Publish

\* Where a scheduled event is, from its publish call until the process ends.
THEOREM ScheduleInvariant == Spec => []ScheduleInv
<1> DEFINE Times == /\ boots \in Nat \ {0}
                    /\ poller = "sleep" => ready = {}
                    /\ \A e \in Events : Early(e) /\ (Promised(e) => Kept(e))
<1>1. Init => Times
  BY DEF Init, Started, Early, Promised, IsScheduled, Plain
<1>2. KeyInv /\ KeyInv' /\ Times /\ [Next]_vars => Times'
  <2> SUFFICES ASSUME KeyInv, KeyInv', Times, [Next]_vars PROVE Times'
    OBVIOUS
  <2>1. TypeInv /\ TypeInv' /\ Unsent /\ Closing /\ Silent
    BY DEF KeyInv, ClosingInv, DurableInv
  <2>2. boots' \in Nat \ {0}
    BY <2>1, WorldGoesOn
  <2>3. poller' = "sleep" => ready' = {}
    BY StepKeepsPoller
  <2>4. ASSUME NEW e \in Events PROVE Early(e)'
    BY <2>1, StepKeepsEarly
  <2>5. ASSUME NEW e \in Events, Promised(e)' PROVE Kept(e)'
    <3>1. CASE PublishBegin(e)
      <4>1. /\ call[e] = "idle" /\ subs = audience'[e] /\ call'[e] \in {"sending", "err"}
            /\ UNCHANGED <<subs, worker, batch>>
        BY <2>1, <3>1 DEF PublishBegin, workerVars, TypeInv, CallTypes
      <4>2. e \notin Range(batch)
        BY <2>1, <4>1 DEF Unsent, Somewhere, Travelling
      <4> QED
        BY <2>5, <4>1, <4>2 DEF Promised, Kept
    <3>2. CASE ~PublishBegin(e)
      <4>1. Promised(e)
        BY <2>1, <2>5, <3>2, PromisedBefore
      <4> QED
        BY <2>1, <2>5, <3>2, <4>1, StepKeepsKept
    <3> QED
      BY <3>1, <3>2
  <2> QED
    BY <2>2, <2>3, <2>4, <2>5
<1>3. KeyInv /\ Times => ScheduleInv
  BY DEF ScheduleInv
<1> HIDE DEF Times
<1> QED
  BY <1>1, <1>2, <1>3, KeyInvariant, PTL DEF Spec

\* A scheduled event (scheduler_loop) is not handled before it is due, and the worker, the
\* poller and its table do not lose it between them while the process runs.
THEOREM ScheduledHandledOnTime == Spec => []ScheduledOnTime
<1>1. ScheduleInv => ScheduledOnTime
  <2> SUFFICES ASSUME ScheduleInv, NEW e \in Events, meta[e].scheduled
               PROVE  /\ \A s \in Subs : handled[e][s] > 0 => e \in due
                      /\ call[e] = "ok" /\ meta[e].key = NoKey /\ ~meta[e].broken /\ audience[e] = Subs
                           /\ boots = 1 /\ stop = "no" /\ ~disk_failed /\ e \notin timed_out
                         => \A s \in Accepts[e] :
                              \/ handled[e][s] > 0
                              \/ e \in events \cup scheduled \cup ready
                              \/ e \in Range(queue) \cup Range(batch) \cup Range(inbox[s])
    BY DEF ScheduledOnTime
  <2>1. Early(e) /\ (Promised(e) => Kept(e))
    BY DEF ScheduleInv
  <2>2. \A s \in Subs : handled[e][s] > 0 => e \in due
    BY <2>1 DEF Early, IsScheduled
  <2>3. ASSUME call[e] = "ok", Promised(e), NEW s \in Accepts[e]
        PROVE  \/ handled[e][s] > 0
               \/ e \in events \cup scheduled \cup ready
               \/ e \in Range(queue) \cup Range(batch) \cup Range(inbox[s])
    BY <2>1, <2>3 DEF Kept, Delivered
  <2> QED
    BY <2>2, <2>3 DEF Promised
<1> QED
  BY <1>1, ScheduleInvariant, PTL
=============================================================================
