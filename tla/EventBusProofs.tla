--------------------------- MODULE EventBusProofs ---------------------------
(***************************************************************************)
(* Proofs about the event bus, for every value of its constants.           *)
(***************************************************************************)
EXTENDS EventBus, SequenceLemmas

-----------------------------------------------------------------------------
(* Type correctness                                                        *)

\* Every variable of the bus and of the subscription manager keeps its type.

THEOREM TypeCorrect == Spec => []TypeOK
<1> USE ManagerConstants, BusConstants DEF TypeOK, ManagerTypeOK, ClientState, TaskState,
        CallState, CallerState, WorkerState, Clients
<1>1. Init => TypeOK
  BY DEF Init, ManagerInit
<1>2. TypeOK /\ [Next]_vars => TypeOK'
  <2> SUFFICES ASSUME TypeOK, [Next]_vars PROVE TypeOK'
    OBVIOUS
  <2> USE DEF managerVars, busVars, Enqueue, Dequeue, Return, Waiting
  <2>1. ASSUME NEW e \in Events, PublishCheck(e) PROVE TypeOK'
    BY <2>1 DEF PublishCheck
  <2>2. ASSUME NEW e \in Events, PublishCall(e) PROVE TypeOK'
    <3>1. CASE PublishLock(e)
      BY <3>1 DEF PublishLock
    <3>2. CASE GrantRead(e)
      BY <3>2 DEF GrantRead
    <3>3. CASE PublishRefused(e)
      BY <3>3 DEF PublishRefused
    <3>4. CASE PublishDelayed(e)
      BY <3>4 DEF PublishDelayed
    <3>5. CASE PublishTrySend(e)
      BY <3>5, AppendElements DEF PublishTrySend
    <3>8. CASE PublishQueueFull(e)
      BY <3>8 DEF PublishQueueFull
    <3>6. CASE PublishBlocking(e)
      BY <3>6 DEF PublishBlocking
    <3>7. CASE PublishSend(e)
      BY <3>7 DEF PublishSend
    <3> QED
      BY <2>2, <3>1, <3>2, <3>3, <3>4, <3>5, <3>6, <3>7, <3>8 DEF PublishCall
  <2>3. ASSUME NEW e \in Events, Sleeper(e) PROVE TypeOK'
    <3>1. CASE DelayElapsed(e)
      BY <3>1, AppendElements DEF DelayElapsed
    <3>2. CASE DelayLost(e)
      BY <3>2 DEF DelayLost
    <3> QED
      BY <2>3, <3>1, <3>2 DEF Sleeper
  <2>4. CASE Worker
    <3> USE DEF DispatchFrame
    <3>1. CASE WorkerRecv
      <4>1. Tail(queue) \in Seq(Events) /\ Head(queue) \in Events
        BY <3>1, TailElements DEF WorkerRecv
      <4> QED
        BY <3>1, <4>1 DEF WorkerRecv
    <3>8. CASE WorkerBreak
      BY <3>8 DEF WorkerBreak
    <3>2. CASE WorkerClosed
      BY <3>2 DEF WorkerClosed
    <3>3. CASE WorkerMatch
      BY <3>3 DEF WorkerMatch, DispatchMatch
    <3>4. CASE WorkerCollect
      BY <3>4 DEF WorkerCollect, DispatchCollect
    <3>5. ASSUME NEW s \in Subs, WorkerSend(s) PROVE TypeOK'
      <4>1. CASE DispatchSend(s, event)
        <5>1. Append(chan[s], event) \in Seq(Events)
          BY <3>5, AppendElements DEF WorkerSend
        <5> QED
          BY <3>5, <4>1, <5>1 DEF WorkerSend, DispatchSend
      <4>2. CASE DispatchSendFails(s)
        BY <3>5, <4>2 DEF WorkerSend, DispatchSendFails
      <4> QED
        BY <3>5, <4>1, <4>2 DEF WorkerSend
    <3>6. CASE WorkerDone
      BY <3>6 DEF WorkerDone
    <3>7. CASE WorkerTimeout
      BY <3>7 DEF WorkerTimeout, DispatchDropped
    <3> QED
      BY <2>4, <3>1, <3>2, <3>3, <3>4, <3>5, <3>6, <3>7, <3>8 DEF Worker
  <2>5. ASSUME NEW c \in Callers, ShutdownBegin(c) PROVE TypeOK'
    BY <2>5 DEF ShutdownBegin
  <2>6. ASSUME NEW c \in Callers, ShutdownCall(c) PROVE TypeOK'
    <3> USE DEF ManagerFrame
    <3>1. CASE HooksLock(c)
      BY <3>1 DEF HooksLock
    <3>2. CASE HooksDone(c)
      BY <3>2 DEF HooksDone
    <3>3. CASE ShutdownLock(c)
      BY <3>3 DEF ShutdownLock
    <3>4. CASE GrantWrite(c)
      BY <3>4 DEF GrantWrite
    <3>5. CASE TakeDispatcher(c)
      BY <3>5 DEF TakeDispatcher
    <3>6. CASE WorkerJoined(c)
      BY <3>6 DEF WorkerJoined
    <3>7. CASE AbruptTimeout(c)
      BY <3>7 DEF AbruptTimeout
    <3>8. CASE DrainBegin(c)
      BY <3>8 DEF DrainBegin
    <3>9. ASSUME NEW id \in Subs, DrainStep(c, id) PROVE TypeOK'
      BY <3>9 DEF DrainStep, DrainRemove
    <3>10. CASE DrainAwait(c)
      BY <3>10 DEF DrainAwait
    <3>11. CASE DrainDone(c)
      BY <3>11 DEF DrainDone
    <3>12. CASE ShutdownAbort(c)
      BY <3>12 DEF ShutdownAbort, AbortAll
    <3>13. CASE ShutdownClear(c)
      BY <3>13 DEF ShutdownClear, ClearSubscriptions
    <3> QED
      BY <2>6, <3>1, <3>2, <3>3, <3>4, <3>5, <3>6, <3>7, <3>8, <3>9, <3>10, <3>11,
         <3>12, <3>13 DEF ShutdownCall
  <2>7. ASSUME NEW s \in Subs, ClientStep(s) PROVE TypeOK'
    <3>1. CASE SubscribeCheck(s)
      BY <3>1 DEF SubscribeCheck
    <3>2. CASE SubscribeInsert(s) /\ UNCHANGED busVars
      BY <3>2 DEF SubscribeInsert
    <3>3. CASE SubscribeRegister(s) /\ UNCHANGED busVars
      BY <3>3 DEF SubscribeRegister
    <3>4. CASE HandleUnsubscribe(s) /\ UNCHANGED busVars
      BY <3>4 DEF HandleUnsubscribe
    <3>5. CASE UnsubscribeUnregister(s) /\ UNCHANGED busVars
      BY <3>5 DEF UnsubscribeUnregister
    <3>6. CASE UnsubscribeRemove(s) /\ UNCHANGED busVars
      BY <3>6 DEF UnsubscribeRemove
    <3> QED
      BY <2>7, <3>1, <3>2, <3>3, <3>4, <3>5, <3>6 DEF ClientStep
  <2>8. ASSUME NEW s \in Subs, HandlerTask(s) PROVE TypeOK'
    <3> USE DEF FinishEvent, ExitTask
    <3>1. CASE HandlerRecv(s) /\ UNCHANGED busVars
      BY <3>1 DEF HandlerRecv
    <3>2. CASE HandlerDlqSend(s) /\ UNCHANGED busVars
      <4>1. /\ dlq' \in Seq(Events)
            /\ handled' \in [Subs -> Seq(Events)]
        BY <3>2, AppendElements DEF HandlerDlqSend
      <4>2. /\ task' \in [Subs -> TaskState]
            /\ current' \in [Subs -> Events \cup {NoEvent}]
            /\ attempt' \in [Subs -> Nat]
        BY <3>2 DEF HandlerDlqSend
      <4> QED
        BY <3>2, <4>1, <4>2 DEF HandlerDlqSend
    <3>3. CASE HandlerChannelClosed(s) /\ UNCHANGED busVars
      <4>1. unsub' \in Seq(Subs)
        BY <3>3, AppendElements DEF HandlerChannelClosed
      <4>2. chan' \in [Subs -> Seq(Events)]
        BY <3>3 DEF HandlerChannelClosed
      <4> QED
        BY <3>3, <4>1, <4>2 DEF HandlerChannelClosed
    <3>4. CASE HandlerCancelled(s) /\ UNCHANGED busVars
      BY <3>4 DEF HandlerCancelled
    <3>5. CASE HandlerReturnsOk(s)
      <4>1. Append(handled[s], current[s]) \in Seq(Events)
        BY <3>5, AppendElements DEF HandlerReturnsOk, HandlerOk
      <4>2. /\ handled' \in [Subs -> Seq(Events)]
            /\ task' \in [Subs -> TaskState]
            /\ current' \in [Subs -> Events \cup {NoEvent}]
            /\ attempt' \in [Subs -> Nat]
        BY <3>5, <4>1 DEF HandlerReturnsOk, HandlerOk
      <4> QED
        BY <3>5, <4>2 DEF HandlerReturnsOk, HandlerOk
    <3>6. CASE HandlerReturnsErr(s)
      <4>1. attempt' \in [Subs -> Nat] /\ task' \in [Subs -> TaskState]
        BY <3>6 DEF HandlerReturnsErr, HandlerErr
      <4>2. \A r \in Subs : task'[r] \in {"handling", "backoff"} => attempt'[r] <= MaxRetries
        BY <3>6 DEF HandlerReturnsErr, HandlerErr
      <4>3. \A r \in Subs : task'[r] \in {"handling", "backoff", "dlq"} => current'[r] \in Events
        BY <3>6 DEF HandlerReturnsErr, HandlerErr
      <4> QED
        BY <3>6, <4>1, <4>2, <4>3 DEF HandlerReturnsErr, HandlerErr
    <3>7. CASE HandlerRetries(s)
      <4>1. task' \in [Subs -> TaskState] /\ call' \in [Events -> CallState]
        BY <3>7 DEF HandlerRetries, HandlerRetry
      <4>2. \A r \in Subs : task'[r] \in {"handling", "backoff"} => attempt'[r] <= MaxRetries
        BY <3>7 DEF HandlerRetries, HandlerRetry
      <4>3. \A r \in Subs : task'[r] \in {"handling", "backoff", "dlq"} => current'[r] \in Events
        BY <3>7 DEF HandlerRetries, HandlerRetry
      <4> QED
        BY <3>7, <4>1, <4>2, <4>3 DEF HandlerRetries, HandlerRetry
    <3>8. CASE HandlerIsAborted(s)
      <4>1. call' \in [Events -> CallState] /\ ahead' \in [Clients -> SUBSET Clients]
        BY <3>8 DEF HandlerIsAborted
      <4>2. chan' \in [Subs -> Seq(Events)]
        BY <3>8 DEF HandlerIsAborted, HandlerAborted
      <4>3. /\ task' \in [Subs -> TaskState]
            /\ current' \in [Subs -> Events \cup {NoEvent}]
            /\ attempt' \in [Subs -> Nat]
        BY <3>8 DEF HandlerIsAborted, HandlerAborted
      <4>4. \A r \in Subs : task'[r] \in {"handling", "backoff"} => attempt'[r] <= MaxRetries
        BY <3>8 DEF HandlerIsAborted, HandlerAborted
      <4>5. \A r \in Subs : task'[r] \in {"handling", "backoff", "dlq"} => current'[r] \in Events
        BY <3>8 DEF HandlerIsAborted, HandlerAborted
      <4> QED
        BY <3>8, <4>1, <4>2, <4>3, <4>4, <4>5 DEF HandlerIsAborted, HandlerAborted
    <3>9. CASE HandlerPanics(s)
      BY <3>9 DEF HandlerPanics, HandlerPanic
    <3> QED
      BY <2>8, <3>1, <3>2, <3>3, <3>4, <3>5, <3>6, <3>7, <3>8, <3>9 DEF HandlerTask
  <2>9. CASE Cleaner
    <3>1. unsub' \in Seq(Subs)
      BY <2>9, TailElements DEF Cleaner, CleanerStep
    <3>2. /\ subscriptions' \in SUBSET Subs
          /\ registered' \in SUBSET Subs
          /\ abort' \in [Subs -> BOOLEAN]
      BY <2>9 DEF Cleaner, CleanerStep
    <3> QED
      BY <2>9, <3>1, <3>2 DEF Cleaner, CleanerStep
  <2>10. CASE DlqConsumer
    BY <2>10 DEF DlqConsumer, DlqConsume
  <2>11. CASE Rest
    BY <2>11 DEF Rest, vars
  <2>12. CASE UNCHANGED vars
    BY <2>12 DEF vars
  <2> QED
    BY <2>1, <2>2, <2>3, <2>4, <2>5, <2>6, <2>7, <2>8, <2>9, <2>10, <2>11, <2>12 DEF Next
<1> QED
  BY <1>1, <1>2, PTL DEF Spec

-----------------------------------------------------------------------------
(* The inductive invariant                                                 *)

\* A shutdown call that is not yet past the lock changes nothing for the dispatcher.
LEMMA ApproachKeepsLifecycle ==
  ASSUME NEW c \in Callers, NEW x \in {"hooks", "inhooks", "hooked", "waiting", "locked"},
         pc \in [Callers -> CallerState],
         pc[c] \in {"idle", "hooks", "inhooks", "hooked", "waiting"},
         pc' = [pc EXCEPT ![c] = x],
         UNCHANGED <<dispatcher, is_running, worker, call>>,
         DispatcherLifecycle
  PROVE  DispatcherLifecycle'
<1> DEFINE Passed == {"draining", "stopping", "manager", "removing", "awaiting", "aborted", "done"}
<1>1. \A d \in Callers : pc'[d] \in Passed \/ pc[d] \in Passed => pc'[d] = pc[d]
  OBVIOUS
<1>2. Halted' <=> Halted
  BY <1>1 DEF Halted
<1>3. (\E d \in Callers : pc'[d] = "draining") <=> \E d \in Callers : pc[d] = "draining"
  BY <1>1
<1>4. \A d \in Callers : pc'[d] \in {"draining", "stopping"} => ~dispatcher'
  BY <1>1 DEF DispatcherLifecycle
<1>5. \A d \in GracefulCallers : pc'[d] \in {"manager", "removing", "awaiting", "done"} =>
                                    worker' = "exited" \/ Halted'
  BY <1>1, <1>2, BusConstants DEF DispatcherLifecycle
<1> QED
  BY <1>2, <1>3, <1>4, <1>5 DEF DispatcherLifecycle

\* Every step keeps the inductive invariant.
LEMMA BusInvStep ==
  ASSUME TypeOK, TypeOK', BusInv, Next
  PROVE  BusInv'
<1> USE ManagerConstants, BusConstants DEF BusInv, LockExcludes, CallerPaths, DispatcherLifecycle,
        WorkerHolds, TaskHolds, SubscriptionsReachable, AudienceSubscribed, Halted, Live, Readers, Writers
<1> USE DEF TypeOK, ManagerTypeOK, managerVars, busVars, Dequeue, Enqueue, Return
<1>1. ASSUME NEW e \in Events, PublishCheck(e) PROVE BusInv'
  BY <1>1 DEF PublishCheck
<1>2. ASSUME NEW e \in Events, PublishCall(e) PROVE BusInv'
  <2>1. CASE PublishLock(e)
    BY <2>1 DEF PublishLock
  <2>2. CASE GrantRead(e)
    BY <2>2 DEF GrantRead
  <2>3. CASE PublishRefused(e)
    BY <2>3 DEF PublishRefused, Admitted
  <2>4. CASE PublishDelayed(e)
    BY <2>4 DEF PublishDelayed, Admitted
  <2>5. CASE PublishTrySend(e)
    BY <2>5 DEF PublishTrySend, Admitted
  <2>6. CASE PublishQueueFull(e)
    BY <2>6 DEF PublishQueueFull, Admitted
  <2>7. CASE PublishBlocking(e)
    BY <2>7 DEF PublishBlocking, Admitted
  <2>8. CASE PublishSend(e)
    BY <2>8 DEF PublishSend
  <2> QED
    BY <1>2, <2>1, <2>2, <2>3, <2>4, <2>5, <2>6, <2>7, <2>8 DEF PublishCall
<1>3. ASSUME NEW e \in Events, Sleeper(e) PROVE BusInv'
  <2>1. CASE DelayElapsed(e)
    BY <2>1 DEF DelayElapsed
  <2>2. CASE DelayLost(e)
    BY <2>2 DEF DelayLost
  <2> QED
    BY <1>3, <2>1, <2>2 DEF Sleeper
<1>4. CASE Worker
  <2>1. CASE WorkerRecv
    BY <2>1 DEF WorkerRecv
  <2>2. CASE WorkerBreak
    BY <2>2 DEF WorkerBreak
  <2>3. CASE WorkerClosed
    BY <2>3 DEF WorkerClosed
  <2>4. CASE WorkerMatch
    BY <2>4 DEF WorkerMatch, DispatchMatch, DispatchFrame
  <2>5. CASE WorkerCollect
    BY <2>5 DEF WorkerCollect, DispatchCollect, DispatchFrame
  <2>6. ASSUME NEW s \in Subs, WorkerSend(s) PROVE BusInv'
    BY <2>6 DEF WorkerSend, DispatchSend, DispatchSendFails, DispatchFrame
  <2>7. CASE WorkerDone
    BY <2>7 DEF WorkerDone, DispatchFrame
  <2>8. CASE WorkerTimeout
    BY <2>8 DEF WorkerTimeout, DispatchDropped, DispatchFrame
  <2> QED
    BY <1>4, <2>1, <2>2, <2>3, <2>4, <2>5, <2>6, <2>7, <2>8 DEF Worker
<1>5. ASSUME NEW c \in Callers, ShutdownBegin(c) PROVE BusInv'
  <2>1. LockExcludes'
    BY <1>5 DEF ShutdownBegin
  <2>2. CallerPaths'
    BY <1>5 DEF ShutdownBegin
  <2>3. DispatcherLifecycle'
    BY <1>5, ApproachKeepsLifecycle DEF ShutdownBegin
  <2>4. WorkerHolds'
    BY <1>5 DEF ShutdownBegin
  <2>5. TaskHolds'
    BY <1>5 DEF ShutdownBegin
  <2>6. SubscriptionsReachable'
    BY <1>5 DEF ShutdownBegin
  <2>7. AudienceSubscribed'
    BY <1>5 DEF ShutdownBegin
  <2> QED
    BY <2>1, <2>2, <2>3, <2>4, <2>5, <2>6, <2>7
<1>6. ASSUME NEW c \in Callers, ShutdownCall(c) PROVE BusInv'
  <2>1. CASE HooksLock(c)
    <3>1. LockExcludes'
      BY <2>1 DEF HooksLock
    <3>2. CallerPaths'
      BY <2>1 DEF HooksLock
    <3>3. DispatcherLifecycle'
      BY <2>1, ApproachKeepsLifecycle DEF HooksLock
    <3>4. WorkerHolds'
      BY <2>1 DEF HooksLock
    <3>5. TaskHolds'
      BY <2>1 DEF HooksLock
    <3>6. SubscriptionsReachable'
      BY <2>1 DEF HooksLock
    <3>7. AudienceSubscribed'
      BY <2>1 DEF HooksLock
    <3> QED
      BY <3>1, <3>2, <3>3, <3>4, <3>5, <3>6, <3>7
  <2>2. CASE HooksDone(c)
    <3>1. LockExcludes'
      BY <2>2 DEF HooksDone
    <3>2. CallerPaths'
      BY <2>2 DEF HooksDone
    <3>3. DispatcherLifecycle'
      BY <2>2, ApproachKeepsLifecycle DEF HooksDone
    <3>4. WorkerHolds'
      BY <2>2 DEF HooksDone
    <3>5. TaskHolds'
      BY <2>2 DEF HooksDone
    <3>6. SubscriptionsReachable'
      BY <2>2 DEF HooksDone
    <3>7. AudienceSubscribed'
      BY <2>2 DEF HooksDone
    <3> QED
      BY <3>1, <3>2, <3>3, <3>4, <3>5, <3>6, <3>7
  <2>3. CASE ShutdownLock(c)
    <3>1. LockExcludes'
      BY <2>3 DEF ShutdownLock
    <3>2. CallerPaths'
      BY <2>3 DEF ShutdownLock
    <3>3. DispatcherLifecycle'
      BY <2>3, ApproachKeepsLifecycle DEF ShutdownLock
    <3>4. WorkerHolds'
      BY <2>3 DEF ShutdownLock
    <3>5. TaskHolds'
      BY <2>3 DEF ShutdownLock
    <3>6. SubscriptionsReachable'
      BY <2>3 DEF ShutdownLock
    <3>7. AudienceSubscribed'
      BY <2>3 DEF ShutdownLock
    <3> QED
      BY <3>1, <3>2, <3>3, <3>4, <3>5, <3>6, <3>7
  <2>4. CASE GrantWrite(c)
    <3>1. LockExcludes'
      BY <2>4 DEF GrantWrite, WriteGrantable
    <3>2. CallerPaths'
      BY <2>4 DEF GrantWrite, WriteGrantable
    <3>3. DispatcherLifecycle'
      BY <2>4, ApproachKeepsLifecycle DEF GrantWrite, WriteGrantable
    <3>4. WorkerHolds'
      BY <2>4 DEF GrantWrite, WriteGrantable
    <3>5. TaskHolds'
      BY <2>4 DEF GrantWrite, WriteGrantable
    <3>6. SubscriptionsReachable'
      BY <2>4 DEF GrantWrite, WriteGrantable
    <3>7. AudienceSubscribed'
      BY <2>4 DEF GrantWrite, WriteGrantable
    <3> QED
      BY <3>1, <3>2, <3>3, <3>4, <3>5, <3>6, <3>7
  <2>5. CASE TakeDispatcher(c)
    BY <2>5 DEF TakeDispatcher
  <2>6. CASE WorkerJoined(c)
    BY <2>6 DEF WorkerJoined
  <2>7. CASE AbruptTimeout(c)
    BY <2>7 DEF AbruptTimeout
  <2>8. CASE DrainBegin(c)
    BY <2>8 DEF DrainBegin, ManagerFrame
  <2>9. ASSUME NEW id \in Subs, DrainStep(c, id) PROVE BusInv'
    BY <2>9 DEF DrainStep, DrainRemove, ManagerFrame
  <2>10. CASE DrainAwait(c)
    BY <2>10 DEF DrainAwait, ManagerFrame
  <2>11. CASE DrainDone(c)
    BY <2>11 DEF DrainDone, ManagerFrame
  <2>12. CASE ShutdownAbort(c)
    BY <2>12 DEF ShutdownAbort, AbortAll, ManagerFrame
  <2>13. CASE ShutdownClear(c)
    BY <2>13 DEF ShutdownClear, ClearSubscriptions, ManagerFrame
  <2> QED
    BY <1>6, <2>1, <2>2, <2>3, <2>4, <2>5, <2>6, <2>7, <2>8, <2>9, <2>10, <2>11, <2>12, <2>13 DEF ShutdownCall
<1>7. ASSUME NEW s \in Subs, ClientStep(s) PROVE BusInv'
  <2>1. CASE SubscribeCheck(s)
    BY <2>1 DEF SubscribeCheck
  <2>2. CASE SubscribeInsert(s) /\ UNCHANGED busVars
    BY <2>2 DEF SubscribeInsert
  <2>3. CASE SubscribeRegister(s) /\ UNCHANGED busVars
    BY <2>3 DEF SubscribeRegister
  <2>4. CASE HandleUnsubscribe(s) /\ UNCHANGED busVars
    <3>1. LockExcludes'
      BY <2>4 DEF HandleUnsubscribe
    <3>2. CallerPaths'
      BY <2>4 DEF HandleUnsubscribe
    <3>3. DispatcherLifecycle'
      BY <2>4 DEF HandleUnsubscribe
    <3>4. WorkerHolds'
      BY <2>4 DEF HandleUnsubscribe
    <3>5. TaskHolds'
      BY <2>4 DEF HandleUnsubscribe
    <3>6. SubscriptionsReachable'
      BY <2>4 DEF HandleUnsubscribe
    <3>7. AudienceSubscribed'
      BY <2>4 DEF HandleUnsubscribe
    <3> QED
      BY <3>1, <3>2, <3>3, <3>4, <3>5, <3>6, <3>7
  <2>5. CASE UnsubscribeUnregister(s) /\ UNCHANGED busVars
    BY <2>5 DEF UnsubscribeUnregister
  <2>6. CASE UnsubscribeRemove(s) /\ UNCHANGED busVars
    BY <2>6 DEF UnsubscribeRemove
  <2> QED
    BY <1>7, <2>1, <2>2, <2>3, <2>4, <2>5, <2>6 DEF ClientStep
<1>8. ASSUME NEW s \in Subs, HandlerTask(s) PROVE BusInv'
  <2>1. CASE HandlerRecv(s) /\ UNCHANGED busVars
    BY <2>1 DEF HandlerRecv
  <2>2. CASE HandlerDlqSend(s) /\ UNCHANGED busVars
    BY <2>2 DEF HandlerDlqSend, FinishEvent
  <2>3. CASE HandlerChannelClosed(s) /\ UNCHANGED busVars
    <3>1. LockExcludes'
      BY <2>3 DEF HandlerChannelClosed, ExitTask, SendersGone
    <3>2. CallerPaths'
      BY <2>3 DEF HandlerChannelClosed, ExitTask, SendersGone
    <3>3. DispatcherLifecycle'
      BY <2>3 DEF HandlerChannelClosed, ExitTask, SendersGone
    <3>4. WorkerHolds'
      BY <2>3 DEF HandlerChannelClosed, ExitTask, SendersGone
    <3>5. TaskHolds'
      BY <2>3, AppendElements DEF HandlerChannelClosed, ExitTask, SendersGone
    <3>6. SubscriptionsReachable'
      BY <2>3 DEF HandlerChannelClosed, ExitTask, SendersGone
    <3>7. AudienceSubscribed'
      BY <2>3 DEF HandlerChannelClosed, ExitTask, SendersGone
    <3> QED
      BY <3>1, <3>2, <3>3, <3>4, <3>5, <3>6, <3>7
  <2>4. CASE HandlerCancelled(s) /\ UNCHANGED busVars
    <3>1. LockExcludes'
      BY <2>4 DEF HandlerCancelled, ExitTask
    <3>2. CallerPaths'
      BY <2>4 DEF HandlerCancelled, ExitTask
    <3>3. DispatcherLifecycle'
      BY <2>4 DEF HandlerCancelled, ExitTask
    <3>4. WorkerHolds'
      BY <2>4 DEF HandlerCancelled, ExitTask
    <3>5. TaskHolds'
      BY <2>4, AppendElements DEF HandlerCancelled, ExitTask
    <3>6. SubscriptionsReachable'
      BY <2>4 DEF HandlerCancelled, ExitTask
    <3>7. AudienceSubscribed'
      BY <2>4 DEF HandlerCancelled, ExitTask
    <3> QED
      BY <3>1, <3>2, <3>3, <3>4, <3>5, <3>6, <3>7
  <2>5. CASE HandlerReturnsOk(s)
    BY <2>5 DEF HandlerReturnsOk, HandlerOk, FinishEvent
  <2>6. CASE HandlerReturnsErr(s)
    BY <2>6 DEF HandlerReturnsErr, HandlerErr
  <2>7. CASE HandlerRetries(s)
    BY <2>7 DEF HandlerRetries, HandlerRetry
  <2>8. CASE HandlerIsAborted(s)
    BY <2>8 DEF HandlerIsAborted, HandlerAborted, ExitTask
  <2>9. CASE HandlerPanics(s)
    BY <2>9 DEF HandlerPanics, HandlerPanic, ExitTask
  <2> QED
    BY <1>8, <2>1, <2>2, <2>3, <2>4, <2>5, <2>6, <2>7, <2>8, <2>9 DEF HandlerTask
<1>9. CASE Cleaner
  <2>1. LockExcludes'
    BY <1>9 DEF Cleaner, CleanerStep
  <2>2. CallerPaths'
    BY <1>9 DEF Cleaner, CleanerStep
  <2>3. DispatcherLifecycle'
    BY <1>9 DEF Cleaner, CleanerStep
  <2>4. WorkerHolds'
    BY <1>9 DEF Cleaner, CleanerStep
  <2>5. TaskHolds'
    BY <1>9, TailElements DEF Cleaner, CleanerStep
  <2>6. SubscriptionsReachable'
    <3>1. Head(unsub) \in Subs /\ Head(unsub) \in Range(unsub)
      BY <1>9, TailElements DEF Cleaner, CleanerStep
    <3> QED
      BY <1>9, <3>1 DEF Cleaner, CleanerStep
  <2>7. AudienceSubscribed'
    BY <1>9 DEF Cleaner, CleanerStep
  <2> QED
    BY <2>1, <2>2, <2>3, <2>4, <2>5, <2>6, <2>7
<1>10. CASE DlqConsumer
  BY <1>10 DEF DlqConsumer, DlqConsume
<1>11. CASE Rest
  BY <1>11 DEF Rest, vars
<1> QED
  BY <1>1, <1>2, <1>3, <1>4, <1>5, <1>6, <1>7, <1>8, <1>9, <1>10, <1>11 DEF Next

\* The lock excludes, the worker outlives the dispatcher it serves and leaves nothing
\* behind, and subscriptions stay reachable, through every interleaving of publishers,
\* subscribers and shutdown calls.
THEOREM BusInvariant == Spec => []BusInv
<1>1. Init => BusInv
  BY ManagerConstants, BusConstants DEF Init, ManagerInit, BusInv, LockExcludes, CallerPaths,
     DispatcherLifecycle, WorkerHolds, TaskHolds, SubscriptionsReachable, AudienceSubscribed,
     Halted, Live, Readers, Writers, Range
<1>2. TypeOK /\ TypeOK' /\ BusInv /\ [Next]_vars => BusInv'
  <2>1. ASSUME BusInv, UNCHANGED vars PROVE BusInv'
    BY <2>1 DEF vars, managerVars, busVars, BusInv, LockExcludes, CallerPaths,
       DispatcherLifecycle, WorkerHolds, TaskHolds, SubscriptionsReachable,
       AudienceSubscribed, Halted, Live, Readers, Writers
  <2> QED
    BY <2>1, BusInvStep
<1> QED
  BY <1>1, <1>2, TypeCorrect, PTL DEF Spec

\* A publish that passed its checks under the read guard never finds the channel of
\* the dispatcher closed, whatever shutdown calls it races.
THEOREM ReceiverOutlives == Spec => []ReceiverOutlivesSenders
<1>1. BusInv => ReceiverOutlivesSenders
  BY DEF BusInv, DispatcherLifecycle, WorkerHolds, ReceiverOutlivesSenders, Admitted
<1> QED
  BY <1>1, BusInvariant, PTL
=============================================================================
