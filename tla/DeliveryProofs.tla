--------------------------- MODULE DeliveryProofs ---------------------------
(***************************************************************************)
(* What becomes of an accepted event, for every value of the constants:    *)
(* it is not lost silently (Accounted); a shutdown_gracefully that         *)
(* returned has left nothing behind (TerminatedOnReturn, DrainedOnReturn,  *)
(* by way of DrainInv); the bus implements its contract (BusContract) and  *)
(* keeps the order of events (InOrder), by way of where an event can be:   *)
(* in one place at a time on its way to each subscription, and never past  *)
(* an event that was published before it.                                  *)
(***************************************************************************)
EXTENDS EventBusProofs

-----------------------------------------------------------------------------
(* What a step of each part of the system can do to the reasons on record  *)

\* A reason on record why s need not get an event is never withdrawn.
ReasonsKept ==
  /\ Halted => Halted'
  /\ dispatch_errors \subseteq dispatch_errors'
  /\ \A s \in Subs : /\ abort[s] => abort'[s]
                     /\ task[s] = "panicked" => task'[s] = "panicked"
                     /\ client[s] \in {"removing", "closed"} => client'[s] \in {"removing", "closed"}

\* Every step keeps the reasons on record.
LEMMA StepKeepsReasons ==
  ASSUME TypeOK, BusInv, Next
  PROVE  ReasonsKept
<1> USE DEF TypeOK, ManagerTypeOK, managerVars, busVars, ReasonsKept, Halted
<1>1. ASSUME NEW e \in Events, PublishCheck(e) \/ PublishCall(e) \/ Sleeper(e) PROVE ReasonsKept
  BY <1>1 DEF PublishCheck, PublishCall, PublishLock, GrantRead, PublishRefused, PublishDelayed,
     PublishTrySend, PublishQueueFull, PublishBlocking, PublishSend, Sleeper, DelayElapsed, DelayLost
<1>2. CASE Worker
  BY <1>2 DEF Worker, WorkerRecv, WorkerBreak, WorkerClosed, WorkerMatch, WorkerCollect, WorkerSend,
     WorkerDone, WorkerTimeout, DispatchMatch, DispatchCollect, DispatchSend, DispatchSendFails,
     DispatchDropped, DispatchFrame
<1>3. ASSUME NEW c \in Callers, ShutdownBegin(c) \/ ShutdownCall(c) PROVE ReasonsKept
  <2>1. dispatch_errors' = dispatch_errors /\ task' = task /\ client' = client
    BY <1>3 DEF ShutdownBegin, ShutdownCall, HooksLock, HooksDone, ShutdownLock, GrantWrite,
       TakeDispatcher, WorkerJoined, AbruptTimeout, DrainBegin, DrainStep, DrainAwait, DrainDone,
       ShutdownAbort, ShutdownClear, DrainRemove, AbortAll, ClearSubscriptions, ManagerFrame
  <2>2. \A s \in Subs : abort[s] => abort'[s]
    BY <1>3 DEF ShutdownBegin, ShutdownCall, HooksLock, HooksDone, ShutdownLock, GrantWrite,
       TakeDispatcher, WorkerJoined, AbruptTimeout, DrainBegin, DrainStep, DrainAwait, DrainDone,
       ShutdownAbort, ShutdownClear, DrainRemove, AbortAll, ClearSubscriptions
  <2>3. \A d \in Callers \ GracefulCallers :
          pc[d] \in {"stopping", "manager", "aborted", "done"} =>
            pc'[d] \in {"stopping", "manager", "aborted", "done"}
    BY <1>3 DEF ShutdownBegin, ShutdownCall, HooksLock, HooksDone, ShutdownLock, GrantWrite,
       TakeDispatcher, WorkerJoined, AbruptTimeout, DrainBegin, DrainStep, DrainAwait, DrainDone,
       ShutdownAbort, ShutdownClear
  <2> QED
    BY <2>1, <2>2, <2>3
<1>4. ASSUME NEW s \in Subs, ClientStep(s) PROVE ReasonsKept
  <2>1. UNCHANGED <<pc, dispatch_errors>>
    BY <1>4 DEF ClientStep, SubscribeCheck
  <2>2. \A r \in Subs : /\ abort[r] => abort'[r]
                        /\ task[r] = "panicked" => task'[r] = "panicked"
    BY <1>4 DEF ClientStep, SubscribeCheck, SubscribeInsert, SubscribeRegister, HandleUnsubscribe,
       UnsubscribeUnregister, UnsubscribeRemove, BusInv, TaskHolds
  <2>3. \A r \in Subs : client[r] \in {"removing", "closed"} => client'[r] \in {"removing", "closed"}
    BY <1>4 DEF ClientStep, SubscribeCheck, SubscribeInsert, SubscribeRegister, HandleUnsubscribe,
       UnsubscribeUnregister, UnsubscribeRemove
  <2> QED
    BY <2>1, <2>2, <2>3
<1>5. ASSUME NEW s \in Subs, HandlerTask(s) PROVE ReasonsKept
  BY <1>5 DEF HandlerTask, HandlerRecv, HandlerDlqSend, HandlerChannelClosed, HandlerCancelled,
     HandlerReturnsOk, HandlerReturnsErr, HandlerRetries, HandlerIsAborted, HandlerPanics,
     HandlerOk, HandlerErr, HandlerRetry, HandlerAborted, HandlerPanic, FinishEvent, ExitTask, Live
<1>6. CASE Cleaner \/ DlqConsumer \/ Rest
  BY <1>6 DEF Cleaner, CleanerStep, DlqConsumer, DlqConsume, Rest, vars
<1> QED
  BY <1>1, <1>2, <1>3, <1>4, <1>5, <1>6 DEF Next

\* A call that returned Ok stays that way, with the audience it found, and one that
\* returns Ok in this step has left its event in the queue, with a sleeper or on record.
Acceptance ==
  \A x \in Events : call'[x] = "ok" =>
    \/ call[x] = "ok" /\ audience'[x] = audience[x]
    \/ x \in sleepers' \cup Range(queue') \cup dispatch_errors'

\* Every step treats accepted events that way.
LEMMA StepAccepts ==
  ASSUME TypeOK, BusInv, Next
  PROVE  Acceptance
<1> USE DEF TypeOK, ManagerTypeOK, busVars, Acceptance, Return
<1>1. ASSUME NEW e \in Events, PublishCheck(e) \/ PublishCall(e) \/ Sleeper(e) PROVE Acceptance
  <2>1. CASE PublishTrySend(e) \/ PublishSend(e)
    <3>1. queue' = Append(queue, e) /\ call' = [call EXCEPT ![e] = "ok"] /\ audience' = audience
      BY <2>1 DEF PublishTrySend, PublishSend
    <3>2. e \in Range(queue')
      BY <3>1, AppendElements
    <3> QED
      BY <3>1, <3>2
  <2>2. CASE ~(PublishTrySend(e) \/ PublishSend(e))
    BY <1>1, <2>2 DEF PublishCheck, PublishCall, PublishLock, GrantRead, PublishRefused,
       PublishDelayed, PublishQueueFull, PublishBlocking, Sleeper, DelayElapsed, DelayLost
  <2> QED
    BY <2>1, <2>2
<1>2. CASE Worker
  BY <1>2 DEF Worker, WorkerRecv, WorkerBreak, WorkerClosed, WorkerMatch, WorkerCollect, WorkerSend,
     WorkerDone, WorkerTimeout, DispatchFrame
<1>3. ASSUME NEW c \in Callers, ShutdownBegin(c) \/ ShutdownCall(c) PROVE Acceptance
  BY <1>3 DEF ShutdownBegin, ShutdownCall, HooksLock, HooksDone, ShutdownLock, GrantWrite,
     TakeDispatcher, WorkerJoined, AbruptTimeout, DrainBegin, DrainStep, DrainAwait, DrainDone,
     ShutdownAbort, ShutdownClear, ManagerFrame
<1>4. ASSUME NEW s \in Subs, ClientStep(s) PROVE Acceptance
  BY <1>4 DEF ClientStep, SubscribeCheck
<1>5. ASSUME NEW s \in Subs, HandlerTask(s) PROVE Acceptance
  BY <1>5 DEF HandlerTask, HandlerReturnsOk, HandlerReturnsErr, HandlerRetries, HandlerIsAborted,
     HandlerPanics
<1>6. CASE Cleaner \/ DlqConsumer \/ Rest
  BY <1>6 DEF Cleaner, DlqConsumer, Rest, vars
<1> QED
  BY <1>1, <1>2, <1>3, <1>4, <1>5, <1>6 DEF Next

-----------------------------------------------------------------------------
(* An event on its way stays on its way until it is handled                *)

\* The event has reached the handler of s or is still on its way to it.
Kept(e, s) == OnItsWay(e, s) \/ e \in Range(handled[s])

\* While nothing excuses it, s is in the map and in the registry and its task lives.
LEMMA Reachable ==
  ASSUME BusInv, NEW e \in Events, NEW s \in Subs, ~Excused(e, s), worker # "exited"
  PROVE  s \in subscriptions /\ s \in registered /\ Live(s)
BY DEF BusInv, SubscriptionsReachable, Excused

\* Every step moves an event along its way, leaves it there or finishes it.
LEMMA StepKeeps ==
  ASSUME TypeOK, BusInv, Next, NEW x \in Events, NEW r \in Matches[x],
         ~Excused(x, r), ~Excused(x, r)', Kept(x, r)
  PROVE  Kept(x, r)'
<1> USE ManagerConstants, BusConstants DEF TypeOK, ManagerTypeOK, managerVars, busVars, Kept, OnItsWay
<1>0. r \in Subs /\ x # NoEvent
  OBVIOUS
<1>1. ASSUME NEW e \in Events, PublishCheck(e) \/ PublishCall(e) PROVE Kept(x, r)'
  <2>1. UNCHANGED <<managerVars, worker, event>> /\ sleepers \subseteq sleepers'
    BY <1>1 DEF PublishCheck, PublishCall, PublishLock, GrantRead, PublishRefused, PublishDelayed,
       PublishTrySend, PublishQueueFull, PublishBlocking, PublishSend
  <2>2. queue' = queue \/ queue' = Append(queue, e)
    BY <1>1 DEF PublishCheck, PublishCall, PublishLock, GrantRead, PublishRefused, PublishDelayed,
       PublishTrySend, PublishQueueFull, PublishBlocking, PublishSend
  <2>3. Range(queue) \subseteq Range(queue')
    <3>1. Range(Append(queue, e)) = Range(queue) \cup {e}
      BY AppendElements
    <3> QED
      BY <2>2, <3>1
  <2> QED
    BY <2>1, <2>3
<1>2. ASSUME NEW e \in Events, Sleeper(e) PROVE Kept(x, r)'
  <2>1. CASE DelayElapsed(e)
    <3>1. Range(queue') = Range(queue) \cup {e}
      BY <2>1, AppendElements DEF DelayElapsed
    <3> QED
      BY <2>1, <3>1 DEF DelayElapsed
  <2>2. CASE DelayLost(e)
    <3>1. Halted
      BY <2>2 DEF DelayLost, BusInv, WorkerHolds
    <3> QED
      BY <3>1 DEF Excused
  <2> QED
    BY <1>2, <2>1, <2>2 DEF Sleeper
<1>3. CASE Worker
  <2> USE DEF DispatchFrame
  <2>1. CASE WorkerRecv
    <3>1. Range(queue) = {event'} \cup Range(queue')
      BY <2>1, TailElements DEF WorkerRecv
    <3> QED
      BY <2>1, <3>1 DEF WorkerRecv
  <2>2. CASE WorkerBreak
    <3>1. Halted
      BY <2>2 DEF WorkerBreak, BusInv, DispatcherLifecycle
    <3> QED
      BY <3>1 DEF Excused
  <2>3. CASE WorkerClosed
    BY <2>3 DEF WorkerClosed
  <2>4. CASE WorkerMatch
    BY <2>4, Reachable DEF WorkerMatch, DispatchMatch
  <2>5. CASE WorkerCollect
    BY <2>5, Reachable DEF WorkerCollect, DispatchCollect
  <2>6. ASSUME NEW s \in Subs, WorkerSend(s) PROVE Kept(x, r)'
    <3>1. CASE DispatchSend(s, event)
      <4>1. Range(chan'[s]) = Range(chan[s]) \cup {event}
        BY <2>6, <3>1, AppendElements DEF WorkerSend, DispatchSend
      <4>2. \A q \in Subs : q # s => chan'[q] = chan[q]
        BY <3>1 DEF DispatchSend
      <4> QED
        BY <1>0, <2>6, <3>1, <4>1, <4>2 DEF WorkerSend, DispatchSend
    <3>2. CASE DispatchSendFails(s)
      <4>1. r # s
        BY <2>6, <3>2, Reachable DEF WorkerSend, DispatchSendFails
      <4> QED
        BY <2>6, <3>2, <4>1 DEF WorkerSend, DispatchSendFails
    <3> QED
      BY <2>6, <3>1, <3>2 DEF WorkerSend
  <2>7. CASE WorkerDone
    BY <2>7 DEF WorkerDone
  <2>8. CASE WorkerTimeout
    BY <2>8 DEF WorkerTimeout, DispatchDropped, Excused
  <2> QED
    BY <1>3, <2>1, <2>2, <2>3, <2>4, <2>5, <2>6, <2>7, <2>8 DEF Worker
<1>4. ASSUME NEW c \in Callers, ShutdownBegin(c) \/ ShutdownCall(c) PROVE Kept(x, r)'
  <2>1. UNCHANGED <<sleepers, queue, worker, event, matched, pending, chan, current, handled>>
    BY <1>4 DEF ShutdownBegin, ShutdownCall, HooksLock, HooksDone, ShutdownLock, GrantWrite,
       TakeDispatcher, WorkerJoined, AbruptTimeout, DrainBegin, DrainStep, DrainAwait, DrainDone,
       ShutdownAbort, ShutdownClear, DrainRemove, AbortAll, ClearSubscriptions, ManagerFrame
  <2> QED
    BY <2>1
<1>5. ASSUME NEW s \in Subs, ClientStep(s) PROVE Kept(x, r)'
  BY <1>5 DEF ClientStep, SubscribeCheck, SubscribeInsert, SubscribeRegister, HandleUnsubscribe,
     UnsubscribeUnregister, UnsubscribeRemove
<1>6. ASSUME NEW s \in Subs, HandlerTask(s) PROVE Kept(x, r)'
  <2>1. CASE HandlerRecv(s) /\ UNCHANGED busVars
    <3>1. Range(chan[s]) = {current'[s]} \cup Range(chan'[s]) /\ current[s] = NoEvent
      <4>1. chan[s] \in Seq(Events) /\ chan[s] # <<>> /\ current'[s] = Head(chan[s])
            /\ chan'[s] = Tail(chan[s])
        BY <2>1 DEF HandlerRecv
      <4>2. current[s] = NoEvent
        BY <2>1 DEF HandlerRecv, BusInv, TaskHolds
      <4> QED
        BY <4>1, <4>2, TailElements
    <3>2. \A q \in Subs : q # s => chan'[q] = chan[q] /\ current'[q] = current[q]
      BY <2>1 DEF HandlerRecv
    <3> QED
      BY <1>0, <2>1, <3>1, <3>2 DEF HandlerRecv
  <2>2. CASE (HandlerDlqSend(s) \/ HandlerOk(s)) /\ UNCHANGED busVars
    <3>1. Range(handled'[s]) = Range(handled[s]) \cup {current[s]}
      <4>1. handled[s] \in Seq(Events) /\ current[s] \in Events
            /\ handled'[s] = Append(handled[s], current[s])
        BY <2>2 DEF HandlerDlqSend, HandlerOk, FinishEvent
      <4> QED
        BY <4>1, AppendElements
    <3>2. \A q \in Subs : q # s => handled'[q] = handled[q] /\ current'[q] = current[q]
      BY <2>2 DEF HandlerDlqSend, HandlerOk, FinishEvent
    <3>3. UNCHANGED <<chan, matched, pending>>
      BY <2>2 DEF HandlerDlqSend, HandlerOk
    <3> QED
      BY <1>0, <2>2, <3>1, <3>2, <3>3
  <2>3. ASSUME ExitTask(s, "exited") \/ ExitTask(s, "panicked"), s # r,
               UNCHANGED <<sleepers, queue, worker, event, matched, pending, handled>>
        PROVE  Kept(x, r)'
    BY <1>0, <2>3 DEF ExitTask
  <2>4. CASE HandlerChannelClosed(s) /\ UNCHANGED busVars
    <3>1. CASE s = r
      <4>1. Range(chan[s]) = {} /\ current[s] = NoEvent
        <5>1. chan[s] = <<>> /\ current[s] = NoEvent
          BY <2>4 DEF HandlerChannelClosed, BusInv, TaskHolds
        <5> QED
          BY <5>1 DEF Range
      <4> QED
        BY <1>0, <2>4, <3>1, <4>1 DEF HandlerChannelClosed
    <3> QED
      BY <2>3, <2>4, <3>1 DEF HandlerChannelClosed
  <2>5. CASE HandlerCancelled(s) /\ UNCHANGED busVars
    <3>1. s # r
      BY <2>5 DEF HandlerCancelled, BusInv, TaskHolds, Excused
    <3> QED
      BY <2>3, <2>5, <3>1 DEF HandlerCancelled
  <2>6. CASE HandlerIsAborted(s)
    <3>1. s # r
      BY <2>6 DEF HandlerIsAborted, HandlerAborted, Excused
    <3> QED
      BY <2>3, <2>6, <3>1 DEF HandlerIsAborted, HandlerAborted
  <2>7. CASE HandlerPanics(s)
    <3>1. s # r
      BY <2>7 DEF HandlerPanics, HandlerPanic, ExitTask, Excused
    <3> QED
      BY <2>3, <2>7, <3>1 DEF HandlerPanics, HandlerPanic
  <2>8. CASE HandlerReturnsErr(s) \/ HandlerRetries(s)
    BY <2>8 DEF HandlerReturnsErr, HandlerErr, HandlerRetries, HandlerRetry
  <2> QED
    BY <1>6, <2>1, <2>2, <2>4, <2>5, <2>6, <2>7, <2>8 DEF HandlerTask, HandlerReturnsOk
<1>7. CASE Cleaner \/ DlqConsumer \/ Rest
  BY <1>7 DEF Cleaner, CleanerStep, DlqConsumer, DlqConsume, Rest, vars
<1> QED
  BY <1>1, <1>2, <1>3, <1>4, <1>5, <1>6, <1>7 DEF Next

\* An event that publish accepted is handled by every matching subscription that was in
\* place when it was published, or is still on its way to it, or there is a reason on
\* record why not: in every interleaving with subscribers and shutdown calls.
THEOREM AcceptedAccounted == Spec => []Accounted
<1>1. Init => Accounted
  BY DEF Init, Accounted
<1>2. ASSUME TypeOK, TypeOK', BusInv, Accounted, Next PROVE Accounted'
  <2> SUFFICES ASSUME NEW x \in Events, NEW r \in Subs, call'[x] = "ok", r \in audience'[x],
                      r \in Matches[x], ~Excused(x, r)'
               PROVE  Kept(x, r)'
    BY <1>2, ManagerConstants DEF Accounted, Kept
  <2>1. CASE x \in sleepers' \cup Range(queue')
    BY <2>1 DEF Kept, OnItsWay
  <2>2. CASE x \notin sleepers' \cup Range(queue')
    <3>1. call[x] = "ok" /\ r \in audience[x]
      BY <1>2, <2>2, StepAccepts DEF Acceptance, Excused
    <3>2. ~Excused(x, r)
      BY <1>2, <3>1, StepKeepsReasons DEF ReasonsKept, Excused, BusInv, AudienceSubscribed
    <3>3. Kept(x, r)
      BY <1>2, <3>1, <3>2 DEF Accounted, Kept
    <3> QED
      BY <1>2, <3>2, <3>3, StepKeeps
  <2> QED
    BY <2>1, <2>2
<1>3. ASSUME Accounted, UNCHANGED vars PROVE Accounted'
  BY <1>3 DEF vars, managerVars, busVars, Accounted, Excused, Halted, OnItsWay
<1> QED
  BY <1>1, <1>2, <1>3, TypeCorrect, BusInvariant, PTL DEF Spec

-----------------------------------------------------------------------------
(* What a graceful shutdown leaves behind                                  *)

\* There is one call of shutdown_gracefully. A second one would find neither the
\* dispatcher nor the subscriptions that the first one took, and return before it.
SingleDrain == \A c, d \in GracefulCallers : c = d

\* The task runs, and nobody told the runtime to drop it.
Runs(s) == Live(s) /\ ~abort[s]

\* A task that a subscribe in progress inserted after the drain took its snapshot.
Latecomer(s) == s \notin EarlySubs /\ chan[s] = <<>> /\ current[s] = NoEvent

\* How far the drain of c has come with a running task: its entry is in the map; then it
\* is among the ids the drain has still to remove or among the handles it waits for.
DrainReaches(c, s) ==
  /\ pc[c] \notin {"removing", "awaiting", "done"} => s \in subscriptions
  /\ pc[c] = "removing" =>
       s \in ids[c] \cap subscriptions \/ s \in handles[c] \/ Latecomer(s)
  /\ pc[c] = "awaiting" => s \in handles[c] \/ Latecomer(s)
  /\ pc[c] = "done" => Latecomer(s)

\* No running task escapes the drain, unless the bus was shut down abruptly; and a task
\* that is not there has nothing in its channel.
DrainInv ==
  /\ \A s \in EarlySubs : client[s] \in {"active", "removing", "closed"}
  /\ \A s \in Subs : ~Live(s) => chan[s] = <<>>
  /\ ~Halted => \A c \in GracefulCallers : \A s \in Subs : Runs(s) => DrainReaches(c, s)

\* Every step keeps DrainInv: tasks leave the map only ended, aborted or into the hands of
\* the drain, and once the drain takes its snapshot the worker is gone, so that a task
\* inserted later gets nothing.
LEMMA StepKeepsDrainInv ==
  ASSUME SingleDrain, TypeOK, BusInv, DrainInv, Next
  PROVE  DrainInv'
<1> USE ManagerConstants, BusConstants
    DEF TypeOK, ManagerTypeOK, managerVars, busVars, DrainInv, DrainReaches, Latecomer, Runs, Live
<1>0. Halted => Halted'
  BY StepKeepsReasons DEF ReasonsKept
<1>1. ASSUME NEW e \in Events, PublishCheck(e) \/ PublishCall(e) \/ Sleeper(e) PROVE DrainInv'
  <2>1. UNCHANGED <<managerVars, pc, ids, handles>>
    BY <1>1 DEF PublishCheck, PublishCall, PublishLock, GrantRead, PublishRefused, PublishDelayed,
       PublishTrySend, PublishQueueFull, PublishBlocking, PublishSend, Sleeper, DelayElapsed, DelayLost
  <2> QED
    BY <1>0, <2>1
<1>2. CASE Worker
  <2>1. UNCHANGED <<client, task, abort, subscriptions, current, pc, ids, handles>>
    BY <1>2 DEF Worker, WorkerRecv, WorkerBreak, WorkerClosed, WorkerMatch, WorkerCollect, WorkerSend,
       WorkerDone, WorkerTimeout, DispatchMatch, DispatchCollect, DispatchSend, DispatchSendFails,
       DispatchDropped, DispatchFrame
  <2>2. \A s \in Subs : chan'[s] = chan[s] \/ (Live(s) /\ worker = "send")
    BY <1>2 DEF Worker, WorkerRecv, WorkerBreak, WorkerClosed, WorkerMatch, WorkerCollect, WorkerSend,
       WorkerDone, WorkerTimeout, DispatchMatch, DispatchCollect, DispatchSend, DispatchSendFails,
       DispatchDropped, DispatchFrame
  <2>3. \A c \in GracefulCallers : pc[c] \in {"removing", "awaiting", "done"} =>
          worker = "exited" \/ Halted
    BY DEF BusInv, DispatcherLifecycle
  <2> QED
    BY <1>0, <2>1, <2>2, <2>3
<1>3. ASSUME NEW d \in Callers, ShutdownBegin(d) \/ ShutdownCall(d) PROVE DrainInv'
  <2>0. UNCHANGED <<client, task, chan, current>>
    BY <1>3 DEF ShutdownBegin, ShutdownCall, HooksLock, HooksDone, ShutdownLock, GrantWrite,
       TakeDispatcher, WorkerJoined, AbruptTimeout, DrainBegin, DrainStep, DrainAwait, DrainDone,
       ShutdownAbort, ShutdownClear, DrainRemove, AbortAll, ClearSubscriptions, ManagerFrame
  <2>1. CASE ShutdownAbort(d) \/ ShutdownClear(d)
    <3>1. Halted'
      BY <2>1 DEF ShutdownAbort, ShutdownClear, Halted, BusInv, CallerPaths
    <3> QED
      BY <2>0, <3>1
  <2>2. CASE \/ ShutdownBegin(d) \/ HooksLock(d) \/ HooksDone(d) \/ ShutdownLock(d)
             \/ GrantWrite(d) \/ TakeDispatcher(d) \/ WorkerJoined(d) \/ AbruptTimeout(d)
    <3>1. UNCHANGED <<managerVars, ids, handles>>
      BY <2>2 DEF ShutdownBegin, HooksLock, HooksDone, ShutdownLock, GrantWrite, TakeDispatcher,
         WorkerJoined, AbruptTimeout
    <3>2. \A c \in Callers : pc'[c] = pc[c] \/ {pc[c], pc'[c]} \cap {"removing", "awaiting", "done"} = {}
      BY <2>2 DEF ShutdownBegin, HooksLock, HooksDone, ShutdownLock, GrantWrite, TakeDispatcher,
         WorkerJoined, AbruptTimeout
    <3> QED
      BY <1>0, <3>1, <3>2
  <2>3. CASE DrainBegin(d)
    BY <1>0, <2>0, <2>3 DEF DrainBegin, SingleDrain, ManagerFrame
  <2>4. ASSUME NEW id \in Subs, DrainStep(d, id) PROVE DrainInv'
    <3>1. d \in GracefulCallers
      BY <2>4 DEF DrainStep, BusInv, CallerPaths
    <3> QED
      BY <1>0, <2>0, <2>4, <3>1 DEF DrainStep, DrainRemove, SingleDrain
  <2>5. CASE DrainAwait(d)
    BY <1>0, <2>0, <2>5 DEF DrainAwait, ManagerFrame
  <2>6. CASE DrainDone(d)
    BY <1>0, <2>0, <2>6 DEF DrainDone, ManagerFrame
  <2> QED
    BY <1>3, <2>1, <2>2, <2>3, <2>4, <2>5, <2>6 DEF ShutdownCall
<1>4. ASSUME NEW r \in Subs, ClientStep(r) PROVE DrainInv'
  <2>1. UNCHANGED <<pc, ids, handles, chan, current>>
    BY <1>4 DEF ClientStep, SubscribeCheck, SubscribeInsert, SubscribeRegister, HandleUnsubscribe,
       UnsubscribeUnregister, UnsubscribeRemove
  <2>2. CASE SubscribeInsert(r)
    <3>1. task[r] = "none" /\ r \notin EarlySubs /\ current[r] = NoEvent /\ chan[r] = <<>>
      BY <2>2 DEF SubscribeInsert, BusInv, TaskHolds
    <3> QED
      BY <1>0, <2>1, <2>2, <3>1 DEF SubscribeInsert
  <2>3. CASE UnsubscribeRemove(r)
    <3>1. /\ UNCHANGED task
          /\ \A s \in Subs : s # r => client'[s] = client[s] /\ (abort'[s] <=> abort[s])
          /\ subscriptions' = subscriptions \ {r}
          /\ client'[r] = "closed"
          /\ abort'[r] <=> abort[r] \/ r \in subscriptions
      BY <2>3 DEF UnsubscribeRemove
    <3>2. ASSUME ~Halted', NEW c \in GracefulCallers, NEW s \in Subs, Runs(s)' PROVE DrainReaches(c, s)'
      <4>1. Runs(s) /\ DrainReaches(c, s)
        BY <1>0, <3>1, <3>2
      <4>2. r # s \/ s \notin subscriptions
        BY <3>1, <3>2
      <4> QED
        BY <2>1, <3>1, <4>1, <4>2
    <3> QED
      BY <2>1, <3>1, <3>2
  <2>4. CASE ~SubscribeInsert(r) /\ ~UnsubscribeRemove(r)
    <3>1. UNCHANGED <<task, subscriptions, abort>>
      BY <1>4, <2>4 DEF ClientStep, SubscribeCheck, SubscribeRegister, HandleUnsubscribe,
         UnsubscribeUnregister
    <3>2. \A s \in EarlySubs : client'[s] \in {"active", "removing", "closed"}
      BY <1>4, <2>4 DEF ClientStep, SubscribeCheck, SubscribeRegister, HandleUnsubscribe,
         UnsubscribeUnregister
    <3> QED
      BY <1>0, <2>1, <3>1, <3>2
  <2> QED
    BY <2>2, <2>3, <2>4
<1>5. ASSUME NEW r \in Subs, HandlerTask(r) PROVE DrainInv'
  <2>1. UNCHANGED <<pc, ids, handles, client, subscriptions, abort>>
    BY <1>5 DEF HandlerTask, HandlerRecv, HandlerDlqSend, HandlerChannelClosed, HandlerCancelled,
       HandlerReturnsOk, HandlerReturnsErr, HandlerRetries, HandlerIsAborted, HandlerPanics,
       HandlerOk, HandlerErr, HandlerRetry, HandlerAborted, HandlerPanic
  <2>2. \A s \in Subs : s # r => task'[s] = task[s] /\ chan'[s] = chan[s] /\ current'[s] = current[s]
    BY <1>5 DEF HandlerTask, HandlerRecv, HandlerDlqSend, HandlerChannelClosed, HandlerCancelled,
       HandlerReturnsOk, HandlerReturnsErr, HandlerRetries, HandlerIsAborted, HandlerPanics,
       HandlerOk, HandlerErr, HandlerRetry, HandlerAborted, HandlerPanic, FinishEvent, ExitTask
  <2>3. Live(r) /\ (Live(r)' \/ chan'[r] = <<>>) /\ (Latecomer(r) /\ Live(r)' => Latecomer(r)')
    BY <1>5 DEF HandlerTask, HandlerRecv, HandlerDlqSend, HandlerChannelClosed, HandlerCancelled,
       HandlerReturnsOk, HandlerReturnsErr, HandlerRetries, HandlerIsAborted, HandlerPanics,
       HandlerOk, HandlerErr, HandlerRetry, HandlerAborted, HandlerPanic, FinishEvent, ExitTask
  <2>4. ASSUME ~Halted', NEW c \in GracefulCallers, NEW s \in Subs, Runs(s)' PROVE DrainReaches(c, s)'
    <3>1. Runs(s) /\ DrainReaches(c, s)
      BY <1>0, <2>1, <2>2, <2>3, <2>4
    <3> QED
      BY <2>1, <2>2, <2>3, <2>4, <3>1
  <2> QED
    BY <2>1, <2>2, <2>3, <2>4
<1>6. CASE Cleaner
  <2>1. /\ UNCHANGED <<pc, ids, handles, client, task, chan, current>>
        /\ \A s \in Subs : abort[s] => abort'[s]
    BY <1>6 DEF Cleaner, CleanerStep
  <2>2. Head(unsub) \in Range(unsub) /\ subscriptions' = subscriptions \ {Head(unsub)}
    BY <1>6, TailElements DEF Cleaner, CleanerStep
  <2>3. \A s \in Subs : Live(s) => s # Head(unsub)
    BY <2>2 DEF BusInv, TaskHolds
  <2> QED
    BY <1>0, <2>1, <2>2, <2>3
<1>7. CASE DlqConsumer \/ Rest
  BY <1>0, <1>7 DEF DlqConsumer, DlqConsume, Rest, vars
<1> QED
  BY <1>1, <1>2, <1>3, <1>4, <1>5, <1>6, <1>7 DEF Next

\* DrainInv holds in every run with one graceful shutdown.
LEMMA DrainInvariant == SingleDrain => (Spec => []DrainInv)
<1> SUFFICES ASSUME SingleDrain PROVE Spec => []DrainInv
  OBVIOUS
<1>1. Init => DrainInv
  BY ManagerConstants, BusConstants
  DEF Init, ManagerInit, DrainInv, DrainReaches, Runs, Live
<1>2. ASSUME TypeOK, BusInv, DrainInv, Next PROVE DrainInv'
  BY <1>2, StepKeepsDrainInv
<1>3. ASSUME DrainInv, UNCHANGED vars PROVE DrainInv'
  BY <1>3 DEF vars, managerVars, busVars, DrainInv, DrainReaches, Latecomer, Runs, Live, Halted
<1> QED
  BY <1>1, <1>2, <1>3, TypeCorrect, BusInvariant, PTL DEF Spec

\* When the one call of shutdown_gracefully returns and no shutdown() cut in, the worker
\* has ended, and so has every task that was there in time and was not aborted; a task
\* inserted later is idle for good.
THEOREM DrainTerminates == SingleDrain => (Spec => []TerminatedOnReturn)
<1> SUFFICES ASSUME SingleDrain PROVE Spec => []TerminatedOnReturn
  OBVIOUS
<1>1. BusInv /\ DrainInv => TerminatedOnReturn
  BY ManagerConstants, BusConstants
  DEF BusInv, DispatcherLifecycle, DrainInv, DrainReaches, Latecomer, Runs, TerminatedOnReturn
<1> QED
  BY <1>1, DrainInvariant, BusInvariant, PTL

\* And every event that publish had accepted was handled by every matching subscription
\* that was in place and that nothing excuses.
THEOREM DrainComplete == SingleDrain => (Spec => []DrainedOnReturn)
<1> SUFFICES ASSUME SingleDrain PROVE Spec => []DrainedOnReturn
  OBVIOUS
<1>1. ASSUME TypeOK, BusInv, DrainInv, Accounted PROVE DrainedOnReturn
  <2> SUFFICES ASSUME NEW c \in GracefulCallers, pc[c] = "done", NEW e \in Events, call[e] = "ok",
                      NEW s \in audience[e] \cap Matches[e], ~Excused(e, s)
               PROVE  e \in Range(handled[s])
    BY DEF DrainedOnReturn
  <2>1. worker = "exited" /\ queue = <<>> /\ sleepers = {} /\ s \in Subs /\ e # NoEvent
    BY <1>1, ManagerConstants, BusConstants
    DEF Excused, BusInv, DispatcherLifecycle, WorkerHolds, TypeOK
  <2>2. chan[s] = <<>> /\ current[s] = NoEvent
    BY <1>1, <2>1 DEF Excused, DrainInv, DrainReaches, Latecomer, Runs, Live, BusInv, TaskHolds
  <2>3. Range(<<>>) = {}
    BY DEF Range
  <2> QED
    BY <1>1, <2>1, <2>2, <2>3 DEF Accounted, OnItsWay
<1> QED
  BY <1>1, DrainInvariant, AcceptedAccounted, TypeCorrect, BusInvariant, PTL

-----------------------------------------------------------------------------
(* Places and order: the inductive invariants                              *)

\* The events that have come as far as the handler channel of s.
Reached(s) == Range(chan[s]) \cup Range(handled[s]) \cup ({current[s]} \cap Events)

\* The dispatch in progress may still send its event to s.
ToBeSent(s) == worker \in {"match", "collect"} \/ s \in pending

\* Only accepted events are on their way, and only to the subscriptions they match.
OnlyAccepted ==
  /\ \A e \in sleepers \cup Range(queue) \cup ({event} \cap Events) : call[e] = "ok"
  /\ \A s \in Subs : \A e \in Reached(s) : call[e] = "ok" /\ s \in Matches[e]
  /\ \A s \in matched \cup pending : s \in Matches[event]

\* What has reached s is in its channel, in its hands or handled, and nowhere before.
Apart(s) ==
  /\ IsInjective(chan[s])
  /\ Reached(s) \cap (sleepers \cup Range(queue)) = {}
  /\ ToBeSent(s) => event \notin Reached(s)
  /\ Range(chan[s]) \cap Range(handled[s]) = {}
  /\ current[s] \notin Range(chan[s]) \cup Range(handled[s])

\* No event is in two places of its way to the same subscription.
NeverTwice ==
  /\ IsInjective(queue)
  /\ sleepers \cap Range(queue) = {}
  /\ event \notin sleepers \cup Range(queue)
  /\ \A s \in Subs : Apart(s)

\* A graceful shutdown that is past the lock has taken the dispatcher.
DispatcherTaken ==
  \A c \in GracefulCallers :
    pc[c] \in {"draining", "manager", "removing", "awaiting", "done"} => ~dispatcher

PlacesInv == OnlyAccepted /\ NeverTwice /\ DispatcherTaken

\* The events that e must not overtake.
Before(e) == {x \in prior[e] : {x, e} \cap Delayed = {}}

\* Where e is, no event it must not overtake is further behind.
NotOvertaken(e, x) ==
  /\ Precedes(queue, x, e)
  /\ e = event => x \notin Range(queue)
  /\ \A s \in Subs :
       /\ e \in Reached(s) => x \notin Range(queue) /\ ~(x = event /\ ToBeSent(s))
       /\ Precedes(chan[s], x, e)
       /\ e = current[s] \/ e \in Range(handled[s]) => x \notin Range(chan[s])
       /\ e \in Range(handled[s]) => x # current[s]
       /\ Precedes(handled[s], x, e)

OrderInv ==
  /\ sleepers \subseteq Delayed
  /\ \A e \in Events : \A x \in Before(e) : x # e /\ call[x] = "ok" /\ NotOvertaken(e, x)

-----------------------------------------------------------------------------
(* What most steps have in common                                          *)

\* Everything that says where events are.
places == <<sleepers, queue, worker, event, matched, pending, chan, current, handled>>

\* A publish that returned Ok has returned Ok.
LEMMA OkStays ==
  ASSUME TypeOK, Next
  PROVE  \A e \in Events : call[e] = "ok" => call'[e] = "ok"
<1> USE DEF TypeOK, busVars, Return
<1>1. ASSUME NEW e \in Events, PublishCheck(e) \/ PublishCall(e) \/ Sleeper(e)
      PROVE  \A x \in Events : call[x] = "ok" => call'[x] = "ok"
  BY <1>1 DEF PublishCheck, PublishCall, PublishLock, GrantRead, PublishRefused, PublishDelayed,
     PublishTrySend, PublishQueueFull, PublishBlocking, PublishSend, Sleeper, DelayElapsed, DelayLost
<1>2. ASSUME NEW s \in Subs, HandlerTask(s)
      PROVE  \A x \in Events : call[x] = "ok" => call'[x] = "ok"
  BY <1>2 DEF HandlerTask, HandlerReturnsOk, HandlerReturnsErr, HandlerRetries, HandlerIsAborted,
     HandlerPanics, InProgress
<1>3. CASE Worker
  BY <1>3 DEF Worker, WorkerRecv, WorkerBreak, WorkerClosed, WorkerMatch, WorkerCollect, WorkerSend,
     WorkerDone, WorkerTimeout, DispatchFrame
<1>4. ASSUME NEW c \in Callers, ShutdownBegin(c) \/ ShutdownCall(c) PROVE call' = call
  BY <1>4 DEF ShutdownBegin, ShutdownCall, HooksLock, HooksDone, ShutdownLock, GrantWrite,
     TakeDispatcher, WorkerJoined, AbruptTimeout, DrainBegin, DrainStep, DrainAwait, DrainDone,
     ShutdownAbort, ShutdownClear, ManagerFrame
<1>5. ASSUME NEW s \in Subs, ClientStep(s) PROVE call' = call
  BY <1>5 DEF ClientStep, SubscribeCheck
<1>6. CASE Cleaner \/ DlqConsumer \/ Rest
  BY <1>6 DEF Cleaner, DlqConsumer, Rest, vars
<1> QED
  BY <1>1, <1>2, <1>3, <1>4, <1>5, <1>6 DEF Next

\* Subscribers, shutdown calls, the cleaner and the consumer of the DLQ move no event.
LEMMA StayInPlace ==
  ASSUME \/ \E c \in Callers : ShutdownBegin(c) \/ ShutdownCall(c)
         \/ \E s \in Subs : ClientStep(s)
         \/ Cleaner \/ DlqConsumer \/ Rest \/ UNCHANGED vars
  PROVE  UNCHANGED places /\ UNCHANGED <<call, prior>>
<1> USE DEF places, managerVars, busVars
<1>1. ASSUME NEW c \in Callers, ShutdownBegin(c) \/ ShutdownCall(c)
      PROVE  UNCHANGED places /\ UNCHANGED <<call, prior>>
  BY <1>1 DEF ShutdownBegin, ShutdownCall, HooksLock, HooksDone, ShutdownLock, GrantWrite,
     TakeDispatcher, WorkerJoined, AbruptTimeout, DrainBegin, DrainStep, DrainAwait, DrainDone,
     ShutdownAbort, ShutdownClear, DrainRemove, AbortAll, ClearSubscriptions, ManagerFrame
<1>2. ASSUME NEW s \in Subs, ClientStep(s)
      PROVE  UNCHANGED places /\ UNCHANGED <<call, prior>>
  BY <1>2 DEF ClientStep, SubscribeCheck, SubscribeInsert, SubscribeRegister, HandleUnsubscribe,
     UnsubscribeUnregister, UnsubscribeRemove
<1>3. CASE Cleaner \/ DlqConsumer \/ Rest \/ UNCHANGED vars
  BY <1>3 DEF Cleaner, CleanerStep, DlqConsumer, DlqConsume, Rest, vars
<1> QED
  BY <1>1, <1>2, <1>3

-----------------------------------------------------------------------------
(* One place at a time                                                     *)

\* Every step keeps what a graceful shutdown has taken.
LEMMA TakenStep ==
  ASSUME TypeOK, BusInv, DispatcherTaken, [Next]_vars
  PROVE  DispatcherTaken'
<1> USE BusConstants DEF TypeOK, busVars, DispatcherTaken
<1>1. ASSUME NEW c \in Callers, ShutdownBegin(c) \/ ShutdownCall(c) PROVE DispatcherTaken'
  BY <1>1 DEF BusInv, CallerPaths, ShutdownBegin, ShutdownCall, HooksLock, HooksDone, ShutdownLock,
     GrantWrite, TakeDispatcher, WorkerJoined, AbruptTimeout, DrainBegin, DrainStep, DrainAwait,
     DrainDone, ShutdownAbort, ShutdownClear, ManagerFrame
<1>2. CASE ~\E c \in Callers : ShutdownBegin(c) \/ ShutdownCall(c)
  <2>1. UNCHANGED <<pc, dispatcher>>
    BY <1>2 DEF Next, PublishCheck, PublishCall, PublishLock, GrantRead, PublishRefused,
       PublishDelayed, PublishTrySend, PublishQueueFull, PublishBlocking, PublishSend, Sleeper,
       DelayElapsed, DelayLost, Worker, WorkerRecv, WorkerBreak, WorkerClosed, WorkerMatch,
       WorkerCollect, WorkerSend, WorkerDone, WorkerTimeout, DispatchFrame, ClientStep,
       SubscribeCheck, HandlerTask, HandlerReturnsOk, HandlerReturnsErr, HandlerRetries,
       HandlerIsAborted, HandlerPanics, Cleaner, DlqConsumer, Rest, vars
  <2> QED
    BY <2>1
<1> QED
  BY <1>1, <1>2

\* Every step leaves an event in one place or moves it to the next.
LEMMA PlacesStep ==
  ASSUME TypeOK, TypeOK', BusInv, OnlyAccepted, NeverTwice, Next
  PROVE  OnlyAccepted' /\ NeverTwice'
<1> USE ManagerConstants, BusConstants DEF TypeOK, ManagerTypeOK, managerVars, busVars,
        OnlyAccepted, NeverTwice, Apart, Reached, ToBeSent
<1> DEFINE Goal == OnlyAccepted' /\ NeverTwice'
<1>0. /\ \A e \in Events : call[e] = "ok" => call'[e] = "ok"
      /\ Range(queue) \subseteq Events
      /\ \A s \in Subs : Range(chan[s]) \subseteq Events /\ Range(handled[s]) \subseteq Events
  BY OkStays, RangeOfSeq
<1>1. ASSUME UNCHANGED places PROVE Goal
  BY <1>0, <1>1 DEF places
<1>2. ASSUME NEW e \in Events, call[e] # "ok", call'[e] = "ok", queue' = Append(queue, e),
             UNCHANGED <<managerVars, sleepers, worker, event>>
      PROVE  Goal
  <2>1. Range(queue') = Range(queue) \cup {e} /\ e \notin Range(queue)
    BY <1>2, AppendElements
  <2>2. IsInjective(queue')
    BY <1>2, <2>1, AppendDistinct
  <2> QED
    BY <1>0, <1>2, <2>1, <2>2
<1>3. ASSUME NEW e \in Events, PublishCheck(e) \/ PublishCall(e) PROVE Goal
  <2>1. CASE PublishTrySend(e) \/ PublishSend(e)
    BY <1>2, <2>1 DEF PublishTrySend, PublishSend, Return
  <2>2. CASE PublishDelayed(e)
    <3>1. /\ call[e] # "ok" /\ call'[e] = "ok" /\ sleepers' = sleepers \cup {e}
          /\ UNCHANGED <<managerVars, queue, worker, event>>
      BY <2>2 DEF PublishDelayed, Return
    <3> QED
      BY <1>0, <3>1
  <2>3. CASE ~(PublishTrySend(e) \/ PublishSend(e) \/ PublishDelayed(e))
    <3>1. UNCHANGED places
      BY <1>3, <2>3 DEF places, PublishCheck, PublishCall, PublishLock, GrantRead, PublishRefused,
         PublishQueueFull, PublishBlocking
    <3> QED
      BY <1>1, <3>1
  <2> QED
    BY <2>1, <2>2, <2>3
<1>4. ASSUME NEW e \in Events, Sleeper(e) PROVE Goal
  <2>1. CASE DelayElapsed(e)
    <3>1. Range(queue') = Range(queue) \cup {e} /\ e \notin Range(queue)
      BY <2>1, AppendElements DEF DelayElapsed
    <3>2. IsInjective(queue')
      BY <2>1, <3>1, AppendDistinct DEF DelayElapsed
    <3> QED
      BY <1>0, <2>1, <3>1, <3>2 DEF DelayElapsed
  <2>2. CASE DelayLost(e)
    BY <1>0, <2>2 DEF DelayLost
  <2> QED
    BY <1>4, <2>1, <2>2 DEF Sleeper
<1>5. CASE Worker
  <2> USE DEF DispatchFrame
  <2>1. CASE WorkerRecv
    <3>1. /\ Range(queue) = {event'} \cup Range(queue') /\ event' \in Events
          /\ IsInjective(queue') /\ event' \notin Range(queue')
      BY <2>1, TailElements, TailDistinct DEF WorkerRecv
    <3>2. matched = {} /\ pending = {}
      BY <2>1 DEF WorkerRecv, BusInv, WorkerHolds
    <3> QED
      BY <1>0, <2>1, <3>1, <3>2 DEF WorkerRecv
  <2>2. CASE WorkerBreak
    <3>1. Range(queue') = {} /\ IsInjective(queue')
      BY <2>2 DEF WorkerBreak, Range, IsInjective
    <3>2. UNCHANGED <<chan, handled, current, sleepers, event, call, matched, pending>>
      BY <2>2 DEF WorkerBreak
    <3>3. \A s \in Subs : ToBeSent(s)' => ToBeSent(s)
      BY <2>2 DEF WorkerBreak
    <3> QED
      BY <3>1, <3>2, <3>3
  <2>3. CASE WorkerClosed
    BY <1>0, <2>3 DEF WorkerClosed
  <2>4. CASE WorkerMatch
    BY <1>0, <2>4 DEF WorkerMatch, DispatchMatch, BusInv, WorkerHolds
  <2>5. CASE WorkerCollect
    BY <1>0, <2>5 DEF WorkerCollect, DispatchCollect
  <2>6. ASSUME NEW s \in Subs, WorkerSend(s) PROVE Goal
    <3>1. CASE DispatchSend(s, event)
      <4>1. event \in Events /\ s \in pending /\ event \notin Reached(s)
        BY <2>6, <3>1 DEF WorkerSend, DispatchSend
      <4>2. /\ Range(chan'[s]) = Range(chan[s]) \cup {event}
            /\ IsInjective(chan'[s])
        BY <2>6, <3>1, <4>1, AppendElements, AppendDistinct DEF DispatchSend
      <4>3. \A r \in Subs : r # s => chan'[r] = chan[r]
        BY <3>1 DEF DispatchSend
      <4>4. /\ UNCHANGED <<queue, sleepers, event, worker, current, handled, matched, call>>
            /\ pending' = pending \ {s} /\ worker = "send"
        BY <2>6, <3>1 DEF WorkerSend, DispatchSend
      <4>5. ASSUME NEW r \in Subs, NEW e \in Reached(r)'
            PROVE  call'[e] = "ok" /\ r \in Matches[e]
        <5>1. e \in Reached(r) \/ (r = s /\ e = event)
          BY <4>2, <4>3, <4>4
        <5>2. call[event] = "ok" /\ s \in Matches[event]
          BY <4>1
        <5> QED
          BY <4>4, <5>1, <5>2
      <4>6. ASSUME NEW r \in Subs PROVE Apart(r)'
        BY <4>1, <4>2, <4>3, <4>4
      <4> QED
        BY <4>4, <4>5, <4>6
    <3>2. CASE DispatchSendFails(s)
      BY <1>0, <2>6, <3>2 DEF WorkerSend, DispatchSendFails
    <3> QED
      BY <2>6, <3>1, <3>2 DEF WorkerSend
  <2>7. CASE WorkerDone
    <3>1. matched = {}
      BY <2>7 DEF WorkerDone, BusInv, WorkerHolds
    <3> QED
      BY <1>0, <2>7, <3>1 DEF WorkerDone
  <2>8. CASE WorkerTimeout
    <3>1. matched = {}
      BY <2>8 DEF WorkerTimeout, BusInv, WorkerHolds
    <3> QED
      BY <1>0, <2>8, <3>1 DEF WorkerTimeout, DispatchDropped
  <2> QED
    BY <1>5, <2>1, <2>2, <2>3, <2>4, <2>5, <2>6, <2>7, <2>8 DEF Worker
<1>6. ASSUME NEW s \in Subs, HandlerTask(s) PROVE Goal
  <2>1. CASE HandlerRecv(s) /\ UNCHANGED busVars
    <3>1. /\ Range(chan[s]) = {current'[s]} \cup Range(chan'[s]) /\ current'[s] \in Events
          /\ IsInjective(chan'[s]) /\ current'[s] \notin Range(chan'[s])
      <4>1. chan[s] \in Seq(Events) /\ chan[s] # <<>> /\ current'[s] = Head(chan[s])
            /\ chan'[s] = Tail(chan[s])
        BY <2>1 DEF HandlerRecv
      <4> QED
        BY <4>1, TailElements, TailDistinct
    <3>2. \A r \in Subs : r # s => chan'[r] = chan[r] /\ current'[r] = current[r]
      BY <2>1 DEF HandlerRecv
    <3>3. UNCHANGED <<queue, sleepers, event, worker, handled, matched, pending, call>>
      BY <2>1 DEF HandlerRecv
    <3>4. current[s] = NoEvent
      BY <2>1 DEF HandlerRecv, BusInv, TaskHolds
    <3>5. ASSUME NEW r \in Subs, NEW e \in Reached(r)'
          PROVE  call'[e] = "ok" /\ r \in Matches[e]
      BY <3>1, <3>2, <3>3, <3>4
    <3>6. ASSUME NEW r \in Subs PROVE Apart(r)'
      <4>1. CASE r = s
        BY <3>1, <3>3, <3>4, <4>1
      <4>2. CASE r # s
        BY <3>2, <3>3, <4>2
      <4> QED
        BY <4>1, <4>2
    <3> QED
      BY <3>3, <3>5, <3>6
  <2>2. CASE (HandlerDlqSend(s) \/ HandlerOk(s)) /\ UNCHANGED busVars
    <3>1. /\ Range(handled'[s]) = Range(handled[s]) \cup {current[s]}
          /\ current[s] \in Events /\ current'[s] = NoEvent
      <4>1. handled[s] \in Seq(Events) /\ current[s] \in Events /\ current'[s] = NoEvent
            /\ handled'[s] = Append(handled[s], current[s])
        BY <2>2 DEF HandlerDlqSend, HandlerOk, FinishEvent
      <4> QED
        BY <4>1, AppendElements
    <3>2. \A r \in Subs : r # s => handled'[r] = handled[r] /\ current'[r] = current[r]
      BY <2>2 DEF HandlerDlqSend, HandlerOk, FinishEvent
    <3>3. UNCHANGED <<queue, sleepers, event, worker, chan, matched, pending, call>>
      BY <2>2 DEF HandlerDlqSend, HandlerOk
    <3>4. ASSUME NEW r \in Subs, NEW e \in Reached(r)'
          PROVE  call'[e] = "ok" /\ r \in Matches[e]
      BY <3>1, <3>2, <3>3
    <3>5. ASSUME NEW r \in Subs PROVE Apart(r)'
      <4>1. CASE r = s
        BY <1>0, <3>1, <3>3, <4>1
      <4>2. CASE r # s
        BY <3>2, <3>3, <4>2
      <4> QED
        BY <4>1, <4>2
    <3> QED
      BY <3>3, <3>4, <3>5
  <2>3. ASSUME ExitTask(s, "exited") \/ ExitTask(s, "panicked"),
               UNCHANGED <<sleepers, queue, worker, event, matched, pending, handled>>
        PROVE  Goal
    <3>1. /\ Range(chan'[s]) = {} /\ IsInjective(chan'[s]) /\ current'[s] = NoEvent
          /\ NoEvent \notin Range(handled[s])
      <4>1. chan'[s] = <<>> /\ current'[s] = NoEvent
        BY <2>3 DEF ExitTask
      <4>2. Range(handled[s]) \subseteq Events
        BY RangeOfSeq
      <4> QED
        BY <4>1, <4>2 DEF Range, IsInjective
    <3>2. \A r \in Subs : r # s => chan'[r] = chan[r] /\ current'[r] = current[r]
      BY <2>3 DEF ExitTask
    <3>3. ASSUME NEW r \in Subs, NEW e \in Reached(r)'
          PROVE  call'[e] = "ok" /\ r \in Matches[e]
      BY <1>0, <2>3, <3>1, <3>2
    <3>4. ASSUME NEW r \in Subs PROVE Apart(r)'
      <4>1. CASE r = s
        BY <2>3, <3>1, <4>1
      <4>2. CASE r # s
        BY <2>3, <3>2, <4>2
      <4> QED
        BY <4>1, <4>2
    <3> QED
      BY <1>0, <2>3, <3>3, <3>4
  <2>4. CASE (HandlerChannelClosed(s) \/ HandlerCancelled(s)) /\ UNCHANGED busVars
    BY <2>3, <2>4 DEF HandlerChannelClosed, HandlerCancelled
  <2>5. CASE HandlerIsAborted(s) \/ HandlerPanics(s)
    BY <2>3, <2>5 DEF HandlerIsAborted, HandlerAborted, HandlerPanics, HandlerPanic
  <2>6. CASE HandlerReturnsErr(s) \/ HandlerRetries(s)
    BY <1>1, <2>6 DEF HandlerReturnsErr, HandlerErr, HandlerRetries, HandlerRetry, places
  <2> QED
    BY <1>6, <2>1, <2>2, <2>4, <2>5, <2>6 DEF HandlerTask, HandlerReturnsOk
<1> QED
  BY <1>1, <1>3, <1>4, <1>5, <1>6, StayInPlace DEF Next

\* An accepted event is in one place at a time on its way to each subscription, and a
\* graceful shutdown takes the dispatcher for good.
THEOREM PlacesInvariant == Spec => []PlacesInv
<1>1. ASSUME Init PROVE PlacesInv
  <2>1. Range(<<>>) = {} /\ IsInjective(<<>>)
    BY DEF Range, IsInjective
  <2>2. \A s \in Subs : Reached(s) = {}
    BY <1>1, <2>1, ManagerConstants DEF Init, ManagerInit, Reached
  <2>3. DispatcherTaken
    BY <1>1, BusConstants DEF Init, DispatcherTaken
  <2>4. OnlyAccepted
    BY <1>1, <2>1, <2>2, ManagerConstants DEF Init, ManagerInit, OnlyAccepted
  <2>5. NeverTwice
    BY <1>1, <2>1, <2>2, ManagerConstants DEF Init, ManagerInit, NeverTwice, Apart
  <2> QED
    BY <2>3, <2>4, <2>5 DEF PlacesInv
<1>2. ASSUME TypeOK, TypeOK', BusInv, PlacesInv, [Next]_vars PROVE PlacesInv'
  <2>1. DispatcherTaken'
    BY <1>2, TakenStep DEF PlacesInv
  <2>2. CASE UNCHANGED vars
    BY <1>2, <2>1, <2>2 DEF vars, managerVars, busVars, PlacesInv, OnlyAccepted, NeverTwice,
       Apart, Reached, ToBeSent
  <2> QED
    BY <1>2, <2>1, <2>2, PlacesStep DEF PlacesInv
<1> QED
  BY <1>1, <1>2, TypeCorrect, BusInvariant, PTL DEF Spec

-----------------------------------------------------------------------------
(* The refinement                                                          *)

\* A step that neither accepts nor finishes an event nor completes a graceful shutdown
\* is a stuttering step of the contract.
LEMMA Stutters ==
  ASSUME TypeOK, \A e \in Events : call'[e] = "ok" <=> call[e] = "ok",
         handled' = handled,
         \A c \in GracefulCallers : pc'[c] = "done" <=> pc[c] = "done"
  PROVE  UNCHANGED Contract!contractVars
<1>1. {e \in Events : call'[e] = "ok"} = {e \in Events : call[e] = "ok"}
  OBVIOUS
<1>2. (\E c \in GracefulCallers : pc'[c] = "done") <=> (\E c \in GracefulCallers : pc[c] = "done")
  OBVIOUS
<1>3. (\E c \in GracefulCallers : pc[c] = "done")' = (\E c \in GracefulCallers : pc[c] = "done")
  BY <1>2
<1> QED
  BY <1>1, <1>3 DEF Contract!contractVars

\* Every step of the bus is one of the contract, or does not show there.
LEMMA ContractStep ==
  ASSUME TypeOK, BusInv, PlacesInv, Next
  PROVE  [Contract!Next]_(Contract!contractVars)
<1> USE ManagerConstants, BusConstants DEF TypeOK, ManagerTypeOK, managerVars, busVars
<1> DEFINE Goal == [Contract!Next]_(Contract!contractVars)
<1>1. ASSUME NEW e \in Events, call[e] # "ok", call' = [call EXCEPT ![e] = "ok"],
             UNCHANGED <<handled, pc>>, dispatcher
      PROVE  Goal
  <2>1. ~\E c \in GracefulCallers : pc[c] = "done"
    BY <1>1 DEF PlacesInv, DispatcherTaken
  <2>2. {x \in Events : call'[x] = "ok"} = {x \in Events : call[x] = "ok"} \cup {e}
    BY <1>1
  <2>3. Contract!Accept(e)
    BY <1>1, <2>1, <2>2 DEF Contract!Accept
  <2> QED
    BY <2>3 DEF Contract!Next
<1>2. ASSUME NEW e \in Events, PublishCheck(e) \/ PublishCall(e) PROVE Goal
  <2>1. CASE PublishDelayed(e) \/ PublishTrySend(e)
    BY <1>1, <2>1 DEF PublishDelayed, PublishTrySend, Return, Admitted
  <2>2. CASE PublishSend(e)
    <3>1. dispatcher
      BY <2>2 DEF PublishSend, BusInv, DispatcherLifecycle
    <3> QED
      BY <1>1, <2>2, <3>1 DEF PublishSend, Return
  <2>3. CASE PublishQueueFull(e) /\ e \notin Tries
    BY <1>1, <2>3 DEF PublishQueueFull, Return, Admitted
  <2>4. CASE \/ PublishCheck(e) \/ PublishLock(e) \/ GrantRead(e) \/ PublishRefused(e)
             \/ PublishBlocking(e) \/ (PublishQueueFull(e) /\ e \in Tries)
    <3>1. \E x \in CallState \ {"ok"} : call[e] # "ok" /\ call' = [call EXCEPT ![e] = x]
      BY <2>4 DEF PublishCheck, PublishLock, GrantRead, PublishRefused, PublishBlocking,
         PublishQueueFull, Return, CallState
    <3>2. UNCHANGED <<handled, pc>>
      BY <2>4 DEF PublishCheck, PublishLock, GrantRead, PublishRefused, PublishBlocking,
         PublishQueueFull
    <3> QED
      BY <3>1, <3>2, Stutters
  <2> QED
    BY <1>2, <2>1, <2>2, <2>3, <2>4 DEF PublishCall
<1>3. ASSUME NEW e \in Events, Sleeper(e) PROVE Goal
  BY <1>3, Stutters DEF Sleeper, DelayElapsed, DelayLost
<1>4. CASE Worker
  BY <1>4, Stutters DEF Worker, WorkerRecv, WorkerBreak, WorkerClosed, WorkerMatch, WorkerCollect,
     WorkerSend, WorkerDone, WorkerTimeout, DispatchMatch, DispatchCollect, DispatchSend,
     DispatchSendFails, DispatchDropped, DispatchFrame
<1>5. ASSUME NEW c \in Callers, ShutdownBegin(c) \/ ShutdownCall(c) PROVE Goal
  <2>0. UNCHANGED <<call, handled>>
    BY <1>5, StayInPlace DEF places
  <2>1. CASE DrainDone(c)
    <3>1. c \in GracefulCallers /\ pc'[c] = "done"
      BY <2>1 DEF DrainDone, BusInv, CallerPaths
    <3>2. CASE \E d \in GracefulCallers : pc[d] = "done"
      BY <2>0, <2>1, <3>2, Stutters DEF DrainDone, Contract!contractVars
    <3>3. CASE ~\E d \in GracefulCallers : pc[d] = "done"
      BY <2>0, <3>1, <3>3 DEF Contract!Next, Contract!Stop
    <3> QED
      BY <3>2, <3>3
  <2>2. CASE ~DrainDone(c)
    <3>1. \A d \in GracefulCallers : pc'[d] = "done" <=> pc[d] = "done"
      BY <1>5, <2>2 DEF BusInv, CallerPaths, ShutdownBegin, ShutdownCall, HooksLock, HooksDone,
         ShutdownLock, GrantWrite, TakeDispatcher, WorkerJoined, AbruptTimeout, DrainBegin,
         DrainStep, DrainAwait, ShutdownAbort, ShutdownClear
    <3> QED
      BY <2>0, <3>1, Stutters
  <2> QED
    BY <2>1, <2>2
<1>6. ASSUME NEW s \in Subs, ClientStep(s) PROVE Goal
  <2>1. UNCHANGED <<call, handled>>
    BY <1>6, StayInPlace DEF places
  <2>2. UNCHANGED pc
    BY <1>6 DEF ClientStep, SubscribeCheck
  <2> QED
    BY <2>1, <2>2, Stutters
<1>7. ASSUME NEW s \in Subs, HandlerTask(s) PROVE Goal
  <2>1. CASE (HandlerDlqSend(s) \/ HandlerOk(s)) /\ UNCHANGED busVars
    <3>1. /\ current[s] \in Events /\ call[current[s]] = "ok" /\ s \in Matches[current[s]]
          /\ current[s] \notin Range(handled[s])
      BY <2>1 DEF HandlerDlqSend, HandlerOk, PlacesInv, OnlyAccepted, NeverTwice, Apart, Reached
    <3>2. handled' = [handled EXCEPT ![s] = Append(handled[s], current[s])]
      BY <2>1 DEF HandlerDlqSend, HandlerOk, FinishEvent
    <3>3. Contract!Finish(s, current[s])
      BY <2>1, <3>1, <3>2 DEF Contract!Finish, Contract!Range, Range
    <3> QED
      BY <3>1, <3>3 DEF Contract!Next
  <2>2. CASE ~((HandlerDlqSend(s) \/ HandlerOk(s)) /\ UNCHANGED busVars)
    <3>1. UNCHANGED <<handled, pc>>
      BY <1>7, <2>2 DEF HandlerTask, HandlerRecv, HandlerChannelClosed, HandlerCancelled,
         HandlerReturnsOk, HandlerReturnsErr, HandlerErr, HandlerRetries, HandlerRetry,
         HandlerIsAborted, HandlerAborted, HandlerPanics, HandlerPanic
    <3>2. \A e \in Events : call'[e] = "ok" <=> call[e] = "ok"
      BY <1>7 DEF HandlerTask, HandlerReturnsOk, HandlerReturnsErr, HandlerRetries,
         HandlerIsAborted, HandlerPanics, InProgress
    <3> QED
      BY <3>1, <3>2, Stutters
  <2> QED
    BY <2>1, <2>2
<1>8. CASE Cleaner \/ DlqConsumer \/ Rest
  <2>1. UNCHANGED <<call, handled>>
    BY <1>8, StayInPlace DEF places
  <2>2. UNCHANGED pc
    BY <1>8 DEF Cleaner, DlqConsumer, Rest, vars
  <2> QED
    BY <2>1, <2>2, Stutters
<1> QED
  BY <1>2, <1>3, <1>4, <1>5, <1>6, <1>7, <1>8 DEF Next

\* The bus implements its contract: a subscription finishes an accepted event that matches
\* it once at most, nothing else, and nothing is accepted once a graceful shutdown returned.
THEOREM BusImplementsContract == Spec => ImplementsContract
<1>1. Init => Contract!Init
  BY BusConstants DEF Init, ManagerInit, Contract!Init
<1>2. ASSUME TypeOK, BusInv, PlacesInv, [Next]_vars PROVE [Contract!Next]_(Contract!contractVars)
  <2>1. CASE UNCHANGED vars
    BY <2>1, <1>2, Stutters DEF vars, managerVars, busVars
  <2> QED
    BY <1>2, <2>1, ContractStep
<1> QED
  BY <1>1, <1>2, TypeCorrect, BusInvariant, PlacesInvariant, PTL
     DEF Spec, ImplementsContract, Contract!Spec

-----------------------------------------------------------------------------
(* Order                                                                   *)

\* Every step keeps two events in their order: an event is moved only when none that was
\* published before it is behind.
LEMMA OrderStep ==
  ASSUME TypeOK, BusInv, PlacesInv, Next, sleepers \subseteq Delayed,
         NEW e \in Events, NEW x \in Events, x # e, call[x] = "ok", {x, e} \cap Delayed = {},
         NotOvertaken(e, x)
  PROVE  NotOvertaken(e, x)'
<1> USE ManagerConstants, BusConstants DEF TypeOK, ManagerTypeOK, managerVars, busVars,
        NotOvertaken, Reached, ToBeSent
<1> DEFINE Goal == NotOvertaken(e, x)'
<1>0. /\ Range(queue) \subseteq Events
      /\ \A s \in Subs : Range(chan[s]) \subseteq Events /\ Range(handled[s]) \subseteq Events
  BY RangeOfSeq
<1>1. ASSUME UNCHANGED places PROVE Goal
  BY <1>1 DEF places
<1>2. ASSUME NEW y \in Events, y # x, queue' = Append(queue, y), e = y => e # event,
             e = y => \A s \in Subs : e \notin Reached(s),
             UNCHANGED <<managerVars, worker, event>>
      PROVE  Goal
  <2>1. Range(queue') = Range(queue) \cup {y}
    BY <1>2, AppendElements
  <2>2. Precedes(queue', x, e)
    BY <1>2, AppendPrecedes
  <2> QED
    BY <1>2, <2>1, <2>2
<1>3. ASSUME NEW y \in Events, PublishCheck(y) \/ PublishCall(y) PROVE Goal
  <2>1. CASE PublishTrySend(y) \/ PublishSend(y)
    <3>1. /\ call[y] # "ok" /\ queue' = Append(queue, y)
          /\ UNCHANGED <<managerVars, worker, event>>
      BY <2>1 DEF PublishTrySend, PublishSend
    <3>2. y # event /\ \A s \in Subs : y \notin Reached(s)
      BY <3>1 DEF PlacesInv, OnlyAccepted
    <3> QED
      BY <1>2, <3>1, <3>2
  <2>2. CASE ~(PublishTrySend(y) \/ PublishSend(y))
    <3>1. UNCHANGED <<queue, worker, event, matched, pending, chan, current, handled>>
      BY <1>3, <2>2 DEF PublishCheck, PublishCall, PublishLock, GrantRead, PublishRefused,
         PublishDelayed, PublishQueueFull, PublishBlocking
    <3> QED
      BY <3>1
  <2> QED
    BY <2>1, <2>2
<1>4. ASSUME NEW y \in Events, Sleeper(y) PROVE Goal
  <2>1. CASE DelayElapsed(y)
    BY <1>2, <2>1 DEF DelayElapsed
  <2>2. CASE DelayLost(y)
    BY <2>2 DEF DelayLost
  <2> QED
    BY <1>4, <2>1, <2>2 DEF Sleeper
<1>5. CASE Worker
  <2> USE DEF DispatchFrame
  <2>1. CASE WorkerRecv
    <3>1. /\ Range(queue) = {event'} \cup Range(queue')
          /\ Precedes(queue', x, e) /\ (event' = e => x \notin Range(queue'))
      BY <2>1, TailElements, TailPrecedes DEF WorkerRecv
    <3>2. pending = {}
      BY <2>1 DEF WorkerRecv, BusInv, WorkerHolds
    <3> QED
      BY <2>1, <3>1, <3>2 DEF WorkerRecv
  <2>2. CASE WorkerBreak
    <3>1. Range(queue') = {} /\ Precedes(queue', x, e)
      BY <2>2 DEF WorkerBreak, Range, Precedes
    <3> QED
      BY <2>2, <3>1 DEF WorkerBreak
  <2>3. CASE WorkerClosed
    BY <2>3 DEF WorkerClosed
  <2>4. CASE WorkerMatch
    BY <2>4 DEF WorkerMatch, DispatchMatch
  <2>5. CASE WorkerCollect
    BY <2>5 DEF WorkerCollect, DispatchCollect
  <2>6. ASSUME NEW s \in Subs, WorkerSend(s) PROVE Goal
    <3>1. CASE DispatchSend(s, event)
      <4>1. event \in Events /\ s \in pending
        BY <2>6, <3>1 DEF WorkerSend, DispatchSend
      <4>2. x = event => e \notin Reached(s)
        BY <4>1
      <4>3. /\ Range(chan'[s]) = Range(chan[s]) \cup {event}
            /\ Precedes(chan'[s], x, e)
        <5>1. chan[s] \in Seq(Events) /\ chan'[s] = Append(chan[s], event)
          BY <3>1 DEF DispatchSend
        <5>2. Precedes(chan[s], x, e) /\ (event = x => e \notin Range(chan[s]))
          BY <4>2
        <5> QED
          BY <4>1, <5>1, <5>2, AppendElements, AppendPrecedes
      <4>4. \A r \in Subs : r # s => chan'[r] = chan[r]
        BY <3>1 DEF DispatchSend
      <4>5. /\ UNCHANGED <<queue, event, worker, current, handled>>
            /\ pending' = pending \ {s} /\ worker = "send"
        BY <2>6, <3>1 DEF WorkerSend, DispatchSend
      <4>6. ASSUME NEW r \in Subs
            PROVE  /\ e \in Reached(r)' => x \notin Range(queue') /\ ~(x = event' /\ ToBeSent(r)')
                   /\ Precedes(chan'[r], x, e)
                   /\ e = current'[r] \/ e \in Range(handled'[r]) => x \notin Range(chan'[r])
                   /\ e \in Range(handled'[r]) => x # current'[r]
                   /\ Precedes(handled'[r], x, e)
        <5>1. CASE r = s
          BY <4>1, <4>2, <4>3, <4>5, <5>1
        <5>2. CASE r # s
          BY <4>4, <4>5, <5>2
        <5> QED
          BY <5>1, <5>2
      <4> QED
        BY <4>5, <4>6
    <3>2. CASE DispatchSendFails(s)
      BY <2>6, <3>2 DEF WorkerSend, DispatchSendFails
    <3> QED
      BY <2>6, <3>1, <3>2 DEF WorkerSend
  <2>7. CASE WorkerDone
    BY <2>7 DEF WorkerDone
  <2>8. CASE WorkerTimeout
    BY <2>8 DEF WorkerTimeout, DispatchDropped
  <2> QED
    BY <1>5, <2>1, <2>2, <2>3, <2>4, <2>5, <2>6, <2>7, <2>8 DEF Worker
<1>6. ASSUME NEW s \in Subs, HandlerTask(s) PROVE Goal
  <2>0. ASSUME \A r \in Subs : r # s => /\ chan'[r] = chan[r]
                                        /\ current'[r] = current[r]
                                        /\ handled'[r] = handled[r],
               Reached(s)' \subseteq Reached(s),
               Precedes(chan'[s], x, e),
               e = current'[s] \/ e \in Range(handled'[s]) => x \notin Range(chan'[s]),
               e \in Range(handled'[s]) => x # current'[s],
               Precedes(handled'[s], x, e),
               UNCHANGED <<queue, event, worker, pending>>
        PROVE  Goal
    <3>1. ASSUME NEW r \in Subs
          PROVE  /\ e \in Reached(r)' => x \notin Range(queue') /\ ~(x = event' /\ ToBeSent(r)')
                 /\ Precedes(chan'[r], x, e)
                 /\ e = current'[r] \/ e \in Range(handled'[r]) => x \notin Range(chan'[r])
                 /\ e \in Range(handled'[r]) => x # current'[r]
                 /\ Precedes(handled'[r], x, e)
      <4>1. CASE r = s
        BY <2>0, <4>1
      <4>2. CASE r # s
        BY <2>0, <4>2
      <4> QED
        BY <4>1, <4>2
    <3> QED
      BY <2>0, <3>1
  <2>1. CASE HandlerRecv(s) /\ UNCHANGED busVars
    <3>1. /\ Range(chan[s]) = {current'[s]} \cup Range(chan'[s]) /\ current'[s] \in Events
          /\ Precedes(chan'[s], x, e) /\ (current'[s] = e => x \notin Range(chan'[s]))
      <4>1. chan[s] \in Seq(Events) /\ chan[s] # <<>> /\ current'[s] = Head(chan[s])
            /\ chan'[s] = Tail(chan[s]) /\ Precedes(chan[s], x, e)
        BY <2>1 DEF HandlerRecv
      <4> QED
        BY <4>1, TailElements, TailPrecedes
    <3>2. \A r \in Subs : r # s => chan'[r] = chan[r] /\ current'[r] = current[r]
      BY <2>1 DEF HandlerRecv
    <3>3. UNCHANGED <<queue, event, worker, handled, pending>>
      BY <2>1 DEF HandlerRecv
    <3>4. Reached(s)' \subseteq Reached(s)
      BY <3>1, <3>3
    <3>5. /\ e = current'[s] \/ e \in Range(handled'[s]) => x \notin Range(chan'[s])
          /\ e \in Range(handled'[s]) => x # current'[s]
          /\ Precedes(handled'[s], x, e)
      BY <3>1, <3>3
    <3> QED
      BY <2>0, <3>1, <3>2, <3>3, <3>4, <3>5
  <2>2. CASE (HandlerDlqSend(s) \/ HandlerOk(s)) /\ UNCHANGED busVars
    <3>1. handled[s] \in Seq(Events) /\ current[s] \in Events /\ current'[s] = NoEvent
          /\ handled'[s] = Append(handled[s], current[s])
      BY <2>2 DEF HandlerDlqSend, HandlerOk, FinishEvent
    <3>2. /\ Range(handled'[s]) = Range(handled[s]) \cup {current[s]}
          /\ Precedes(handled'[s], x, e)
      <4>1. Precedes(handled[s], x, e) /\ (current[s] = x => e \notin Range(handled[s]))
        OBVIOUS
      <4> QED
        BY <3>1, <4>1, AppendElements, AppendPrecedes
    <3>3. \A r \in Subs : r # s => handled'[r] = handled[r] /\ current'[r] = current[r]
      BY <2>2 DEF HandlerDlqSend, HandlerOk, FinishEvent
    <3>4. UNCHANGED <<queue, event, worker, chan, pending>>
      BY <2>2 DEF HandlerDlqSend, HandlerOk
    <3>5. Reached(s)' \subseteq Reached(s)
      BY <3>1, <3>2, <3>4
    <3>6. /\ e = current'[s] \/ e \in Range(handled'[s]) => x \notin Range(chan'[s])
          /\ e \in Range(handled'[s]) => x # current'[s]
          /\ Precedes(chan'[s], x, e)
      BY <3>1, <3>2, <3>4
    <3> QED
      BY <2>0, <3>2, <3>3, <3>4, <3>5, <3>6
  <2>3. ASSUME ExitTask(s, "exited") \/ ExitTask(s, "panicked"),
               UNCHANGED <<queue, worker, event, pending, handled>>
        PROVE  Goal
    <3>1. chan'[s] = <<>> /\ current'[s] = NoEvent
      BY <2>3 DEF ExitTask
    <3>2. Range(chan'[s]) = {} /\ Precedes(chan'[s], x, e)
      BY <3>1 DEF Range, Precedes
    <3>3. \A r \in Subs : r # s => chan'[r] = chan[r] /\ current'[r] = current[r]
      BY <2>3 DEF ExitTask
    <3>4. Reached(s)' \subseteq Reached(s)
      BY <2>3, <3>1, <3>2
    <3> QED
      BY <2>0, <2>3, <3>1, <3>2, <3>3, <3>4
  <2>4. CASE (HandlerChannelClosed(s) \/ HandlerCancelled(s)) /\ UNCHANGED busVars
    BY <2>3, <2>4 DEF HandlerChannelClosed, HandlerCancelled
  <2>5. CASE HandlerIsAborted(s) \/ HandlerPanics(s)
    BY <2>3, <2>5 DEF HandlerIsAborted, HandlerAborted, HandlerPanics, HandlerPanic
  <2>6. CASE HandlerReturnsErr(s) \/ HandlerRetries(s)
    BY <2>6 DEF HandlerReturnsErr, HandlerErr, HandlerRetries, HandlerRetry
  <2> QED
    BY <1>6, <2>1, <2>2, <2>4, <2>5, <2>6 DEF HandlerTask, HandlerReturnsOk
<1> QED
  BY <1>1, <1>3, <1>4, <1>5, <1>6, StayInPlace DEF Next

\* When a publish call begins, its event is nowhere yet; no other step changes what an
\* event has to wait for.
LEMMA PriorStep ==
  ASSUME TypeOK, PlacesInv, Next, NEW e \in Events
  PROVE  \/ Before(e)' = Before(e)
         \/ /\ \A x \in Before(e)' : x # e /\ call'[x] = "ok"
            /\ e \notin Range(queue') /\ e # event' /\ UNCHANGED <<chan, handled, current>>
            /\ \A s \in Subs : e \notin Reached(s)'
<1> USE BusConstants DEF TypeOK, ManagerTypeOK, managerVars, busVars, Before
<1>1. CASE \E y \in Events : PublishCheck(y)
  <2>1. PICK y \in Events : PublishCheck(y)
    BY <1>1
  <2>2. CASE y = e
    <3>1. call[e] = "idle" /\ UNCHANGED places
      BY <2>1, <2>2 DEF PublishCheck, places
    <3>2. \A x \in Before(e)' : x # e /\ call'[x] = "ok"
      BY <2>1, <2>2 DEF PublishCheck
    <3>3. e \notin Range(queue) /\ e # event /\ \A s \in Subs : e \notin Reached(s)
      BY <3>1 DEF PlacesInv, OnlyAccepted
    <3> QED
      BY <3>1, <3>2, <3>3 DEF places, Reached
  <2>3. CASE y # e
    BY <2>1, <2>3 DEF PublishCheck
  <2> QED
    BY <2>2, <2>3
<1>2. CASE ~\E y \in Events : PublishCheck(y)
  <2>1. prior' = prior
    <3>1. ASSUME NEW y \in Events, PublishCall(y) \/ Sleeper(y) PROVE prior' = prior
      BY <3>1 DEF PublishCall, PublishLock, GrantRead, PublishRefused, PublishDelayed,
         PublishTrySend, PublishQueueFull, PublishBlocking, PublishSend, Sleeper, DelayElapsed,
         DelayLost
    <3>2. CASE Worker
      BY <3>2 DEF Worker, WorkerRecv, WorkerBreak, WorkerClosed, WorkerMatch, WorkerCollect,
         WorkerSend, WorkerDone, WorkerTimeout, DispatchFrame
    <3>3. ASSUME NEW s \in Subs, HandlerTask(s) PROVE prior' = prior
      BY <3>3 DEF HandlerTask, HandlerReturnsOk, HandlerReturnsErr, HandlerRetries,
         HandlerIsAborted, HandlerPanics
    <3> QED
      BY <1>2, <3>1, <3>2, <3>3, StayInPlace DEF Next
  <2> QED
    BY <2>1
<1> QED
  BY <1>1, <1>2

\* Only delayed events have a sleeper.
LEMMA SleepersStep ==
  ASSUME sleepers \subseteq Delayed, Next
  PROVE  sleepers' \subseteq Delayed
<1>1. ASSUME NEW y \in Events, PublishCheck(y) \/ PublishCall(y) \/ Sleeper(y)
      PROVE  sleepers' \subseteq Delayed
  BY <1>1 DEF PublishCheck, PublishCall, PublishLock, GrantRead, PublishRefused, PublishDelayed,
     PublishTrySend, PublishQueueFull, PublishBlocking, PublishSend, Sleeper, DelayElapsed, DelayLost
<1>2. CASE Worker
  BY <1>2 DEF Worker, WorkerRecv, WorkerBreak, WorkerClosed, WorkerMatch, WorkerCollect,
     WorkerSend, WorkerDone, WorkerTimeout, DispatchFrame
<1>3. ASSUME NEW s \in Subs, HandlerTask(s) PROVE sleepers' \subseteq Delayed
  BY <1>3 DEF HandlerTask, HandlerReturnsOk, HandlerReturnsErr, HandlerRetries,
     HandlerIsAborted, HandlerPanics, busVars
<1> QED
  BY <1>1, <1>2, <1>3, StayInPlace DEF Next, places

\* Order: when publish(x) had returned before publish(e) was called, no subscription
\* finishes e before x, through retries, timeouts, backpressure and shutdowns.
THEOREM EventsInOrder == Spec => []InOrder
<1>1. ASSUME Init PROVE OrderInv
  BY <1>1 DEF Init, OrderInv, Before
<1>2. ASSUME TypeOK, BusInv, PlacesInv, OrderInv, Next PROVE OrderInv'
  <2>1. sleepers' \subseteq Delayed
    BY <1>2, SleepersStep DEF OrderInv
  <2>2. ASSUME NEW e \in Events, NEW x \in Before(e)'
        PROVE  x # e /\ call'[x] = "ok" /\ NotOvertaken(e, x)'
    <3>1. CASE Before(e)' = Before(e)
      <4>1. x \in Events /\ x # e /\ call[x] = "ok" /\ {x, e} \cap Delayed = {} /\ NotOvertaken(e, x)
        BY <1>2, <3>1 DEF OrderInv, Before, TypeOK
      <4>2. call'[x] = "ok"
        BY <1>2, <4>1, OkStays
      <4>3. NotOvertaken(e, x)'
        BY <1>2, <4>1, OrderStep DEF OrderInv
      <4> QED
        BY <4>1, <4>2, <4>3
    <3>2. CASE /\ \A y \in Before(e)' : y # e /\ call'[y] = "ok"
               /\ e \notin Range(queue') /\ e # event' /\ UNCHANGED <<chan, handled, current>>
               /\ \A s \in Subs : e \notin Reached(s)'
      BY <3>2 DEF NotOvertaken, Reached, Precedes, Range
    <3> QED
      BY <1>2, <3>1, <3>2, PriorStep
  <2> QED
    BY <2>1, <2>2 DEF OrderInv
<1>3. ASSUME OrderInv, UNCHANGED vars PROVE OrderInv'
  BY <1>3 DEF vars, managerVars, busVars, OrderInv, Before, NotOvertaken, Reached, ToBeSent
<1>4. TypeOK /\ OrderInv => InOrder
  <2> SUFFICES ASSUME TypeOK, OrderInv, NEW s \in Subs, NEW i \in DOMAIN handled[s],
                      NEW j \in DOMAIN handled[s],
                      handled[s][i] \in prior[handled[s][j]],
                      {handled[s][i], handled[s][j]} \cap Delayed = {}
               PROVE  i < j
    BY DEF InOrder
  <2>1. handled[s][j] \in Events
    BY ElementOfSeq DEF TypeOK, ManagerTypeOK
  <2>2. Precedes(handled[s], handled[s][i], handled[s][j])
    BY <2>1 DEF OrderInv, Before, NotOvertaken
  <2> QED
    BY <2>2 DEF Precedes
<1> QED
  BY <1>1, <1>2, <1>3, <1>4, TypeCorrect, BusInvariant, PlacesInvariant, PTL DEF Spec
=============================================================================
