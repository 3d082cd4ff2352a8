------------------------------ MODULE EventBus ------------------------------
(***************************************************************************)
(* The in-memory event bus: publish and try_publish, the RwLock around the *)
(* dispatcher, the ChannelDispatcher with its bounded queue, delayed sends *)
(* and worker, and the two ways to shut the bus down, composed with the    *)
(* subscription manager (SubscriptionManager.tla).                         *)
(*                                                                         *)
(* Every event is published by one call, so an event names its publisher   *)
(* too. Each member of Callers makes one call of shutdown_gracefully        *)
(* (GracefulCallers) or of shutdown (the others).                          *)
(***************************************************************************)
EXTENDS SubscriptionManager

CONSTANTS
  Callers,         \* calls of shutdown_gracefully or shutdown
  GracefulCallers, \* the ones that call shutdown_gracefully
  Tries,           \* events published with try_publish
  Delayed,         \* events published with a deliver_at in the future
  Watched,         \* events whose order is recorded in the history
  Cascade,         \* Cascade[s]: event the handler of s publishes, or NoEvent
  MaxQueueSize,    \* DispatcherConfig.max_queue_size
  DropOnFull,      \* DispatcherConfig.drop_on_full
  DispatchTimeout  \* DispatcherConfig.processing_timeout_ms > 0

ASSUME BusConstants ==
  /\ GracefulCallers \subseteq Callers
  /\ Callers \cap Events = {}
  /\ Tries \subseteq Events
  /\ Delayed \subseteq Events
  /\ Watched \subseteq Events
  /\ Cascade \in [Subs -> Events \cup {NoEvent}]
  /\ \A s, t \in Subs : Cascade[s] = Cascade[t] => s = t \/ Cascade[s] = NoEvent
  /\ MaxQueueSize \in Nat \ {0}
  /\ DropOnFull \in BOOLEAN
  /\ DispatchTimeout \in BOOLEAN

VARIABLES
  shutdown_state,  \* EventBus.shutdown_state
  dispatcher,      \* TRUE iff the RwLock holds Some(dispatcher), with its sender
  is_running,      \* ChannelDispatcher.is_running
  queue,           \* the dispatcher's channel
  sleepers,        \* delayed events whose task sleeps with a clone of the sender
  worker,          \* state of process_events
  event,           \* the event the worker dispatches
  dispatch_errors, \* events counted in dispatch_errors
  call,            \* state of the publish call of each event
  pc,              \* state of each shutdown call
  ahead,           \* who is ahead of a waiter in the queue of the RwLock
  hook_owner,      \* shutdown calls that hold the lock on shutdown_hooks
  ids,             \* shutdown_gracefully: ids still to be removed
  handles,         \* shutdown_gracefully: tasks it will wait for
  audience,        \* history: subscriptions in place when the publish was called
  prior            \* history: watched events whose publish had returned Ok by then

busVars == <<shutdown_state, dispatcher, is_running, queue, sleepers, worker,
             event, dispatch_errors, call, pc, ahead, hook_owner, ids,
             handles, audience, prior>>

vars == <<managerVars, busVars>>

CallState == {"idle", "checked", "waiting", "locked", "sending", "ok", "err",
              "dropped"}

InProgress == {"checked", "waiting", "locked", "sending"}

CallerState == {"idle", "hooks", "inhooks", "hooked", "waiting", "locked",
                "draining", "stopping", "manager", "removing", "awaiting",
                "aborted", "done"}

WorkerState == {"recv", "match", "collect", "send", "exited"}

Clients == Events \cup Callers

\* Who waits for the RwLock, who reads under it and who writes under it.
Waiting == {e \in Events : call[e] = "waiting"} \cup {c \in Callers : pc[c] = "waiting"}
Readers == {e \in Events : call[e] \in {"locked", "sending"}}
Writers == {c \in Callers : pc[c] \in {"locked", "draining", "stopping"}}

\* tokio's RwLock is fair: its waiters form a FIFO queue.
Enqueue(x) == ahead' = [ahead EXCEPT ![x] = Waiting]
Dequeue(x) == ahead' = [y \in Clients |-> IF y = x THEN {} ELSE ahead[y] \ {x}]

Init ==
  /\ ManagerInit
  /\ shutdown_state = "Running"
  /\ dispatcher = TRUE
  /\ is_running = TRUE
  /\ queue = <<>>
  /\ sleepers = {}
  /\ worker = "recv"
  /\ event = NoEvent
  /\ dispatch_errors = {}
  /\ call = [e \in Events |-> "idle"]
  /\ pc = [c \in Callers |-> "idle"]
  /\ ahead = [x \in Clients |-> {}]
  /\ hook_owner = {}
  /\ ids = [c \in Callers |-> {}]
  /\ handles = [c \in Callers |-> {}]
  /\ audience = [e \in Events |-> {}]
  /\ prior = [e \in Events |-> {}]

-----------------------------------------------------------------------------
(* publish_with_metadata and try_publish_with_metadata                     *)

\* A responder publishes from inside its handler, everybody else at any time.
Invocable(e) ==
  \A s \in Subs : Cascade[s] = e => task[s] = "handling"

\* The first load of shutdown_state.
PublishCheck(e) ==
  /\ call[e] = "idle"
  /\ Invocable(e)
  /\ call' = [call EXCEPT ![e] = IF shutdown_state = "Running" THEN "checked" ELSE "err"]
  /\ audience' = [audience EXCEPT ![e] = {s \in Subs : client[s] = "active"}]
  /\ prior' = [prior EXCEPT ![e] = {x \in Watched : e \in Watched /\ call[x] = "ok"}]
  /\ UNCHANGED <<managerVars, shutdown_state, dispatcher, is_running, queue,
                 sleepers, worker, event, dispatch_errors, pc, ahead, hook_owner,
                 ids, handles>>

\* dispatcher.read().await
PublishLock(e) ==
  /\ call[e] = "checked"
  /\ call' = [call EXCEPT ![e] = "waiting"]
  /\ Enqueue(e)
  /\ UNCHANGED <<managerVars, shutdown_state, dispatcher, is_running, queue,
                 sleepers, worker, event, dispatch_errors, pc, hook_owner,
                 ids, handles, audience, prior>>

GrantRead(e) ==
  /\ call[e] = "waiting"
  /\ ahead[e] = {}
  /\ Writers = {}
  /\ call' = [call EXCEPT ![e] = "locked"]
  /\ Dequeue(e)
  /\ UNCHANGED <<managerVars, shutdown_state, dispatcher, is_running, queue,
                 sleepers, worker, event, dispatch_errors, pc, hook_owner,
                 ids, handles, audience, prior>>

\* Mutant of Admitted: the checks made before the lock are taken to be enough.
Admitted_Unchecked == TRUE

\* The checks under the lock: Some(dispatcher), the second load of
\* shutdown_state, the dispatcher's own is_running.
Admitted == dispatcher /\ shutdown_state = "Running" /\ is_running

\* The call returns and drops its read guard.
Return(e, result) == call' = [call EXCEPT ![e] = result]

PublishRefused(e) ==
  /\ call[e] = "locked"
  /\ ~Admitted \/ e \in Tries \cap Delayed
  /\ Return(e, "err")
  /\ UNCHANGED <<managerVars, shutdown_state, dispatcher, is_running, queue,
                 sleepers, worker, event, dispatch_errors, pc, ahead, hook_owner,
                 ids, handles, audience, prior>>

\* deliver_at is in the future: a task sleeps and sends later, the call is done.
PublishDelayed(e) ==
  /\ call[e] = "locked"
  /\ Admitted
  /\ e \in Delayed \ Tries
  /\ sleepers' = sleepers \cup {e}
  /\ Return(e, "ok")
  /\ UNCHANGED <<managerVars, shutdown_state, dispatcher, is_running, queue, worker,
                 event, dispatch_errors, pc, ahead, hook_owner, ids,
                 handles, audience, prior>>

\* try_send, for try_publish and for publish with drop_on_full, when the queue has
\* room.
PublishTrySend(e) ==
  /\ call[e] = "locked"
  /\ Admitted
  /\ e \in Tries \/ DropOnFull
  /\ e \notin Delayed
  /\ Len(queue) < MaxQueueSize
  /\ queue' = Append(queue, e)
  /\ Return(e, "ok")
  /\ UNCHANGED <<managerVars, shutdown_state, dispatcher, is_running, sleepers,
                 worker, event, dispatch_errors, pc, ahead, hook_owner, ids, handles, audience, prior>>

\* Mutant of PublishQueueFull: an event dropped on a full queue is not counted.
PublishQueueFull_Uncounted(e) ==
  /\ call[e] = "locked"
  /\ Admitted
  /\ e \in Tries \/ DropOnFull
  /\ e \notin Delayed
  /\ Len(queue) >= MaxQueueSize
  /\ Return(e, IF e \in Tries THEN "err" ELSE "ok")
  /\ UNCHANGED <<managerVars, shutdown_state, dispatcher, is_running, queue, sleepers,
                 worker, event, dispatch_errors, pc, ahead, hook_owner, ids, handles, audience, prior>>

\* try_send on a full queue: try_publish returns Backpressure, publish with
\* drop_on_full drops the event and says Ok.
PublishQueueFull(e) ==
  /\ call[e] = "locked"
  /\ Admitted
  /\ e \in Tries \/ DropOnFull
  /\ e \notin Delayed
  /\ Len(queue) >= MaxQueueSize
  /\ dispatch_errors' = dispatch_errors \cup {e}
  /\ Return(e, IF e \in Tries THEN "err" ELSE "ok")
  /\ UNCHANGED <<managerVars, shutdown_state, dispatcher, is_running, queue, sleepers,
                 worker, event, pc, ahead, hook_owner, ids, handles,
                 audience, prior>>

\* sender.send(..).await begins, with the read guard held...
PublishBlocking(e) ==
  /\ call[e] = "locked"
  /\ Admitted
  /\ e \notin Tries \cup Delayed
  /\ ~DropOnFull
  /\ call' = [call EXCEPT ![e] = "sending"]
  /\ UNCHANGED <<managerVars, shutdown_state, dispatcher, is_running, queue,
                 sleepers, worker, event, dispatch_errors, pc, ahead, hook_owner,
                 ids, handles, audience, prior>>

\* ... and completes when the queue has room.
PublishSend(e) ==
  /\ call[e] = "sending"
  /\ worker # "exited"
  /\ Len(queue) < MaxQueueSize
  /\ queue' = Append(queue, e)
  /\ Return(e, "ok")
  /\ UNCHANGED <<managerVars, shutdown_state, dispatcher, is_running, sleepers,
                 worker, event, dispatch_errors, pc, ahead, hook_owner, ids, handles, audience, prior>>

\* The sleeper of a delayed event wakes up and sends...
DelayElapsed(e) ==
  /\ e \in sleepers
  /\ worker # "exited"
  /\ Len(queue) < MaxQueueSize
  /\ queue' = Append(queue, e)
  /\ sleepers' = sleepers \ {e}
  /\ UNCHANGED <<managerVars, shutdown_state, dispatcher, is_running, worker, event,
                 dispatch_errors, call, pc, ahead, hook_owner, ids,
                 handles, audience, prior>>

\* ... but when the worker is gone the send fails and the error is ignored.
DelayLost(e) ==
  /\ e \in sleepers
  /\ worker = "exited"
  /\ sleepers' = sleepers \ {e}
  /\ UNCHANGED <<managerVars, shutdown_state, dispatcher, is_running, queue, worker,
                 event, dispatch_errors, call, pc, ahead, hook_owner, ids,
                 handles, audience, prior>>

-----------------------------------------------------------------------------
(* process_events, the worker of the ChannelDispatcher                     *)

\* An event is received while the dispatcher runs.
WorkerRecv ==
  /\ worker = "recv"
  /\ queue # <<>>
  /\ is_running
  /\ worker' = "match"
  /\ event' = Head(queue)
  /\ queue' = Tail(queue)
  /\ UNCHANGED <<managerVars, shutdown_state, dispatcher, is_running, sleepers,
                 dispatch_errors, call, pc, ahead, hook_owner, ids,
                 handles, audience, prior>>

\* An event is received and is_running is false: the worker breaks out of its loop
\* and drops this event and the rest of the queue.
WorkerBreak ==
  /\ worker = "recv"
  /\ queue # <<>>
  /\ ~is_running
  /\ worker' = "exited"
  /\ queue' = <<>>
  /\ UNCHANGED <<managerVars, shutdown_state, dispatcher, is_running, sleepers, event,
                 dispatch_errors, call, pc, ahead, hook_owner, ids,
                 handles, audience, prior>>

\* Mutant of WorkerClosed: the senders of the sleepers do not keep the queue open.
WorkerClosed_SleepersIgnored ==
  /\ worker = "recv"
  /\ queue = <<>>
  /\ ~dispatcher
  /\ worker' = "exited"
  /\ UNCHANGED <<managerVars, shutdown_state, dispatcher, is_running, queue,
                 sleepers, event, dispatch_errors, call, pc, ahead, hook_owner,
                 ids, handles, audience, prior>>

\* recv() returns None once the queue is empty and every sender is dropped: the
\* dispatcher's own and the clones of the sleepers.
WorkerClosed ==
  /\ worker = "recv"
  /\ queue = <<>>
  /\ ~dispatcher
  /\ sleepers = {}
  /\ worker' = "exited"
  /\ UNCHANGED <<managerVars, shutdown_state, dispatcher, is_running, queue,
                 sleepers, event, dispatch_errors, call, pc, ahead, hook_owner,
                 ids, handles, audience, prior>>

\* What the steps of SubscriptionManager::dispatch leave alone in the bus.
DispatchFrame == UNCHANGED <<shutdown_state, dispatcher, is_running, queue, sleepers,
                   call, pc, ahead, hook_owner, ids, handles, audience, prior>>

WorkerMatch ==
  /\ worker = "match"
  /\ DispatchMatch(event)
  /\ worker' = "collect"
  /\ DispatchFrame
  /\ UNCHANGED <<event, dispatch_errors>>

\* The filters of the subscriptions run here, in the worker's task. They are taken to return:
\* one that panics would end the worker of a bus that goes on.
WorkerCollect ==
  /\ worker = "collect"
  /\ DispatchCollect
  /\ worker' = "send"
  /\ DispatchFrame
  /\ UNCHANGED <<event, dispatch_errors>>

WorkerSend(s) ==
  /\ worker = "send"
  /\ DispatchSend(s, event) \/ DispatchSendFails(s)
  /\ DispatchFrame
  /\ UNCHANGED <<worker, event, dispatch_errors>>

\* join_all is complete: dispatch returned Ok, the worker receives again.
WorkerDone ==
  /\ worker = "send"
  /\ pending = {}
  /\ worker' = "recv"
  /\ event' = NoEvent
  /\ DispatchFrame
  /\ UNCHANGED <<managerVars, dispatch_errors>>

\* Mutant of WorkerTimeout: the worker dispatches the event again.
WorkerTimeout_Retries ==
  /\ DispatchTimeout
  /\ worker = "send"
  /\ DispatchDropped
  /\ worker' = "match"
  /\ DispatchFrame
  /\ UNCHANGED <<event, dispatch_errors>>

\* Mutant of WorkerTimeout: the event goes to the end of the queue, for later.
WorkerTimeout_Requeues ==
  /\ DispatchTimeout
  /\ worker = "send"
  /\ DispatchDropped
  /\ worker' = "recv"
  /\ event' = NoEvent
  /\ queue' = Append(queue, event)
  /\ UNCHANGED <<shutdown_state, dispatcher, is_running, sleepers, dispatch_errors,
                 call, pc, ahead, hook_owner, ids, handles, audience, prior>>

\* The timeout around dispatch fires while a send waits for room.
WorkerTimeout ==
  /\ DispatchTimeout
  /\ worker = "send"
  /\ DispatchDropped
  /\ dispatch_errors' = dispatch_errors \cup {event}
  /\ worker' = "recv"
  /\ event' = NoEvent
  /\ DispatchFrame

-----------------------------------------------------------------------------
(* shutdown_gracefully and shutdown                                        *)

ShutdownBegin(c) ==
  /\ pc[c] = "idle"
  /\ pc' = [pc EXCEPT ![c] = "hooks"]
  /\ shutdown_state' = "Draining"
  /\ UNCHANGED <<managerVars, dispatcher, is_running, queue, sleepers, worker, event,
                 dispatch_errors, call, ahead, hook_owner, ids, handles,
                 audience, prior>>

\* shutdown_hooks.lock().await
HooksLock(c) ==
  /\ pc[c] = "hooks"
  /\ hook_owner = {}
  /\ pc' = [pc EXCEPT ![c] = "inhooks"]
  /\ hook_owner' = {c}
  /\ UNCHANGED <<managerVars, shutdown_state, dispatcher, is_running, queue, sleepers,
                 worker, event, dispatch_errors, call, ahead, ids, handles,
                 audience, prior>>

\* Every hook ran, one after the other, and the lock is released.
HooksDone(c) ==
  /\ pc[c] = "inhooks"
  /\ pc' = [pc EXCEPT ![c] = "hooked"]
  /\ hook_owner' = {}
  /\ UNCHANGED <<managerVars, shutdown_state, dispatcher, is_running, queue, sleepers,
                 worker, event, dispatch_errors, call, ahead, ids, handles, audience,
                 prior>>

\* dispatcher.write().await
ShutdownLock(c) ==
  /\ pc[c] = "hooked"
  /\ pc' = [pc EXCEPT ![c] = "waiting"]
  /\ Enqueue(c)
  /\ UNCHANGED <<managerVars, shutdown_state, dispatcher, is_running, queue, sleepers,
                 worker, event, dispatch_errors, call, hook_owner, ids,
                 handles, audience, prior>>

WriteGrantable(c) == ahead[c] = {} /\ Writers = {} /\ Readers = {}

\* Mutant of GrantWrite: the lock is given to a writer while it is read.
GrantWrite_Shared(c) ==
  /\ pc[c] = "waiting"
  /\ ahead[c] = {}
  /\ Writers = {}
  /\ pc' = [pc EXCEPT ![c] = "locked"]
  /\ Dequeue(c)
  /\ UNCHANGED <<managerVars, shutdown_state, dispatcher, is_running, queue, sleepers,
                 worker, event, dispatch_errors, call, hook_owner, ids,
                 handles, audience, prior>>

GrantWrite(c) ==
  /\ pc[c] = "waiting"
  /\ WriteGrantable(c)
  /\ pc' = [pc EXCEPT ![c] = "locked"]
  /\ Dequeue(c)
  /\ UNCHANGED <<managerVars, shutdown_state, dispatcher, is_running, queue, sleepers,
                 worker, event, dispatch_errors, call, hook_owner, ids,
                 handles, audience, prior>>

\* Mutant of TakeDispatcher: the graceful path clears is_running before the drain.
TakeDispatcher_StopsEarly(c) ==
  /\ pc[c] = "locked"
  /\ pc' = [pc EXCEPT ![c] = IF ~dispatcher THEN "manager"
                             ELSE IF c \in GracefulCallers THEN "draining" ELSE "stopping"]
  /\ dispatcher' = FALSE
  /\ is_running' = FALSE
  /\ UNCHANGED <<managerVars, shutdown_state, queue, sleepers, worker, event,
                 dispatch_errors, call, ahead, hook_owner, ids, handles,
                 audience, prior>>

\* guard.take(). The graceful path closes the queue and waits for the worker; the
\* abrupt path clears is_running as well. None: there is nothing left to do here.
TakeDispatcher(c) ==
  /\ pc[c] = "locked"
  /\ pc' = [pc EXCEPT ![c] = IF ~dispatcher THEN "manager"
                             ELSE IF c \in GracefulCallers THEN "draining" ELSE "stopping"]
  /\ dispatcher' = FALSE
  /\ is_running' = (is_running /\ (dispatcher => c \in GracefulCallers))
  /\ UNCHANGED <<managerVars, shutdown_state, queue, sleepers, worker, event,
                 dispatch_errors, call, ahead, hook_owner, ids, handles,
                 audience, prior>>

\* The worker ended; is_running is cleared and the write guard dropped.
WorkerJoined(c) ==
  /\ pc[c] \in {"draining", "stopping"}
  /\ worker = "exited"
  /\ pc' = [pc EXCEPT ![c] = "manager"]
  /\ is_running' = FALSE
  /\ UNCHANGED <<managerVars, shutdown_state, dispatcher, queue, sleepers, worker, event,
                 dispatch_errors, call, ahead, hook_owner, ids, handles,
                 audience, prior>>

\* Mutant of AbruptTimeout: the wait begins anew when the time is over.
AbruptTimeout_WaitsAgain(c) ==
  /\ c \notin GracefulCallers
  /\ \/ pc[c] = "waiting" /\ ~WriteGrantable(c)
     \/ pc[c] = "stopping" /\ worker # "exited"
  /\ UNCHANGED vars

\* shutdown only: shutdown_timeout (or the five seconds of stop) ran out while it
\* waited for the lock or for the worker. (A timeout polls its future first, so it
\* does not fire when the wait is over.)
AbruptTimeout(c) ==
  /\ c \notin GracefulCallers
  /\ \/ pc[c] = "waiting" /\ ~WriteGrantable(c)
     \/ pc[c] = "stopping" /\ worker # "exited"
  /\ pc' = [pc EXCEPT ![c] = "manager"]
  /\ Dequeue(c)
  /\ UNCHANGED <<managerVars, shutdown_state, dispatcher, is_running, queue, sleepers,
                 worker, event, dispatch_errors, call, hook_owner, ids,
                 handles, audience, prior>>

\* What the manager's part of a shutdown leaves alone in the bus.
ManagerFrame == UNCHANGED <<dispatcher, is_running, queue, sleepers, worker, event,
                  dispatch_errors, call, ahead, hook_owner, audience, prior>>

\* shutdown_gracefully of the manager takes a snapshot of the ids...
DrainBegin(c) ==
  /\ c \in GracefulCallers
  /\ pc[c] = "manager"
  /\ pc' = [pc EXCEPT ![c] = "removing"]
  /\ ids' = [ids EXCEPT ![c] = subscriptions]
  /\ ManagerFrame
  /\ UNCHANGED <<managerVars, shutdown_state, handles>>

\* ... removes them one by one, keeping the handles of those it removed itself...
DrainStep(c, id) ==
  /\ pc[c] = "removing"
  /\ id \in ids[c]
  /\ DrainRemove(id)
  /\ ids' = [ids EXCEPT ![c] = @ \ {id}]
  /\ handles' = [handles EXCEPT ![c] = IF id \in subscriptions THEN @ \cup {id} ELSE @]
  /\ ManagerFrame
  /\ UNCHANGED <<shutdown_state, pc>>

DrainAwait(c) ==
  /\ pc[c] = "removing"
  /\ ids[c] = {}
  /\ pc' = [pc EXCEPT ![c] = "awaiting"]
  /\ ManagerFrame
  /\ UNCHANGED <<managerVars, shutdown_state, ids, handles>>

\* Mutant of DrainDone: the handles are collected but not awaited.
DrainDone_NoJoin(c) ==
  /\ pc[c] = "awaiting"
  /\ pc' = [pc EXCEPT ![c] = "done"]
  /\ shutdown_state' = "Stopped"
  /\ handles' = [handles EXCEPT ![c] = {}]
  /\ ManagerFrame
  /\ UNCHANGED <<managerVars, ids>>

\* ... and waits until those tasks have ended. The bus is stopped.
DrainDone(c) ==
  /\ pc[c] = "awaiting"
  /\ \A s \in handles[c] : ~Live(s)
  /\ pc' = [pc EXCEPT ![c] = "done"]
  /\ shutdown_state' = "Stopped"
  /\ handles' = [handles EXCEPT ![c] = {}]
  /\ ManagerFrame
  /\ UNCHANGED <<managerVars, ids>>

ShutdownAbort(c) ==
  /\ c \notin GracefulCallers
  /\ pc[c] = "manager"
  /\ pc' = [pc EXCEPT ![c] = "aborted"]
  /\ AbortAll
  /\ ManagerFrame
  /\ UNCHANGED <<shutdown_state, ids, handles>>

ShutdownClear(c) ==
  /\ pc[c] = "aborted"
  /\ pc' = [pc EXCEPT ![c] = "done"]
  /\ ClearSubscriptions
  /\ shutdown_state' = "Stopped"
  /\ ManagerFrame
  /\ UNCHANGED <<ids, handles>>

-----------------------------------------------------------------------------
(* Steps of the subscription manager inside the bus                        *)

\* EventBus::subscribe checks the state, once, before the manager subscribes.
SubscribeCheck(s) ==
  /\ client[s] = "new"
  /\ client' = [client EXCEPT ![s] = IF shutdown_state = "Running" THEN "checked" ELSE "refused"]
  /\ UNCHANGED <<subscriptions, registered, chan, task, current, attempt, cancel, abort,
                 unsub, dlq, matched, pending, handled, busVars>>

ClientStep(s) ==
  \/ SubscribeCheck(s)
  \/ (SubscribeInsert(s) \/ SubscribeRegister(s)) /\ UNCHANGED busVars
  \/ (HandleUnsubscribe(s) \/ UnsubscribeUnregister(s) \/ UnsubscribeRemove(s)) /\ UNCHANGED busVars

\* What ResponderHandler::handle may return: Ok only after its own publish
\* returned Ok, Err only before it began or after it failed. (It responds once; a
\* later request has no reply_to, which earns a warning and Ok.)
MayReturn(s, results) == Cascade[s] # NoEvent => call[Cascade[s]] \in results

HandlerReturnsOk(s) ==
  /\ MayReturn(s, {"ok"})
  /\ HandlerOk(s)
  /\ UNCHANGED busVars

HandlerReturnsErr(s) ==
  /\ MayReturn(s, {"idle", "err"})
  /\ HandlerErr(s)
  /\ UNCHANGED busVars

\* A retried responder publishes its response afresh.
HandlerRetries(s) ==
  /\ HandlerRetry(s)
  /\ call' = [e \in Events |-> IF e = Cascade[s] /\ call[e] = "err" THEN "idle" ELSE call[e]]
  /\ UNCHANGED <<shutdown_state, dispatcher, is_running, queue, sleepers, worker, event,
                 dispatch_errors, pc, ahead, hook_owner, ids, handles,
                 audience, prior>>

\* An aborted handler drops the publish it is in the middle of, and with it its
\* place in the queue of the RwLock or its read guard.
HandlerIsAborted(s) ==
  /\ HandlerAborted(s)
  /\ call' = [e \in Events |->
                IF e = Cascade[s] /\ call[e] \in InProgress THEN "dropped" ELSE call[e]]
  /\ Dequeue(Cascade[s])
  /\ UNCHANGED <<shutdown_state, dispatcher, is_running, queue, sleepers, worker, event,
                 dispatch_errors, pc, hook_owner, ids, handles, audience, prior>>

HandlerPanics(s) ==
  /\ MayReturn(s, {"idle", "ok", "err"})
  /\ HandlerPanic(s)
  /\ UNCHANGED busVars

HandlerTask(s) ==
  \/ (HandlerRecv(s) \/ HandlerDlqSend(s)) /\ UNCHANGED busVars
  \/ (HandlerChannelClosed(s) \/ HandlerCancelled(s)) /\ UNCHANGED busVars
  \/ HandlerReturnsOk(s)
  \/ HandlerReturnsErr(s)
  \/ HandlerRetries(s)
  \/ HandlerIsAborted(s)
  \/ HandlerPanics(s)

Cleaner == CleanerStep /\ UNCHANGED busVars

DlqConsumer == DlqConsume /\ UNCHANGED busVars

PublishCall(e) ==
  \/ PublishLock(e)
  \/ GrantRead(e)
  \/ PublishRefused(e)
  \/ PublishDelayed(e)
  \/ PublishTrySend(e)
  \/ PublishQueueFull(e)
  \/ PublishBlocking(e)
  \/ PublishSend(e)

Sleeper(e) == DelayElapsed(e) \/ DelayLost(e)

Worker ==
  \/ WorkerRecv
  \/ WorkerBreak
  \/ WorkerClosed
  \/ WorkerMatch
  \/ WorkerCollect
  \/ \E s \in Subs : WorkerSend(s)
  \/ WorkerDone
  \/ WorkerTimeout

ShutdownCall(c) ==
  \/ HooksLock(c)
  \/ HooksDone(c)
  \/ ShutdownLock(c)
  \/ GrantWrite(c)
  \/ TakeDispatcher(c)
  \/ WorkerJoined(c)
  \/ AbruptTimeout(c)
  \/ DrainBegin(c)
  \/ \E id \in Subs : DrainStep(c, id)
  \/ DrainAwait(c)
  \/ DrainDone(c)
  \/ ShutdownAbort(c)
  \/ ShutdownClear(c)

\* Nothing is left to do: every call returned, every accepted event went through
\* the worker and every handler task has ended or waits for events that nobody has
\* sent. A state without successors that is not at rest is a deadlock.
AtRest ==
  /\ \A e \in Events : call[e] \in {"ok", "err", "dropped"} \/ ~Invocable(e)
  /\ \A c \in Callers : pc[c] = "done"
  /\ worker = "exited" \/ (worker = "recv" /\ queue = <<>> /\ dispatcher)
  /\ \A s \in Subs : Live(s) => task[s] = "idle" /\ chan[s] = <<>>

Rest == AtRest /\ UNCHANGED vars

Next ==
  \/ \E e \in Events : PublishCheck(e) \/ PublishCall(e) \/ Sleeper(e)
  \/ Worker
  \/ \E c \in Callers : ShutdownBegin(c) \/ ShutdownCall(c)
  \/ \E s \in Subs : ClientStep(s) \/ HandlerTask(s)
  \/ Cleaner
  \/ DlqConsumer
  \/ Rest

Spec == Init /\ [][Next]_vars

\* Every task of the bus that can run is polled again by the runtime, timers
\* fire, a call that was begun is awaited to its end, and handlers return.
\* Nobody has to publish, to subscribe or unsubscribe, or to shut down.
Fairness ==
  /\ \A e \in Events : WF_vars(PublishCall(e)) /\ WF_vars(Sleeper(e))
  /\ WF_vars(Worker)
  /\ \A c \in Callers : WF_vars(ShutdownCall(c))
  /\ \A s \in Subs : WF_vars(HandlerTask(s))
  /\ WF_vars(Cleaner)
  /\ WF_vars(DlqConsumer)

FairSpec == Spec /\ Fairness

-----------------------------------------------------------------------------
(* Properties                                                              *)

\* Type invariant of the bus and of its subscription manager.
TypeOK ==
  /\ ManagerTypeOK
  /\ shutdown_state \in {"Running", "Draining", "Stopped"}
  /\ dispatcher \in BOOLEAN
  /\ is_running \in BOOLEAN
  /\ queue \in Seq(Events)
  /\ sleepers \in SUBSET Events
  /\ worker \in WorkerState
  /\ event \in Events \cup {NoEvent}
  /\ worker \in {"match", "collect", "send"} => event \in Events
  /\ dispatch_errors \in SUBSET Events
  /\ call \in [Events -> CallState]
  /\ pc \in [Callers -> CallerState]
  /\ ahead \in [Clients -> SUBSET Clients]
  /\ hook_owner \in SUBSET Callers
  /\ ids \in [Callers -> SUBSET Subs]
  /\ handles \in [Callers -> SUBSET Subs]
  /\ audience \in [Events -> SUBSET Subs]
  /\ prior \in [Events -> SUBSET Events]

\* shutdown() has begun to stop the dispatcher or to abort the handlers.
Halted ==
  \E c \in Callers \ GracefulCallers : pc[c] \in {"stopping", "manager", "aborted", "done"}

\* The documented reasons for which s need not get an accepted event e: its owner
\* gave the subscription up, its task was aborted or panicked, the dispatch of e
\* was counted in dispatch_errors (a full queue with drop_on_full, or the
\* processing timeout), or the bus was shut down abruptly.
Excused(e, s) ==
  \/ client[s] # "active"
  \/ abort[s]
  \/ task[s] = "panicked"
  \/ e \in dispatch_errors
  \/ Halted

\* Where an accepted event is on its way to the handler of s.
OnItsWay(e, s) ==
  \/ e \in sleepers
  \/ e \in Range(queue)
  \/ e = event /\ \/ worker = "match"
                  \/ worker = "collect" /\ s \in matched
                  \/ worker = "send" /\ s \in pending
  \/ e \in Range(chan[s])
  \/ e = current[s]

\* No accepted event is lost silently: once publish has returned Ok
\* (publish_with_metadata), every matching subscription that was in place when the
\* call began has handled the event or the event is still on its way to it, through
\* every interleaving with a graceful shutdown, unless there is a reason on record.
Accounted ==
  \A e \in Events : call[e] = "ok" =>
    \A s \in audience[e] \cap Matches[e] :
      Excused(e, s) \/ OnItsWay(e, s) \/ e \in Range(handled[s])

\* The error "Event channel closed" of ChannelDispatcher::dispatch and try_dispatch
\* is unreachable from the bus: a publish that passed the checks under the read
\* guard always finds the worker alive, however it races a shutdown.
ReceiverOutlivesSenders ==
  \A e \in Events :
    call[e] = "sending" \/ (call[e] = "locked" /\ Admitted) => worker # "exited"

\* Order: when publish(x) had returned before publish(e) was called, no subscription
\* finishes e before x (single worker, FIFO channels, one task per subscription), as
\* the ordered() preset promises, for the watched events. Delayed events choose
\* their own time.
InOrder ==
  \A s \in Subs : \A i, j \in DOMAIN handled[s] :
    LET x == handled[s][i]
        e == handled[s][j]
    IN  x \in prior[e] /\ {x, e} \cap Delayed = {} => i < j

\* shutdown_gracefully returned Ok, and no shutdown() cut in: the worker has ended, no
\* handler task that existed when the bus was started still runs unless its owner had it
\* aborted, and a task that a subscribe in progress inserted later (it had passed its only
\* check) has no event and never gets one.
TerminatedOnReturn ==
  ~Halted => \A c \in GracefulCallers : pc[c] = "done" =>
    /\ worker = "exited"
    /\ \A s \in EarlySubs : ~Live(s) \/ abort[s]
    /\ \A s \in Subs : Live(s) /\ ~abort[s] => chan[s] = <<>> /\ current[s] = NoEvent

\* And then every accepted event was handled: the drain of shutdown_gracefully
\* leaves nothing behind in the queue, in a sleeper or in a handler channel.
DrainedOnReturn ==
  \A c \in GracefulCallers : pc[c] = "done" =>
    \A e \in Events : call[e] = "ok" =>
      \A s \in audience[e] \cap Matches[e] : Excused(e, s) \/ e \in Range(handled[s])

Contract == INSTANCE BusContract WITH
  Concerns <- Matches,
  accepted <- {e \in Events : call[e] = "ok"},
  finished <- handled,
  stopped <- \E c \in GracefulCallers : pc[c] = "done"

\* The bus implements its contract: through lock, queue, worker, handler channels, retries
\* and timeouts, a subscription finishes an accepted event it is interested in once at
\* most, nothing that was not accepted, and a publish still in progress when a
\* shutdown_gracefully returns is not accepted any more.
ImplementsContract == Contract!Spec

\* A shutdown call always returns: the backpressure cycle publisher -> queue ->
\* worker -> handler channel -> handler -> publish cannot hold it up forever.
ShutdownReturns ==
  \A c \in Callers : pc[c] = "hooks" ~> pc[c] = "done"

\* The publish calls under way all return, although the same cycle passes through them, when
\* the dispatch timeout is set.
PublishReturns ==
  (\E e \in Events : call[e] \in InProgress) ~> (\A e \in Events : call[e] \notin InProgress)

\* Without a dispatch timeout the same cycle holds a publish up as long as the bus runs. Once
\* somebody calls shutdown(), which gives up on the lock that publish holds and aborts the
\* handlers, every publish under way returns.
FreedByShutdown ==
  \A c \in Callers \ GracefulCallers :
    pc[c] # "idle" ~> \A e \in Events : call[e] \notin InProgress

\* An accepted event is handled eventually by every matching subscription that
\* was in place, unless there is a reason on record why it is not.
Delivered ==
  \A e \in Events : \A s \in Matches[e] :
    call[e] = "ok" /\ s \in audience[e] ~> Excused(e, s) \/ e \in Range(handled[s])
-----------------------------------------------------------------------------
(* The inductive invariant behind Accounted and ReceiverOutlivesSenders     *)

\* The RwLock excludes: one writer at most, and no reader beside it.
LockExcludes ==
  /\ \A c, d \in Writers : c = d
  /\ Writers # {} => Readers = {}

\* Which shutdown calls can be where.
CallerPaths ==
  \A c \in Callers :
    /\ pc[c] \in {"draining", "removing", "awaiting"} => c \in GracefulCallers
    /\ pc[c] \in {"stopping", "aborted"} => c \notin GracefulCallers

\* The dispatcher is there as long as somebody sends through it, it runs as long as
\* it is there, and it goes away only with a drain, an abrupt stop or a dead worker.
DispatcherLifecycle ==
  /\ \A e \in Events : call[e] = "sending" => dispatcher
  /\ \A c \in Callers : pc[c] \in {"draining", "stopping"} => ~dispatcher
  /\ dispatcher => is_running
  /\ ~dispatcher => worker = "exited" \/ Halted \/ \E c \in Callers : pc[c] = "draining"
  /\ ~is_running => worker = "exited" \/ Halted
  /\ \A c \in GracefulCallers :
       pc[c] \in {"manager", "removing", "awaiting", "done"} => worker = "exited" \/ Halted

\* What the worker holds in each of its states. It leaves nothing behind: it ends
\* with an empty queue and no sleeper, unless the bus was shut down abruptly.
WorkerHolds ==
  /\ matched # {} => worker = "collect"
  /\ pending # {} => worker = "send"
  /\ event # NoEvent => worker \in {"match", "collect", "send"}
  /\ worker = "exited" => ~dispatcher /\ queue = <<>> /\ (sleepers = {} \/ Halted)

\* A task starts when it is inserted, holds an event only while it handles it,
\* cancellation is the owner's, and the auto-unsubscribe channel names ended tasks.
TaskHolds ==
  /\ \A s \in Subs : client[s] \in {"new", "checked"} => task[s] = "none"
  /\ \A s \in Subs : current[s] # NoEvent => task[s] \in {"handling", "backoff", "dlq"}
  /\ \A s \in Subs : cancel[s] => client[s] = "closed"
  /\ \A s \in Subs : s \in Range(unsub) => task[s] = "exited"

\* As long as the worker lives, a subscription that nobody gave up is in the map,
\* is registered once subscribe returned, and its task receives.
SubscriptionsReachable ==
  \A s \in Subs :
    client[s] \in {"inserted", "active"} /\ ~abort[s] /\ task[s] # "panicked"
      /\ ~Halted /\ worker # "exited"
    => s \in subscriptions /\ Live(s) /\ (client[s] = "active" => s \in registered)

\* Whoever was in place for an event once had its subscription.
AudienceSubscribed ==
  \A e \in Events : \A s \in audience[e] : client[s] \in {"active", "removing", "closed"}

BusInv ==
  /\ LockExcludes
  /\ CallerPaths
  /\ DispatcherLifecycle
  /\ WorkerHolds
  /\ TaskHolds
  /\ SubscriptionsReachable
  /\ AudienceSubscribed

=============================================================================
