------------------------- MODULE SubscriptionManager -------------------------
(***************************************************************************)
(* The subscription manager of the in-memory bus (src/src/subscription):   *)
(* the map of subscriptions, the registry entries that publishers look up, *)
(* one bounded channel and one handler task per subscription, the retry    *)
(* loop with its dead letter queue, the handle that cancels a              *)
(* subscription, and the cleaner task that removes cancelled ones.         *)
(*                                                                         *)
(* The module has state and actions but no specification of its own: the   *)
(* dispatcher's worker and the callers of shutdown drive it, and EventBus   *)
(* composes them.                                                          *)
(***************************************************************************)
EXTENDS Naturals, Sequences, FiniteSets, Functions

CONSTANTS
  Subs,               \* subscription ids
  Events,             \* event ids, one per publish call
  NoEvent,            \* stands for "no event in hand"
  EarlySubs,          \* subscriptions that were made before the first publish
  Leavers,            \* subscriptions whose owner may cancel them
  Panicking,          \* subscriptions whose handler may panic
  Matches,            \* Matches[e]: subscriptions whose type, topic and filter accept e
  HandlerChannelSize, \* config.handler_channel_size
  MaxRetries,         \* config.max_retries
  DlqChannelSize,     \* config.dlq_channel_size
  DlqConsumed         \* TRUE iff somebody receives from the DLQ channel

ASSUME ManagerConstants ==
  /\ EarlySubs \subseteq Subs
  /\ Leavers \subseteq Subs
  /\ Panicking \subseteq Subs
  /\ NoEvent \notin Events
  /\ Matches \in [Events -> SUBSET Subs]
  /\ HandlerChannelSize \in Nat \ {0}
  /\ MaxRetries \in Nat
  /\ DlqChannelSize \in Nat \ {0}
  /\ DlqConsumed \in BOOLEAN

VARIABLES
  client,        \* where the owner of a subscription is in subscribe/unsubscribe
  subscriptions, \* keys of SubscriptionManager.subscriptions (each holds a sender)
  registered,    \* subscriptions the registry returns to dispatch
  chan,          \* the handler channel of each subscription
  task,          \* state of the handler task
  current,       \* the event in the hands of the handler task
  attempt,       \* failed attempts on that event
  cancel,        \* the oneshot of the handle has fired (or its sender is gone)
  abort,         \* JoinHandle::abort was called on the task
  unsub,         \* ids in the auto-unsubscribe channel
  dlq,           \* contents of the DLQ channel
  matched,       \* dispatch: registry entries found for the event
  pending,       \* dispatch: sends that have not completed
  handled        \* history: events a subscription is done with, in order

managerVars == <<client, subscriptions, registered, chan, task, current,
                 attempt, cancel, abort, unsub, dlq, matched, pending, handled>>

ClientState == {"new", "checked", "inserted", "active", "removing", "closed",
                "refused"}

\* The handler task, the same whether subscribe_typed or subscribe_untyped spawns it.
TaskState == {"none", "idle", "handling", "backoff", "dlq", "exited", "panicked"}

\* The task still owns the receiving end of its channel.
Live(s) == task[s] \in {"idle", "handling", "backoff", "dlq"}

\* Every sender of the channel of s is dropped: the one in the map and the
\* clone that a dispatch in progress holds.
SendersGone(s) == s \notin subscriptions /\ s \notin pending

ManagerInit ==
  /\ client = [s \in Subs |-> IF s \in EarlySubs THEN "active" ELSE "new"]
  /\ subscriptions = EarlySubs
  /\ registered = EarlySubs
  /\ chan = [s \in Subs |-> <<>>]
  /\ task = [s \in Subs |-> IF s \in EarlySubs THEN "idle" ELSE "none"]
  /\ current = [s \in Subs |-> NoEvent]
  /\ attempt = [s \in Subs |-> 0]
  /\ cancel = [s \in Subs |-> FALSE]
  /\ abort = [s \in Subs |-> FALSE]
  /\ unsub = <<>>
  /\ dlq = <<>>
  /\ matched = {}
  /\ pending = {}
  /\ handled = [s \in Subs |-> <<>>]

-----------------------------------------------------------------------------
(* Subscribing and unsubscribing                                           *)

\* subscribe_typed spawns the handler task and stores its sender in the map...
SubscribeInsert(s) ==
  /\ client[s] = "checked"
  /\ client' = [client EXCEPT ![s] = "inserted"]
  /\ task' = [task EXCEPT ![s] = "idle"]
  /\ subscriptions' = subscriptions \cup {s}
  /\ UNCHANGED <<registered, chan, current, attempt, cancel, abort, unsub, dlq,
                 matched, pending, handled>>

\* ... and only then makes it visible to publishers and returns the handle.
SubscribeRegister(s) ==
  /\ client[s] = "inserted"
  /\ client' = [client EXCEPT ![s] = "active"]
  /\ registered' = registered \cup {s}
  /\ UNCHANGED <<subscriptions, chan, task, current, attempt, cancel, abort,
                 unsub, dlq, matched, pending, handled>>

\* SubscriptionHandle::unsubscribe, or the drop of the last clone of the handle.
HandleUnsubscribe(s) ==
  /\ s \in Leavers
  /\ client[s] = "active"
  /\ client' = [client EXCEPT ![s] = "closed"]
  /\ cancel' = [cancel EXCEPT ![s] = TRUE]
  /\ UNCHANGED <<subscriptions, registered, chan, task, current, attempt, abort,
                 unsub, dlq, matched, pending, handled>>

\* SubscriptionManager::unsubscribe first removes the registry entry. When there
\* is none it returns the error, and the handle it consumed is dropped.
UnsubscribeUnregister(s) ==
  /\ s \in Leavers
  /\ client[s] = "active"
  /\ client' = [client EXCEPT ![s] = IF s \in registered THEN "removing" ELSE "closed"]
  /\ cancel' = [cancel EXCEPT ![s] = s \notin registered]
  /\ registered' = registered \ {s}
  /\ UNCHANGED <<subscriptions, chan, task, current, attempt, abort, unsub, dlq,
                 matched, pending, handled>>

\* Then it removes the map entry and aborts the task, if the entry is still there.
UnsubscribeRemove(s) ==
  /\ client[s] = "removing"
  /\ client' = [client EXCEPT ![s] = "closed"]
  /\ cancel' = [cancel EXCEPT ![s] = TRUE]
  /\ abort' = [abort EXCEPT ![s] = @ \/ s \in subscriptions]
  /\ subscriptions' = subscriptions \ {s}
  /\ UNCHANGED <<registered, chan, task, current, attempt, unsub, dlq, matched,
                 pending, handled>>

\* The cleaner task spawned by with_channel_size. The map entry goes first and the
\* registration right after it: whoever looks between the two finds no sender, as
\* if both were gone.
CleanerStep ==
  /\ unsub # <<>>
  /\ LET id == Head(unsub) IN
       /\ subscriptions' = subscriptions \ {id}
       /\ registered' = IF id \in subscriptions THEN registered \ {id} ELSE registered
       /\ abort' = [abort EXCEPT ![id] = @ \/ id \in subscriptions]
  /\ unsub' = Tail(unsub)
  /\ UNCHANGED <<client, chan, task, current, attempt, cancel, dlq, matched,
                 pending, handled>>

-----------------------------------------------------------------------------
(* The handler task: the select! loop of subscribe_typed                   *)

HandlerRecv(s) ==
  /\ task[s] = "idle"
  /\ chan[s] # <<>>
  /\ current' = [current EXCEPT ![s] = Head(chan[s])]
  /\ chan' = [chan EXCEPT ![s] = Tail(@)]
  /\ attempt' = [attempt EXCEPT ![s] = 0]
  /\ task' = [task EXCEPT ![s] = "handling"]
  /\ UNCHANGED <<client, subscriptions, registered, cancel, abort, unsub, dlq,
                 matched, pending, handled>>

\* The task is done with its event and goes back to select!.
FinishEvent(s) ==
  /\ handled' = [handled EXCEPT ![s] = Append(@, current[s])]
  /\ current' = [current EXCEPT ![s] = NoEvent]
  /\ attempt' = [attempt EXCEPT ![s] = 0]
  /\ task' = [task EXCEPT ![s] = "idle"]

\* handle() returned Ok: increment_processed and ack_event, next event.
HandlerOk(s) ==
  /\ task[s] = "handling"
  /\ FinishEvent(s)
  /\ UNCHANGED <<client, subscriptions, registered, chan, cancel, abort,
                 unsub, dlq, matched, pending>>

\* Mutant of HandlerErr: the limit is compared with the old value of attempt.
HandlerErr_OffByOne(s) ==
  /\ task[s] = "handling"
  /\ attempt' = [attempt EXCEPT ![s] = @ + 1]
  /\ task' = [task EXCEPT ![s] = IF attempt[s] > MaxRetries THEN "dlq" ELSE "backoff"]
  /\ UNCHANGED <<client, subscriptions, registered, chan, current, cancel, abort,
                 unsub, dlq, matched, pending, handled>>

\* Mutant of HandlerErr: attempt is not incremented, so the retries never end.
HandlerErr_NoIncrement(s) ==
  /\ task[s] = "handling"
  /\ task' = [task EXCEPT ![s] = IF attempt[s] > MaxRetries THEN "dlq" ELSE "backoff"]
  /\ UNCHANGED <<client, subscriptions, registered, chan, current, attempt, cancel, abort,
                 unsub, dlq, matched, pending, handled>>

\* handle() returned Err: back off, or give up after max_retries retries.
HandlerErr(s) ==
  /\ task[s] = "handling"
  /\ attempt' = [attempt EXCEPT ![s] = @ + 1]
  /\ task' = [task EXCEPT ![s] = IF attempt[s] + 1 > MaxRetries THEN "dlq" ELSE "backoff"]
  /\ UNCHANGED <<client, subscriptions, registered, chan, current, cancel, abort,
                 unsub, dlq, matched, pending, handled>>

\* The exponential backoff elapsed: handle() is called again.
HandlerRetry(s) ==
  /\ task[s] = "backoff"
  /\ task' = [task EXCEPT ![s] = "handling"]
  /\ UNCHANGED <<client, subscriptions, registered, chan, current, attempt, cancel,
                 abort, unsub, dlq, matched, pending, handled>>

\* Mutant of HandlerDlqSend: the break is missing, the retry loop goes on.
HandlerDlqSend_NoBreak(s) ==
  /\ task[s] = "dlq"
  /\ Len(dlq) < DlqChannelSize
  /\ dlq' = Append(dlq, current[s])
  /\ handled' = [handled EXCEPT ![s] = Append(@, current[s])]
  /\ task' = [task EXCEPT ![s] = "handling"]
  /\ UNCHANGED <<client, subscriptions, registered, chan, current, attempt, cancel,
                 abort, unsub, matched, pending>>

\* dlq.send(..).await waits for room in the DLQ channel; then mark_failed.
HandlerDlqSend(s) ==
  /\ task[s] = "dlq"
  /\ Len(dlq) < DlqChannelSize
  /\ dlq' = Append(dlq, current[s])
  /\ FinishEvent(s)
  /\ UNCHANGED <<client, subscriptions, registered, chan, cancel, abort,
                 unsub, matched, pending>>

\* The task ends; its receiver is dropped with everything still buffered in it.
ExitTask(s, how) ==
  /\ task' = [task EXCEPT ![s] = how]
  /\ chan' = [chan EXCEPT ![s] = <<>>]
  /\ current' = [current EXCEPT ![s] = NoEvent]
  /\ attempt' = [attempt EXCEPT ![s] = 0]

\* recv() returned None: the channel is closed and drained.
HandlerChannelClosed(s) ==
  /\ task[s] = "idle"
  /\ chan[s] = <<>>
  /\ SendersGone(s)
  /\ ExitTask(s, "exited")
  /\ unsub' = Append(unsub, s)
  /\ UNCHANGED <<client, subscriptions, registered, cancel, abort, dlq,
                 matched, pending, handled>>

\* The shutdown_rx branch of select!, polled only between two events.
HandlerCancelled(s) ==
  /\ task[s] = "idle"
  /\ cancel[s]
  /\ ExitTask(s, "exited")
  /\ unsub' = Append(unsub, s)
  /\ UNCHANGED <<client, subscriptions, registered, cancel, abort, dlq,
                 matched, pending, handled>>

\* The runtime drops an aborted task at an await point: nothing is sent to unsub_tx.
HandlerAborted(s) ==
  /\ Live(s)
  /\ abort[s]
  /\ ExitTask(s, "exited")
  /\ UNCHANGED <<client, subscriptions, registered, cancel, abort, unsub,
                 dlq, matched, pending, handled>>

\* handle() panicked: the task unwinds, with no retry, no DLQ and no unsubscribe.
HandlerPanic(s) ==
  /\ s \in Panicking
  /\ task[s] = "handling"
  /\ ExitTask(s, "panicked")
  /\ UNCHANGED <<client, subscriptions, registered, cancel, abort, unsub,
                 dlq, matched, pending, handled>>

\* The consumer that EventBusBuilder spawns for a dlq_handler, or the owner of
\* the receiver that take_dlq_receiver returned.
DlqConsume ==
  /\ DlqConsumed
  /\ dlq # <<>>
  /\ dlq' = Tail(dlq)
  /\ UNCHANGED <<client, subscriptions, registered, chan, task, current, attempt,
                 cancel, abort, unsub, matched, pending, handled>>

-----------------------------------------------------------------------------
(* SubscriptionManager::dispatch, run by the dispatcher's worker           *)

\* The registry lookups (by type and by topic, without duplicates).
DispatchMatch(e) ==
  /\ matched' = registered \cap Matches[e]
  /\ UNCHANGED <<client, subscriptions, registered, chan, task, current, attempt,
                 cancel, abort, unsub, dlq, pending, handled>>

\* The sender of each matching subscription that is still in the map is cloned.
DispatchCollect ==
  /\ pending' = matched \cap subscriptions
  /\ matched' = {}
  /\ UNCHANGED <<client, subscriptions, registered, chan, task, current, attempt,
                 cancel, abort, unsub, dlq, handled>>

\* One of the joined sends completes.
DispatchSend(s, e) ==
  /\ s \in pending
  /\ Live(s)
  /\ Len(chan[s]) < HandlerChannelSize
  /\ chan' = [chan EXCEPT ![s] = Append(@, e)]
  /\ pending' = pending \ {s}
  /\ UNCHANGED <<client, subscriptions, registered, task, current, attempt, cancel,
                 abort, unsub, dlq, matched, handled>>

\* One of them fails because the task is gone: a warning, not an error.
DispatchSendFails(s) ==
  /\ s \in pending
  /\ ~Live(s)
  /\ pending' = pending \ {s}
  /\ UNCHANGED <<client, subscriptions, registered, chan, task, current, attempt,
                 cancel, abort, unsub, dlq, matched, handled>>

\* The dispatch future is dropped by the worker's timeout: the sends that have
\* not completed never will.
DispatchDropped ==
  /\ pending # {}
  /\ pending' = {}
  /\ UNCHANGED <<client, subscriptions, registered, chan, task, current, attempt,
                 cancel, abort, unsub, dlq, matched, handled>>

-----------------------------------------------------------------------------
(* The manager's part of shutting down                                     *)

\* One round of the loop of shutdown_gracefully: the entry, its sender and its
\* registration go, and the task runs on until its channel is drained.
DrainRemove(id) ==
  /\ subscriptions' = subscriptions \ {id}
  /\ registered' = IF id \in subscriptions THEN registered \ {id} ELSE registered
  /\ UNCHANGED <<client, chan, task, current, attempt, cancel, abort, unsub, dlq,
                 matched, pending, handled>>

\* SubscriptionManager::shutdown: clear the registry, abort every task (an entry that
\* is inserted between the two is one that is inserted before or after both)...
AbortAll ==
  /\ registered' = {}
  /\ abort' = [s \in Subs |-> abort[s] \/ s \in subscriptions]
  /\ UNCHANGED <<client, subscriptions, chan, task, current, attempt, cancel, unsub,
                 dlq, matched, pending, handled>>

\* ... and drop the map.
ClearSubscriptions ==
  /\ subscriptions' = {}
  /\ UNCHANGED <<client, registered, chan, task, current, attempt, cancel, abort,
                 unsub, dlq, matched, pending, handled>>

-----------------------------------------------------------------------------
ManagerTypeOK ==
  /\ client \in [Subs -> ClientState]
  /\ subscriptions \in SUBSET Subs
  /\ registered \in SUBSET Subs
  /\ chan \in [Subs -> Seq(Events)]
  /\ task \in [Subs -> TaskState]
  /\ current \in [Subs -> Events \cup {NoEvent}]
  /\ \A s \in Subs : task[s] \in {"handling", "backoff", "dlq"} => current[s] \in Events
  /\ attempt \in [Subs -> Nat]
  /\ \A s \in Subs : task[s] \in {"handling", "backoff"} => attempt[s] <= MaxRetries
  /\ cancel \in [Subs -> BOOLEAN]
  /\ abort \in [Subs -> BOOLEAN]
  /\ unsub \in Seq(Subs)
  /\ dlq \in Seq(Events)
  /\ matched \in SUBSET Subs
  /\ pending \in SUBSET Subs
  /\ handled \in [Subs -> Seq(Events)]
=============================================================================
