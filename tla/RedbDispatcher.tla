--------------------------- MODULE RedbDispatcher ---------------------------
(***************************************************************************)
(* The persistent dispatcher (src/src/persistence/redb.rs): the tables it  *)
(* keeps in redb, its worker with group commit, the poller of scheduled    *)
(* events, the acknowledgement worker of RedbRegistry, the two replays, the *)
(* two ways to stop it, and crashes and restarts of the process.           *)
(*                                                                         *)
(* A redb write transaction is atomic and durable, so each one is one step. *)
(* What the process keeps in memory is lost by a crash. The subscription   *)
(* manager is reduced to one channel and one handler per subscription (see *)
(* SubscriptionManager for the details): a handler takes an event, is done *)
(* with it and acknowledges it in one step.                                *)
(***************************************************************************)
EXTENDS Naturals, Sequences, FiniteSets, Functions

CONSTANTS
  Events,             \* event ids, one per publish call; all of one event type
  Subs,               \* subscriptions the application makes after every start
  Groups,             \* the sets of subscriptions it makes in one go
  Accepts,            \* Accepts[e]: subscriptions that e reaches: their filter lets it through,
                      \* and they are not bound to a topic (RedbRegistry looks none up)
  NoKey,              \* idempotency_key is None
  Metadata,           \* Metadata[e]: what e may be published with: the idempotency key, whether
                      \* deliver_at is in the future and whether serialize_event fails
  Tries,              \* events published with try_publish
  Flaky,              \* events whose handlers may fail for good
  WaitForPersistence, \* config.wait_for_persistence
  DropOnFull,         \* DispatcherConfig.drop_on_full
  DispatchTimeout,    \* DispatcherConfig.processing_timeout_ms > 0
  MaxQueueSize,       \* DispatcherConfig.max_queue_size
  BatchSize,          \* messages in a group commit (1000 in the code)
  MaxBoots,           \* bound: starts of the process
  MaxExtras           \* bound: shutdowns, calls of replay_dlq, failed transactions and
                      \* dispatch timeouts, all together

ASSUME RedbConstants ==
  /\ IsFiniteSet(Subs) /\ Subs # {}
  /\ Accepts \in [Events -> SUBSET Subs]
  /\ UNION Groups = Subs
  /\ DOMAIN Metadata = Events
  /\ \A e \in Events : \A m \in Metadata[e] :
       DOMAIN m = {"key", "scheduled", "broken"} /\ {m.scheduled, m.broken} \subseteq BOOLEAN
  /\ Tries \subseteq Events /\ Flaky \subseteq Events
  /\ {WaitForPersistence, DropOnFull, DispatchTimeout} \subseteq BOOLEAN
  /\ {MaxQueueSize, BatchSize} \subseteq Nat \ {0}
  /\ {MaxBoots, MaxExtras} \subseteq Nat

VARIABLES
  \* The tables, durable:
  events,         \* EVENTS_TABLE
  refcount,       \* REFCOUNT_TABLE; 0 where there is no row
  scheduled,      \* SCHEDULED_EVENTS_TABLE
  processed_keys, \* PROCESSED_KEYS_TABLE
  dlq,            \* DLQ_TABLE
  \* The process, lost by a crash:
  app,            \* the application has not called replay_pending yet ("fresh"), or has
  subs,           \* subscriptions in the registry
  is_running,     \* RedbDispatcher.is_running
  sender,         \* RedbDispatcher.sender is Some
  queue,          \* the dispatcher's channel
  worker,         \* state of process_events
  batch,          \* the worker's batch, what is left of it
  count,          \* sub_count of the batch
  later,          \* the members of the batch found to be scheduled
  inbox,          \* handler channels
  acks,           \* the unbounded channel of the acknowledgement worker
  poller,         \* state of scheduler_loop
  ready,          \* due events the poller pulled out of the table and must send
  replay,         \* which replay is running
  resend,         \* events it must send
  dead,           \* events replay_pending will delete
  stop,           \* state of the shutdown
  call,           \* state of the publish call of each event
  meta,           \* the metadata it was published with
  \* The world:
  due,            \* scheduled events whose time has come
  boots, extras,  \* counted for the bounds
  \* History:
  audience,       \* subscriptions in place when the publish was called
  handled,        \* handled[e][s]: never, once, or twice and more
  timed_out,      \* events a dispatch timeout has hit
  collected,      \* events replay_pending deleted for want of subscribers
  forsaken,       \* publish calls under way when shutdown gave up waiting for them
  disk_failed     \* a transaction has failed

disk == <<events, refcount, scheduled, processed_keys, dlq>>
pollerVars == <<poller, ready>>
replayVars == <<replay, resend, dead, app>>
workerVars == <<worker, batch, count, later, timed_out>>
controlVars == <<is_running, sender, stop, boots>>
history == <<audience, handled, collected, forsaken>>

vars == <<disk, pollerVars, replayVars, workerVars, controlVars, history, subs, queue,
          inbox, acks, call, meta, due, extras, disk_failed>>

-----------------------------------------------------------------------------
(* Starting, crashing and restarting                                       *)

\* RedbDispatcher::new and start, as EventBusBuilder::build calls them.
Started ==
  /\ app = "fresh"
  /\ subs = {}
  /\ is_running = TRUE
  /\ sender = TRUE
  /\ queue = <<>>
  /\ worker = "recv" /\ batch = <<>> /\ count = 0 /\ later = {}
  /\ inbox = [s \in Subs |-> <<>>]
  /\ acks = <<>>
  /\ poller = "sleep" /\ ready = {}
  /\ replay = "no" /\ resend = {} /\ dead = {}
  /\ stop = "no"

Plain == [key |-> NoKey, scheduled |-> FALSE, broken |-> FALSE]

Init ==
  /\ events = {} /\ scheduled = {} /\ processed_keys = {} /\ dlq = {}
  /\ refcount = [e \in Events |-> 0]
  /\ Started
  /\ call = [e \in Events |-> "idle"]
  /\ meta = [e \in Events |-> Plain]
  /\ due = {}
  /\ boots = 1 /\ extras = 0
  /\ disk_failed = FALSE
  /\ audience = [e \in Events |-> {}]
  /\ handled = [e \in Events |-> [s \in Subs |-> 0]]
  /\ timed_out = {}
  /\ collected = {}
  /\ forsaken = {}

\* The process ends, by a crash or after a shutdown, and is started again: only the
\* tables are left. Publish calls that had not returned never will.
Restart ==
  /\ boots < MaxBoots
  /\ boots' = boots + 1
  /\ app' = "fresh"
  /\ subs' = {}
  /\ is_running' = TRUE
  /\ sender' = TRUE
  /\ queue' = <<>>
  /\ worker' = "recv" /\ batch' = <<>> /\ count' = 0 /\ later' = {}
  /\ inbox' = [s \in Subs |-> <<>>]
  /\ acks' = <<>>
  /\ poller' = "sleep" /\ ready' = {}
  /\ replay' = "no" /\ resend' = {} /\ dead' = {}
  /\ stop' = "no"
  /\ call' = [e \in Events |-> IF call[e] \in {"sending", "waiting"} THEN "crashed" ELSE call[e]]
  /\ UNCHANGED <<disk, history, due, extras, disk_failed, timed_out, meta>>

\* The application subscribes, in every run of the process anew, and not while it waits for
\* replay_pending.
Subscribe(group) ==
  /\ stop = "no"
  /\ replay # "pending"
  /\ ~(group \subseteq subs)
  /\ subs' = subs \cup group
  /\ UNCHANGED <<disk, pollerVars, replayVars, workerVars, controlVars, history, queue,
                 inbox, acks, call, due, extras, disk_failed, meta>>

\* deliver_at > Utc::now()
IsScheduled(e) == meta[e].scheduled /\ e \notin due

\* The clock passes the deliver_at of an event.
Elapse(e) ==
  /\ IsScheduled(e)
  /\ due' = due \cup {e}
  /\ UNCHANGED <<disk, pollerVars, replayVars, workerVars, controlVars, history, subs,
                 queue, inbox, acks, call, extras, disk_failed, meta>>

\* One of the rarer things happens, of which there are at most MaxExtras.
Extra == extras < MaxExtras /\ extras' = extras + 1

\* A transaction fails, and the code logs the error at most.
DiskError ==
  /\ Extra
  /\ disk_failed' = TRUE

-----------------------------------------------------------------------------
(* dispatch and try_dispatch, under the read guard of the bus              *)

\* Whoever holds the RwLock around the dispatcher for reading or for writing.
Reading == replay = "dlq" \/ \E e \in Events : call[e] \in {"sending", "waiting"}
Writing == replay = "pending" \/ stop \in {"draining", "stopping"}

\* A call gets the read guard; after a shutdown began the bus refuses it. The
\* application publishes once its replay is done.
PublishBegin(e) ==
  /\ call[e] = "idle"
  /\ app = "replayed"
  /\ ~Writing
  /\ call' = [call EXCEPT ![e] = IF stop = "no" /\ is_running THEN "sending" ELSE "err"]
  /\ \E m \in Metadata[e] : meta' = [meta EXCEPT ![e] = m]
  /\ audience' = [audience EXCEPT ![e] = subs]
  /\ UNCHANGED <<disk, pollerVars, replayVars, workerVars, controlVars, handled, collected,
                 forsaken, subs, queue, inbox, acks, due, extras, disk_failed>>

\* The message is in the queue. With wait_for_persistence the publisher waits for
\* the worker's oneshot; try_publish never does.
PublishSend(e) ==
  /\ call[e] = "sending"
  /\ Len(queue) < MaxQueueSize
  /\ queue' = Append(queue, e)
  /\ call' = [call EXCEPT ![e] =
                IF WaitForPersistence /\ e \notin Tries THEN "waiting" ELSE "ok"]
  /\ UNCHANGED <<disk, pollerVars, replayVars, workerVars, controlVars, history, subs,
                 inbox, acks, due, extras, disk_failed, meta>>

\* try_send on a full queue.
PublishFull(e) ==
  /\ call[e] = "sending"
  /\ DropOnFull \/ e \in Tries
  /\ Len(queue) >= MaxQueueSize
  /\ call' = [call EXCEPT ![e] = "err"]
  /\ UNCHANGED <<disk, pollerVars, replayVars, workerVars, controlVars, history, subs,
                 queue, inbox, acks, due, extras, disk_failed, meta>>

\* The worker completes (or drops) the oneshot: `let _ = rx.await; Ok(())`.
Confirmed(S) ==
  call' = [e \in Events |-> IF e \in S /\ call[e] = "waiting" THEN "ok" ELSE call[e]]

-----------------------------------------------------------------------------
(* process_events                                                          *)

\* Mutant of IsDuplicate: only the keys of earlier transactions are looked up.
IsDuplicate_NotInBatch(e) == meta[e].key \in processed_keys

\* The idempotency key of e is in the table, or in the batch already.
IsDuplicate(e) ==
  /\ meta[e].key # NoKey
  /\ \/ meta[e].key \in processed_keys
     \/ \E i \in DOMAIN batch : meta[batch[i]].key = meta[e].key

\* The worker receives a message, and drains the queue for a group commit. A
\* duplicate is confirmed at once and discarded. (The code checks the whole batch
\* after it is drained; only this worker writes processed_keys.)
WorkerRecv ==
  /\ worker \in {"recv", "drain"}
  /\ queue # <<>>
  /\ worker = "recv" => is_running
  /\ Len(batch) < BatchSize
  /\ LET e == Head(queue) IN
       IF IsDuplicate(e) THEN Confirmed({e}) /\ UNCHANGED batch
                         ELSE batch' = Append(batch, e) /\ UNCHANGED call
  /\ queue' = Tail(queue)
  /\ worker' = "drain"
  /\ UNCHANGED <<disk, pollerVars, replayVars, controlVars, history, count, later,
                 timed_out, subs, inbox, acks, due, extras, disk_failed, meta>>

\* is_running is false when a message arrives: the worker breaks out of its loop and
\* drops the queue.
WorkerBreak ==
  /\ worker = "recv"
  /\ queue # <<>>
  /\ ~is_running
  /\ worker' = "exited"
  /\ queue' = <<>>
  /\ Confirmed(Range(queue))
  /\ UNCHANGED <<disk, pollerVars, replayVars, controlVars, history, batch, count, later,
                 timed_out, subs, inbox, acks, due, extras, disk_failed, meta>>

\* Mutant of WorkerClosed: the worker ends as soon as the senders are gone.
WorkerClosed_NotDrained ==
  /\ worker = "recv"
  /\ ~sender
  /\ poller = "exited"
  /\ worker' = "exited"
  /\ UNCHANGED <<disk, pollerVars, replayVars, controlVars, history, batch, count, later,
                 timed_out, subs, queue, inbox, acks, call, due, extras, disk_failed, meta>>

\* Every sender is dropped, the dispatcher's and the poller's, and the queue is empty.
WorkerClosed ==
  /\ worker = "recv"
  /\ queue = <<>>
  /\ ~sender
  /\ poller = "exited"
  /\ worker' = "exited"
  /\ UNCHANGED <<disk, pollerVars, replayVars, controlVars, history, batch, count, later,
                 timed_out, subs, queue, inbox, acks, call, due, extras, disk_failed, meta>>

\* What is stored of the batch. An event that cannot be serialized is not: the error is
\* logged and counted, and the message stays in the batch.
Storable == {e \in Range(batch) : ~meta[e].broken}

\* The subscriptions of the type are counted, filters or not, and deliver_at is
\* compared with the clock. Without a subscription nothing is stored.
WorkerCount ==
  /\ worker = "drain"
  /\ queue = <<>> \/ Len(batch) = BatchSize
  /\ count' = IF batch = <<>> THEN 0 ELSE Cardinality(subs)
  /\ later' = {e \in Storable : subs # {} /\ IsScheduled(e)}
  /\ worker' = IF batch = <<>> THEN "recv"
               ELSE IF subs = {} \/ Storable = {} THEN "deliver" ELSE "store"
  /\ UNCHANGED <<disk, pollerVars, replayVars, controlVars, history, batch,
                 timed_out, subs, queue, inbox, acks, call, due, extras, disk_failed, meta>>

\* One transaction stores what can be stored: scheduled events in their own table, the others
\* with their reference count, all of them with their keys.
WorkerStore ==
  /\ worker = "store"
  /\ LET now == Storable \ later IN
       /\ events' = events \cup now
       /\ refcount' = [e \in Events |-> IF e \in now THEN count ELSE refcount[e]]
       /\ scheduled' = scheduled \cup later
       /\ processed_keys' = processed_keys \cup ({meta[e].key : e \in Storable} \ {NoKey})
  /\ worker' = "deliver" /\ count' = 0 /\ later' = {}
  /\ UNCHANGED <<dlq, pollerVars, replayVars, controlVars, history, batch, timed_out, subs,
                 queue, inbox, acks, call, due, extras, disk_failed, meta>>

\* The transaction fails. A panic of the blocking task discards the batch; an error it
\* returns is not looked at, and the batch is dispatched as if it were stored.
WorkerStoreFails ==
  /\ worker = "store"
  /\ DiskError
  /\ count' = 0 /\ later' = {}
  /\ \/ worker' = "deliver" /\ UNCHANGED <<batch, call>>
     \/ worker' = "recv" /\ batch' = <<>> /\ Confirmed(Range(batch))
  /\ UNCHANGED <<disk, pollerVars, replayVars, controlVars, history, timed_out, subs, queue,
                 inbox, acks, due, meta>>

\* The next message of the batch, stored or not: its publisher is told that it is on disk,
\* and unless it is (still) scheduled it is sent to the subscriptions that match by now.
\* The timeout around dispatch may cut the sends short.
WorkerDeliver ==
  /\ worker = "deliver"
  /\ LET e == Head(batch)
         targets == IF IsScheduled(e) THEN {} ELSE subs \cap Accepts[e]
     IN  /\ Confirmed({e})
         /\ \E sent \in SUBSET targets :
              /\ sent = targets \/ DispatchTimeout
              /\ inbox' = [s \in Subs |-> IF s \in sent THEN Append(inbox[s], e) ELSE inbox[s]]
              /\ IF sent = targets THEN UNCHANGED <<timed_out, extras>>
                                   ELSE timed_out' = timed_out \cup {e} /\ Extra
  /\ batch' = Tail(batch)
  /\ worker' = IF Len(batch) = 1 THEN "recv" ELSE "deliver"
  /\ UNCHANGED <<disk, pollerVars, replayVars, controlVars, history, count, later, subs,
                 queue, acks, meta, due, disk_failed>>

-----------------------------------------------------------------------------
(* Handlers and acknowledgements                                           *)

\* Bound of the history: handling is counted up to two with a key, noted without.
Counted(e) == IF meta[e].key = NoKey THEN 1 ELSE 2

\* A handler is done with an event: ack_event, or mark_failed after its retries.
Handle(s, ok) ==
  /\ inbox[s] # <<>>
  /\ LET e == Head(inbox[s]) IN
       /\ ok \/ e \in Flaky
       /\ handled' = [handled EXCEPT ![e][s] = IF @ < Counted(e) THEN @ + 1 ELSE @]
       /\ acks' = Append(acks, [event |-> e, success |-> ok])
  /\ inbox' = [inbox EXCEPT ![s] = Tail(@)]
  /\ UNCHANGED <<disk, pollerVars, replayVars, workerVars, controlVars, audience, collected,
                 forsaken, subs, queue, call, due, extras, disk_failed, meta>>

\* Mutant of AckApply: a failed handler drops the event for all the others.
AckApply_FailureWins ==
  /\ acks # <<>>
  /\ LET e == Head(acks).event
         success == Head(acks).success
         last == refcount[e] = 1 \/ ~success
     IN  /\ refcount' = [refcount EXCEPT ![e] = IF last \/ @ = 0 THEN 0 ELSE @ - 1]
         /\ events' = IF last THEN events \ {e} ELSE events
         /\ dlq' = IF last /\ ~success /\ e \in events THEN dlq \cup {e} ELSE dlq
  /\ acks' = Tail(acks)
  /\ UNCHANGED <<scheduled, processed_keys, pollerVars, replayVars, workerVars, controlVars,
                 history, subs, queue, inbox, call, due, extras, disk_failed, meta>>

\* Mutant of AckApply: an acknowledgement without a row is counted down, too.
AckApply_Underflow ==
  /\ acks # <<>>
  /\ LET e == Head(acks).event
         last == refcount[e] = 1
     IN  /\ refcount' = [refcount EXCEPT ![e] = @ - 1]
         /\ events' = IF last THEN events \ {e} ELSE events
         /\ dlq' = IF last /\ ~Head(acks).success /\ e \in events THEN dlq \cup {e} ELSE dlq
  /\ acks' = Tail(acks)
  /\ UNCHANGED <<scheduled, processed_keys, pollerVars, replayVars, workerVars, controlVars,
                 history, subs, queue, inbox, call, due, extras, disk_failed, meta>>

\* Mutant of AckApply: the row of the last acknowledgement stays.
AckApply_KeepsLast ==
  /\ acks # <<>>
  /\ refcount' = [refcount EXCEPT ![Head(acks).event] = IF @ = 0 THEN 0 ELSE @ - 1]
  /\ acks' = Tail(acks)
  /\ UNCHANGED <<events, dlq, scheduled, processed_keys, pollerVars, replayVars, workerVars,
                 controlVars, history, subs, queue, inbox, call, due, extras, disk_failed, meta>>

\* One transaction of the acknowledgement worker. The last acknowledgement removes the
\* event, and decides alone whether it goes to the dead letter table.
AckApply ==
  /\ acks # <<>>
  /\ LET e == Head(acks).event
         last == refcount[e] = 1
     IN  /\ refcount' = [refcount EXCEPT ![e] = IF @ = 0 THEN 0 ELSE @ - 1]
         /\ events' = IF last THEN events \ {e} ELSE events
         /\ dlq' = IF last /\ ~Head(acks).success /\ e \in events THEN dlq \cup {e} ELSE dlq
  /\ acks' = Tail(acks)
  /\ UNCHANGED <<scheduled, processed_keys, pollerVars, replayVars, workerVars, controlVars,
                 history, subs, queue, inbox, call, due, extras, disk_failed, meta>>

\* The transaction fails: the acknowledgement is lost.
AckFails ==
  /\ acks # <<>>
  /\ DiskError
  /\ acks' = Tail(acks)
  /\ UNCHANGED <<disk, pollerVars, replayVars, workerVars, controlVars, history, subs, queue,
                 inbox, call, due, meta>>

-----------------------------------------------------------------------------
(* scheduler_loop                                                          *)

\* After a tick the due events are taken out of their table, in one transaction...
PollerPull ==
  /\ poller = "sleep"
  /\ is_running
  /\ scheduled \cap due # {}
  /\ scheduled' = scheduled \ due
  /\ ready' = scheduled \cap due
  /\ poller' = "send"
  /\ UNCHANGED <<events, refcount, processed_keys, dlq, replayVars, workerVars, controlVars,
                 history, subs, queue, inbox, acks, call, due, extras, disk_failed, meta>>

\* Mutant of PollerSend: the event is sent with try_send.
PollerSend_Try(e) ==
  /\ poller = "send"
  /\ e \in ready
  /\ queue' = IF subs # {} /\ Len(queue) < MaxQueueSize THEN Append(queue, e) ELSE queue
  /\ ready' = ready \ {e}
  /\ poller' = IF ready = {e} THEN "sleep" ELSE "send"
  /\ UNCHANGED <<disk, replayVars, workerVars, controlVars, history, subs, inbox, acks, call,
                 due, extras, disk_failed, meta>>

\* ... and sent to the worker one after the other, or dropped when the type has no
\* subscription or the worker is gone.
PollerSend(e) ==
  /\ poller = "send"
  /\ e \in ready
  /\ \/ subs # {} /\ worker # "exited" /\ Len(queue) < MaxQueueSize /\ queue' = Append(queue, e)
     \/ (subs = {} \/ worker = "exited") /\ UNCHANGED queue
  /\ ready' = ready \ {e}
  /\ poller' = IF ready = {e} THEN "sleep" ELSE "send"
  /\ UNCHANGED <<disk, replayVars, workerVars, controlVars, history, subs, inbox, acks, call,
                 due, extras, disk_failed, meta>>

\* is_running is false: the loop ends.
PollerExit ==
  /\ poller = "sleep"
  /\ ~is_running
  /\ poller' = "exited"
  /\ UNCHANGED <<disk, ready, replayVars, workerVars, controlVars, history, subs, queue, inbox,
                 acks, call, due, extras, disk_failed, meta>>

-----------------------------------------------------------------------------
(* replay_pending and replay_dlq                                           *)

\* Mutant of ReplayPending: a stored event nobody has acknowledged yet is passed over.
ReplayPending_Partial ==
  /\ stop = "no"
  /\ app = "fresh"
  /\ subs \in {{}, Subs}
  /\ ~Reading /\ ~Writing
  /\ resend' = {e \in events : refcount[e] \in 1 .. Cardinality(Subs) - 1}
  /\ replay' = "pending"
  /\ app' = "replayed"
  /\ UNCHANGED <<disk, pollerVars, dead, workerVars, controlVars, history, subs, queue, inbox,
                 acks, call, due, extras, disk_failed, meta>>

\* replay_pending, with the write guard of the bus: it reads the stored events with a
\* positive reference count. The application calls it once, before it publishes, and has
\* made all its subscriptions or none.
ReplayPending ==
  /\ stop = "no"
  /\ app = "fresh"
  /\ subs \in {{}, Subs}
  /\ ~Reading /\ ~Writing
  /\ resend' = {e \in events : refcount[e] > 0}
  /\ replay' = "pending"
  /\ app' = "replayed"
  /\ UNCHANGED <<disk, pollerVars, dead, workerVars, controlVars, history, subs, queue, inbox,
                 acks, call, due, extras, disk_failed, meta>>

\* For each of them: blocking_send waits for room, or the event is dead because its type
\* has no subscription (any more: an event found to have one may be waiting for room
\* when shutdown clears the registry).
ReplaySend(e) ==
  /\ replay = "pending"
  /\ e \in resend
  /\ \/ /\ subs # {} \/ stop = "abandoned"
        /\ Len(queue) < MaxQueueSize
        /\ queue' = Append(queue, e)
        /\ UNCHANGED dead
     \/ subs = {} /\ dead' = dead \cup {e} /\ UNCHANGED queue
  /\ resend' = resend \ {e}
  /\ UNCHANGED <<disk, pollerVars, replay, app, workerVars, controlVars, history, subs, inbox,
                 acks, call, due, extras, disk_failed, meta>>

\* Everything is sent: the dead events are deleted in one transaction, or stay when it
\* fails, and the call returns.
ReplayDone ==
  /\ replay \in {"pending", "dlq"}
  /\ resend = {}
  /\ \/ /\ events' = events \ dead
        /\ refcount' = [e \in Events |-> IF e \in dead THEN 0 ELSE refcount[e]]
        /\ collected' = collected \cup dead
        /\ UNCHANGED <<extras, disk_failed>>
     \/ dead # {} /\ DiskError /\ UNCHANGED <<events, refcount, collected>>
  /\ replay' = "no"
  /\ dead' = {}
  /\ UNCHANGED <<scheduled, processed_keys, dlq, pollerVars, resend, app, workerVars,
                 controlVars, audience, handled, forsaken, subs, queue, inbox, acks, call,
                 due, meta>>

\* replay_dlq, under the read guard: the dead letters leave their table first...
ReplayDlq ==
  /\ Extra
  /\ stop = "no"
  /\ replay = "no"
  /\ ~Writing
  /\ dlq # {}
  /\ resend' = dlq
  /\ dlq' = {}
  /\ replay' = "dlq"
  /\ UNCHANGED <<events, refcount, scheduled, processed_keys, pollerVars, dead, app,
                 workerVars, is_running, sender, stop, boots, history, subs, queue,
                 inbox, acks, call, due, disk_failed, meta>>

\* ... and are sent with try_send: they are dropped when the queue is full, or when no
\* subscription has made the type known.
ReplayDlqSend(e) ==
  /\ replay = "dlq"
  /\ e \in resend
  /\ queue' = IF subs # {} /\ Len(queue) < MaxQueueSize THEN Append(queue, e) ELSE queue
  /\ resend' = resend \ {e}
  /\ UNCHANGED <<disk, pollerVars, replay, dead, app, workerVars, controlVars, history, subs,
                 inbox, acks, call, due, extras, disk_failed, meta>>

-----------------------------------------------------------------------------
(* shutdown_gracefully and stop, with the write guard of the bus           *)

\* Mutant of DrainBegin: the poller is left alone, and its sender with it.
DrainBegin_PollerStays ==
  /\ Extra
  /\ stop = "no"
  /\ ~Reading /\ ~Writing
  /\ stop' = "draining"
  /\ sender' = FALSE
  /\ UNCHANGED <<disk, pollerVars, replayVars, workerVars, is_running, boots, history,
                 subs, queue, inbox, acks, call, due, disk_failed, meta>>

\* The poller is aborted, wherever it is, and the sender dropped.
DrainBegin ==
  /\ Extra
  /\ stop = "no"
  /\ ~Reading /\ ~Writing
  /\ stop' = "draining"
  /\ sender' = FALSE
  /\ poller' = "exited"
  /\ ready' = {}
  /\ UNCHANGED <<disk, replayVars, workerVars, is_running, boots, history,
                 subs, queue, inbox, acks, call, due, disk_failed, meta>>

\* stop clears is_running first, and leaves the poller to itself.
StopBegin ==
  /\ Extra
  /\ stop = "no"
  /\ ~Reading /\ ~Writing
  /\ stop' = "stopping"
  /\ sender' = FALSE
  /\ is_running' = FALSE
  /\ UNCHANGED <<disk, pollerVars, replayVars, workerVars, boots, history,
                 subs, queue, inbox, acks, call, due, disk_failed, meta>>

\* EventBus::shutdown does not get the write guard within shutdown_timeout: it passes over
\* stop, clears the registry, aborts the handlers and returns. The worker, the poller and
\* the calls that hold the guard go on.
StopAbandoned ==
  /\ Extra
  /\ stop = "no"
  /\ Reading \/ Writing
  /\ stop' = "abandoned"
  /\ subs' = {}
  /\ inbox' = [s \in Subs |-> <<>>]
  /\ forsaken' = forsaken \cup {e \in Events : call[e] \in {"sending", "waiting"}}
  /\ UNCHANGED <<disk, pollerVars, replayVars, workerVars, is_running, sender, boots, audience,
                 handled, collected, queue, acks, call, due, disk_failed, meta>>

\* The worker has ended: the manager lets the handlers drain their channels.
DrainDone ==
  /\ stop = "draining"
  /\ worker = "exited"
  /\ \A s \in Subs : inbox[s] = <<>>
  /\ stop' = "drained"
  /\ is_running' = FALSE
  /\ UNCHANGED <<disk, pollerVars, replayVars, workerVars, sender, boots,
                 history, subs, queue, inbox, acks, call, due, extras, disk_failed, meta>>

\* The worker has ended or five seconds are over: the manager aborts the handlers.
StopDone ==
  /\ stop = "stopping"
  /\ stop' = "stopped"
  /\ subs' = {}
  /\ inbox' = [s \in Subs |-> <<>>]
  /\ UNCHANGED <<disk, pollerVars, replayVars, workerVars, is_running, sender, boots,
                 history, queue, acks, call, due, extras, disk_failed, meta>>

-----------------------------------------------------------------------------
Publish(e) == PublishSend(e) \/ PublishFull(e)

Worker ==
  \/ WorkerRecv \/ WorkerBreak \/ WorkerClosed \/ WorkerCount
  \/ WorkerStore \/ WorkerStoreFails \/ WorkerDeliver

Handler(s) == \E ok \in BOOLEAN : Handle(s, ok)

AckWorker == AckApply \/ AckFails

Poller == PollerPull \/ PollerExit \/ \E e \in Events : PollerSend(e)

Replay == ReplayDone \/ \E e \in Events : ReplaySend(e) \/ ReplayDlqSend(e)

Stop == DrainDone \/ StopDone

\* The process is idle: a state without another step must be one of these.
AtRest ==
  /\ queue = <<>> /\ batch = <<>> /\ acks = <<>> /\ replay = "no"
  /\ \A s \in Subs : inbox[s] = <<>>
  /\ \A e \in Events : call[e] \notin {"sending", "waiting"}

Rest == AtRest /\ UNCHANGED vars

Next ==
  \/ Restart
  \/ \E group \in Groups : Subscribe(group)
  \/ \E s \in Subs : Handler(s)
  \/ \E e \in Events : Elapse(e) \/ PublishBegin(e) \/ Publish(e)
  \/ Worker
  \/ AckWorker
  \/ Poller
  \/ ReplayPending \/ ReplayDlq \/ Replay
  \/ DrainBegin \/ StopBegin \/ StopAbandoned \/ Stop
  \/ Rest

Spec == Init /\ [][Next]_vars

\* The tasks of the process run, handlers return, calls that were begun are awaited to
\* their end, and the application, after every start, subscribes and then calls
\* replay_pending. Nobody has to publish, to replay dead letters or to shut down, and
\* the process need not crash.
Fairness ==
  /\ \A group \in Groups : WF_vars(Subscribe(group))
  /\ \A s \in Subs : WF_vars(Handler(s))
  /\ \A e \in Events : WF_vars(Publish(e))
  /\ WF_vars(Worker)
  /\ WF_vars(AckWorker)
  /\ WF_vars(Poller)
  /\ WF_vars(ReplayPending) /\ WF_vars(Replay)
  /\ WF_vars(Stop)

FairSpec == Spec /\ Fairness

-----------------------------------------------------------------------------
(* Properties                                                              *)

\* Type invariant of the tables and of the process.
TypeOK ==
  /\ events \in SUBSET Events /\ scheduled \in SUBSET Events /\ dlq \in SUBSET Events
  /\ refcount \in [Events -> 0 .. Cardinality(Subs)]
  /\ processed_keys \in SUBSET ({m.key : m \in UNION Range(Metadata)} \ {NoKey})
  /\ app \in {"fresh", "replayed"} /\ subs \in SUBSET Subs
  /\ is_running \in BOOLEAN /\ sender \in BOOLEAN
  /\ queue \in Seq(Events) /\ batch \in Seq(Events)
  /\ worker \in {"recv", "drain", "store", "deliver", "exited"}
  /\ count \in 0 .. Cardinality(Subs) /\ (worker = "store" => count > 0)
  /\ later \in SUBSET Events
  /\ inbox \in [Subs -> Seq(Events)]
  /\ acks \in Seq([event : Events, success : BOOLEAN])
  /\ poller \in {"sleep", "send", "exited"} /\ ready \in SUBSET Events
  /\ replay \in {"no", "pending", "dlq"} /\ resend \in SUBSET Events /\ dead \in SUBSET Events
  /\ stop \in {"no", "draining", "drained", "stopping", "stopped", "abandoned"}
  /\ call \in [Events -> {"idle", "sending", "waiting", "ok", "err", "crashed"}]
  /\ meta \in [Events -> (UNION Range(Metadata)) \cup {Plain}]
  /\ due \in SUBSET Events
  /\ audience \in [Events -> SUBSET Subs]
  /\ handled \in [Events -> [Subs -> 0 .. 2]]

\* Another event with the idempotency key of e was published.
Contested(e) == \E f \in Events \ {e} : meta[f].key = meta[e].key /\ meta[e].key # NoKey

\* "Safely store unacknowledged events on disk": once a publish that waits for
\* persistence returned Ok (RedbDispatcher::dispatch), the event stays in EVENTS_TABLE
\* until each subscription that was in place has handled it, through acknowledgements of
\* other subscriptions, failures, timeouts, shutdowns, crashes and replays. Excused are
\* failed transactions, duplicates, a replay that finds no subscription, events that cannot
\* be serialized, and publish calls under way when a shutdown gave up waiting for them. (The
\* code confirms the last two without having stored them, although config.rs promises that
\* such a publish waits until the event is on the disk.)
Durable ==
  \A e \in Events \ (Tries \cup forsaken) :
    WaitForPersistence /\ call[e] = "ok" /\ audience[e] = Subs
      /\ ~meta[e].scheduled /\ ~meta[e].broken
      /\ ~disk_failed /\ e \notin collected /\ ~Contested(e)
    => \A s \in Accepts[e] : handled[e][s] > 0 \/ e \in events

\* Idempotency: of the events that share a key, a handler gets one at most, and gets it
\* once at most, whatever crashes, replays, dead letters and schedules do in between.
\* (The key of an event published before there was a subscription, or of one that cannot
\* be serialized, is not stored.)
OncePerKey ==
  ~disk_failed =>
    \A s \in Subs : \A e, f \in {x \in Events : /\ meta[x].key # NoKey /\ ~meta[x].broken
                                               /\ audience[x] # {}} :
      /\ handled[e][s] < 2
      /\ e # f /\ meta[e].key = meta[f].key => handled[e][s] = 0 \/ handled[f][s] = 0

\* A scheduled event (scheduler_loop) is handled when it is due and not before, and until
\* the process ends it is in a table or on its way to the worker: the poller, which takes
\* it out of SCHEDULED_EVENTS_TABLE before it sends it, does not race the worker, the
\* acknowledgements or replay_dlq. (A crash or a shutdown in between loses it, and so does
\* a failure to serialize it: it is confirmed and then passed over.)
ScheduledOnTime ==
  \A e \in Events : meta[e].scheduled =>
    /\ \A s \in Subs : handled[e][s] > 0 => e \in due
    /\ call[e] = "ok" /\ meta[e].key = NoKey /\ ~meta[e].broken /\ audience[e] = Subs
         /\ boots = 1 /\ stop = "no" /\ ~disk_failed /\ e \notin timed_out
       => \A s \in Accepts[e] :
            \/ handled[e][s] > 0
            \/ e \in events \cup scheduled \cup ready
            \/ e \in Range(queue) \cup Range(batch) \cup Range(inbox[s])

\* A drained shutdown leaves nothing behind (RedbDispatcher::shutdown_gracefully): every
\* event accepted for immediate delivery, in this run of the process or in an earlier one
\* that crashed before its replay, was handled by every subscription when it returns.
\* (Unless an earlier shutdown gave up on its publish call.)
NothingLeftBehind ==
  stop = "drained" /\ app = "replayed" /\ ~disk_failed =>
    \A e \in Events \ (Tries \cup timed_out \cup collected \cup forsaken) :
      WaitForPersistence /\ call[e] = "ok" /\ meta[e] = Plain /\ audience[e] = Subs
      => \A s \in Accepts[e] : handled[e][s] > 0

\* Recovery: an accepted event without a key is handled in the end, in this run of the
\* process or, after a crash and replay_pending, in a later one.
Recovered ==
  \A e \in Events \ Tries : \A s \in Accepts[e] :
    call[e] = "ok" /\ meta[e] = Plain /\ s \in audience[e]
    ~> \/ handled[e][s] > 0
       \/ e \in timed_out \cup collected \cup forsaken \/ disk_failed
       \/ stop \in {"stopped", "abandoned"} \/ (stop # "no" /\ app = "fresh")

\* The tables do not leak: when every subscription accepts an event, its copy is removed
\* in the end.
Reclaimed ==
  \A e \in Events :
    e \in events ~> \/ e \notin events
                   \/ meta[e].key # NoKey \/ Accepts[e] # Subs
                   \/ e \in timed_out \/ disk_failed
                   \/ stop \in {"stopped", "abandoned"} \/ (stop # "no" /\ app = "fresh")

\* shutdown_gracefully returns: the poller, which holds a sender, is gone before it waits
\* for the worker to see the channel closed. (Or the process ends.)
DrainReturns == stop = "draining" ~> stop # "draining"

=============================================================================
