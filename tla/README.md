# A TLA+ model of tokio-events

`tokio-events` is an event bus inside one process: typed publish/subscribe on
tokio tasks and channels, with retries, a dead letter queue, topic routing, request
and reply, two ways to shut down, and optional persistence (redb) and remote
transport (NATS). This directory holds TLA+ modules of its parts, the TLC runs that
check them on small instances, and TLAPS proofs, for instances of every size, of the
safety properties of the bus, of the registry and its trie, of persistence, of request
and reply, of the remote path and of the worker pools. Paths such as `bus/mod.rs:1072` are relative to
`src/src/`. `PROJECT.json` maps every definition to the lines it models.

    tlc -workers 2 -config bus_graceful.cfg MCEventBus     # one run
    for m in SequenceLemmas EventBusProofs DeliveryProofs RegistryProofs \
             RequestReplyProofs RemoteProofs WorkerPoolProofs RedbProofs
    do tlapm $m.tla; done                                  # the proofs

## 1. Inventory

### Parts, state and operations

| Part | State | Operations |
|---|---|---|
| `EventBus` (`bus/mod.rs`) | `shutdown_state` (atomic), `RwLock<Option<dispatcher>>`, `Mutex<hooks>`, DLQ receiver | `publish*`, `try_publish*`, `subscribe*`, `unsubscribe`, `request`/`respond`, `shutdown`, `shutdown_gracefully`, `replay_*`, remote variants |
| `ChannelDispatcher` (`dispatcher/channel.rs`) | bounded mpsc queue, `is_running`, worker task, sleeping tasks of delayed events, counters | `dispatch`, `try_dispatch`, `start`, `stop`, `shutdown_gracefully`, `process_events` |
| `SubscriptionManager`, `SubscriptionHandle` (`subscription/`) | map id -> (sender, join handle), one bounded channel and one task per subscription, auto-unsubscribe channel, DLQ channel | `subscribe_typed`, `subscribe_untyped`, `unsubscribe`, handle cancel/drop, `dispatch`, `shutdown`, `shutdown_gracefully` |
| `DashMapRegistry` (`registry/dashmap.rs`) | four concurrent maps, one trie behind `ArcSwap` | `register`, `unregister`, `clear`, lookups |
| `TopicTrie` (`registry/topic_trie.rs`) | tree of tokens with `*` and `>` | `insert`, `remove_topic`, `remove`, `match_topic` |
| `RedbDispatcher`, `RedbRegistry` (`persistence/redb.rs`) | five tables on disk (events, reference counts, scheduled events, processed keys, dead letters), queue, worker, poller, acknowledgement channel | `dispatch`, `try_dispatch`, group commit, acknowledgement worker, `scheduler_loop`, `replay_pending`, `replay_dlq`, `stop`, `shutdown_gracefully` |
| Retry policies, `CircuitBreaker` (`dispatcher/retry.rs`) | four `RwLock`s | `check_state`, `record_success`, `record_failure`, `should_retry`, `on_permanent_failure` (not used by the bus) |
| `WorkerPool`, `HashingWorkerPool` (`dispatcher/worker.rs`) | a channel and a task per worker, `next_worker` | `start`, `send`, `send_to`, `stop` (not used by the bus) |
| Remote transport (`remote/`, `bus/mod.rs:690-935`) | NATS connection, consumer loop per `subscribe_remote`, ack tasks | `publish_remote*`, `subscribe_remote`, `NatsTransport::publish` and `subscribe` |
| Builder, config, events, envelopes, errors, macros, global bus | configuration and data | sequential |

### How they interact

    publish --(read guard)--> dispatcher queue --> worker --> registry lookup
                                   ^                 |            |
       delayed event: a task that  |                 v            v
       sleeps and then sends ------+        senders of the subscription map
                                                     |  bounded channel each
       shutdown --(write guard)                      v
       takes the dispatcher               handler task: handle, retry, DLQ
                                                     |
       cleaner task <-- auto-unsubscribe channel <---+--> may publish (respond)
                                                     |
       redb: acknowledgement worker <-- one ack per subscription

A publisher holds the read guard of the lock around the dispatcher while it waits
for room in the queue. The worker waits for room in the handler channels. A
handler that publishes waits for the lock and for the queue. A shutdown waits for
the write guard, then for the worker, then for the handler tasks. Four parties can
therefore wait for each other in a circle.

With persistence, the worker stores a batch in one transaction before it dispatches
it; every handler acknowledges through an unbounded channel to a task that counts the
row of the event down and removes it. A poller moves due events from the table of
scheduled ones into the queue. After a restart the application subscribes and calls
`replay_pending`.

A request subscribes to an inbox topic of its own, publishes, and waits on a oneshot
channel that the inbox handler resolves; a responder publishes its answer from inside
its handler. A remote event goes to a broker; each instance that called
`subscribe_remote` runs a loop that publishes what it receives on the local bus and
then acknowledges it.

### What is hard, and which property is about it

* **publish against shutdown** (`bus/mod.rs:272-330`, `1013-1125`). The state is
  checked before the lock, then again under it. What can go wrong is an accepted
  event that is never delivered, or a send into a closed channel: `Accounted`,
  `ReceiverOutlivesSenders`, `DrainedOnReturn`, `TerminatedOnReturn`,
  `ImplementsContract`.
* **delayed events against the drain** (`dispatcher/channel.rs:246`): `Accounted`,
  `DrainedOnReturn`.
* **the circle of waits** (`bus/mod.rs:1141`): `ShutdownReturns`, `PublishReturns` with a
  dispatch timeout, `FreedByShutdown` without one.
* **subscription life cycle** (`subscription/mod.rs`): inserted in the map, then
  registered; unregistered, then removed; dispatch reads the registry, then the
  map, and sends without any lock: `Accounted`, `BusInv`.
* **retry loop and dispatch timeout**: `ImplementsContract` (finished once), `Delivered`,
  `TypeOK` (its bound on `attempt`), `InOrder`.
* **registry** (`registry/dashmap.rs`): every operation is several steps on several
  maps: `FindsNoOther`, `FindsRegistered`, `FindsAllActive`.
* **crash and restart** (`persistence/redb.rs`): between storing, confirming,
  dispatching, acknowledging, scheduling and replaying, with a shutdown in any of these
  places: `Durable`, `OncePerKey`, `ScheduledOnTime`, `NothingLeftBehind`, `Recovered`,
  `Reclaimed`, `DrainReturns`.
* **timeout against a late answer** (`bus/mod.rs:532`): `OwnReply`,
  `DroppedWithoutReply`, `RequestReturns`, `InboxReleased`.
* **lost, late and repeated network messages** (`bus/mod.rs:720-770`, `remote/nats.rs`):
  `AckedIsAccountedFor`, `OncePerGroup`, `Settled`.
* **pool of workers**: a panic while others wait for the same channel, order by
  correlation id: `AcceptedOnce`, `CorrelatedInOrder`, `CallsReturn`.
* **lock order of the breaker**: `FailsFast`.

## 2. Modules

| Module | Models | Run modules |
|---|---|---|
| `BusContract` | the abstract specification: what publishers and subscribers are promised | (implemented by `EventBus`) |
| `SubscriptionManager` | `subscription/mod.rs`, `handle.rs`: state and actions, no specification of its own | (part of `EventBus`) |
| `EventBus` | `bus/mod.rs` and `dispatcher/channel.rs`, composed with the manager | `MCEventBus` |
| `EventBusProofs` | proofs: types, inductive invariant, `ReceiverOutlivesSenders` | |
| `DeliveryProofs` | proofs: `Accounted`, the refinement of `BusContract`, `InOrder`, `TerminatedOnReturn`, `DrainedOnReturn` | |
| `SequenceLemmas` | what sending and receiving do to a channel: its elements, that they are distinct, their order | |
| `TopicTrie` | `registry/topic_trie.rs` as operators, and the reference definition `Fits` | (part of `Registry`) |
| `Registry` | `registry/dashmap.rs`, and the lookups of `SubscriptionManager::dispatch` | `MCRegistry` |
| `RegistryProofs` | proofs: wildcard matching and the updates of the trie, `FindsNoOther`, `FindsRegistered` | |
| `RedbDispatcher` | `persistence/redb.rs` with crashes and restarts | `MCRedb` |
| `RedbProofs` | proofs: `TypeOK`, `Durable`, `NothingLeftBehind`, `OncePerKey`, `ScheduledOnTime` | |
| `RequestReply` | `request` and `respond` over a bus reduced to its contract | itself |
| `RequestReplyProofs` | proofs: `OwnReply`, `DroppedWithoutReply` | |
| `Remote` | `publish_remote*`, `subscribe_remote`, `NatsTransport`, an external broker | itself |
| `RemoteProofs` | proofs: `AckedIsAccountedFor`, `OncePerGroup` | |
| `WorkerPool` | `dispatcher/worker.rs`, both pools | `MCWorkerPool` |
| `WorkerPoolProofs` | proofs: `AcceptedOnce`, `CorrelatedInOrder` | |
| `CircuitBreaker` | `dispatcher/retry.rs`: the breaker around the three policies | itself |

In every module a step ends at an `.await` or at an operation on shared state; a
stretch of code between two such points that no other task can observe is one action.

### EventBus and SubscriptionManager

One event stands for one publish call, so `call[e]` is the program counter of that
call: `idle`, `checked` (passed the first load of `shutdown_state`), `waiting` (in
the queue of the lock), `locked`, `sending` (in `send().await` with the guard
held), then `ok`, `err` or `dropped` (its future was dropped). Each element of
`Callers` makes one shutdown call with program counter `pc[c]`. `worker` is the
program counter of `process_events`, `task[s]` that of a handler task, `client[s]`
that of the owner of a subscription.

| Variable | Code |
|---|---|
| `shutdown_state`, `is_running` | the atomics of the same name |
| `dispatcher` | the `Option` under the lock is `Some`; the dispatcher owns one sender of `queue` |
| `queue`, `sleepers`, `event` | dispatcher channel, delayed events whose task sleeps with a sender, event the worker has in hand |
| `ahead` | the FIFO queue of tokio's `RwLock`, as who is ahead of each waiter |
| `dispatch_errors` | the events behind the counter of that name |
| `subscriptions`, `registered` | map of the manager, entries of the registry |
| `chan`, `task`, `current`, `attempt` | channel and task of each subscription |
| `cancel`, `abort`, `unsub`, `dlq` | oneshot of the handle, `JoinHandle::abort`, auto-unsubscribe channel, DLQ channel |
| `matched`, `pending` | progress of the dispatch under way |
| `ids`, `handles` | locals of the graceful shutdown of the manager |
| `handled`, `audience`, `prior` | history, read by properties only |

Abstractions, and why they are sound for the properties:

* Payload, type, topic and filter are the constant `Matches[e]`; the registry takes
  `register` and `unregister` as one step each. `Registry` examines them map by map
  and shows one interleaving in which this is not so (`registry_race` below):
  what the bus model says of delivery holds apart from that race.
* Timeouts may fire whenever the wait they guard is not over: every duration is
  covered. The backoff elapses at any time.
* A filter returns. The code runs it in the worker task (`subscription/mod.rs:587`), where a
  panic would end the worker and every delivery with it; this is not modelled.
* Handler code returns `Ok` or `Err`, or panics where the constant `Panicking`
  allows it. A responder (`Cascade`) publishes from inside `handle` and returns what
  its publish returned; it does so for one request, later ones carry no
  `reply_to`.
* In the cleaner and in the drain, removing the map entry and the registration are
  one step: dispatch finds no sender between the two, as if both were gone. In the
  abrupt shutdown, `registry.clear()` and the aborts are one step for the
  same kind of reason.
* The DLQ receiver is never dropped; a reader may or may not exist (`DlqConsumed`).
* Counters other than `dispatch_errors`, logging and tracing are left out. Hooks
  appear as the lock they run under: they run to their end.
* `subscribe_untyped` and the `subscribe_*` wrappers have the shape of
  `subscribe_typed`.

**Refinement.** `BusContract` has no lock, queue, worker, task or channel: an event is
accepted once or never, a concerned subscription finishes it at most once and only
after it was accepted, and nothing is accepted once a graceful shutdown has
returned. `EventBus` implements it under the mapping `accepted <- {e : call[e] = "ok"}`,
`finished <- handled`, `stopped <- ` some graceful call is `done`, `Concerns <- Matches`;
that is the property `ImplementsContract`. An event of `drop_on_full` that was counted as
an error is accepted, as its publish returned Ok. `RequestReply` builds on the contract.

### Registry and TopicTrie

A node of the trie is the path of tokens to it and a trie a set of pairs
`<<node, id>>`, so pruning empty nodes changes nothing. `match_topic` follows
`match_recursive`: literal child, `*` child and `>` child at every level. Patterns and
topics are sequences over the constant `Tokens`, which has the wildcards in it. `Registry`
has one action per operation on a map, for `register`, `unregister`, `clear` and the
lookups of dispatch. `Selected` is the rule of dispatch: a subscription without a topic by the
type of the event, one with a topic by the topic alone. `Concerned` is the documented rule, in which
type and topic have to fit (section 3). An id is registered at most once (a fresh UUID) and is
unregistered at most once; `unregister` may overlap `register`, as the cleaner can
make it. `name_to_type` and `active` play no part in local routing.

### RedbDispatcher

A redb write transaction is atomic and durable, so each is one action. `events`,
`refcount`, `scheduled`, `processed_keys` and `dlq` are the tables and survive `Restart`,
which is a crash at any point or the end of a process that was shut down; everything
else is memory.

| State | Code | Actions |
|---|---|---|
| `call`, `queue` | `dispatch`, `try_dispatch`, and the oneshot of `wait_for_persistence` | `PublishBegin`, `PublishSend`, `PublishFull` |
| `worker`, `batch`, `count`, `later` | `process_events`: receive, drain for a group commit, discard duplicates, count subscriptions, store what can be serialized (`Storable`), confirm and dispatch all of it | `WorkerRecv`, `WorkerBreak`, `WorkerClosed`, `WorkerCount`, `WorkerStore`, `WorkerStoreFails`, `WorkerDeliver` |
| `inbox`, `acks` | handler channels; `ack_event` and `mark_failed`; the acknowledgement worker of `RedbRegistry` | `Handle`, `AckApply`, `AckFails` |
| `poller`, `ready` | `scheduler_loop` | `PollerPull`, `PollerSend`, `PollerExit` |
| `replay`, `resend`, `dead` | `replay_pending` (write guard), `replay_dlq` (read guard) | `ReplayPending`, `ReplaySend`, `ReplayDlq`, `ReplayDlqSend`, `ReplayDone` |
| `stop`, `sender`, `is_running` | `stop` and `shutdown_gracefully`, and `EventBus::shutdown` that does not get the write lock in time: it skips `stop`, clears the registry and aborts the handlers, and everybody else goes on | `StopBegin`, `StopDone`, `DrainBegin`, `DrainDone`, `StopAbandoned` |

The application subscribes after a start, calls `replay_pending` once, and publishes
afterwards, as `bus/mod.rs:798` tells it to; the model covers a replay
before any subscription exists too. It does not subscribe while it waits for `replay_pending`, and
shuts the bus down once per start. `meta[e]` is what an event is published with: its key, whether it is
scheduled, and whether `serialize_event` fails for it (`broken`). The subscription manager is one channel
and one handler per subscription; its details are in `SubscriptionManager`. All events are of one
type, and the subscriptions are those without a topic: `RedbRegistry` does not implement
`get_topic_subscriptions` (`registry/mod.rs:128`), so with persistence the others are counted but
never reached, and a request is never answered.

### RequestReply

`pc[r]` is the program counter of `request`, `task[r]` and `chan[r]` the task and channel
of its inbox, `mapped` the inboxes in the map of the manager, `registered` those in the registry,
`oneshot[r]` the channel on which it waits (a value, or "dropped" once
the closure that owns the sender is gone), `serving[p]` and `attempt[p]` the retry loop of
a responder. The bus is a queue whose head reaches the subscriptions registered at that
moment; a graceful shutdown refuses new events, waits for the queue, removes the
subscriptions and lets their tasks drain. The check of `subscribe_topic`, the insertion into
the map and the registration are three steps (`SubscribeInbox`, `InsertInbox`, `RegisterInbox`), and the
shutdown may run between any two of them.

### Remote

`call`, `sleeping` and `wire` are the publishing side, `inbox`, `busy`, `step` and `acks` the
consumer loop and its ack tasks, `pending` what the local bus has accepted from the loop, `delayed`
what the publisher gave its own bus. The bus is reduced to what becomes of an event (`Handle`): the
handler has it, or the subscription ended first, or the bus drops it (`drop_on_full`, which returns Ok
all the same, the dispatch timeout, a panic of the handler); or `shutdown()` (`Halt`) or a crash takes
it. `lapsed` records which. An instance calls `subscribe_remote` once per start. The broker
(`stored`, `inflight`, `acked`, `redelivered`) is external: JetStream keeps a
message until the durable consumer, shared by name, has it acknowledged, delivers up to
`max_ack_pending` at a time and again after `ack_wait`; core NATS gives a message to
one subscriber of the queue group or to nobody. `jetstream` is chosen in `Init`.

### WorkerPool and CircuitBreaker

`WorkerPool` has both pools: `hashing` decides how `Route` picks a worker. `start` takes
`&mut self` and `stop` takes `self`, so neither overlaps a send; sends overlap each other.
`CircuitBreaker` has one action per lock that is awaited: `Goto` takes the lock the
caller waits for, and says which guards are kept. Delays are only waited for.

## 3. Runs

| Run | Instance | Shows |
|---|---|---|
| `bus_graceful` | 2 subscriptions (s2 subscribes during the run), 2 immediate events (one `try_publish`), 1 delayed, 1 graceful shutdown, capacities 1 | `Accounted`, `ReceiverOutlivesSenders`, `TerminatedOnReturn`, `InOrder`, `DrainedOnReturn`, `ImplementsContract` |
| `bus_churn` | 1 subscription that may be cancelled in both ways or panic, one retry, an immediate and a delayed event, `drop_on_full`, a graceful and an abrupt shutdown | `TypeOK`, `BusInv` (the inductive invariant of the proofs), `Accounted` |
| `bus_abrupt` | a responder, 4 requests and its response, an abrupt shutdown, no dispatch timeout: only the timeouts of `shutdown` can break the circle | `ReceiverOutlivesSenders`, `FreedByShutdown`, `ShutdownReturns` |
| `bus_cycle` | a responder, 4 requests and its response, a graceful shutdown, a dispatch timeout | `ShutdownReturns`, `PublishReturns`, `Delivered` |
| `registry` | 3 ids, 2 types, overlapping patterns, one with a `>` in the middle, `clear` | `FindsNoOther`, `FindsRegistered`; and `TrieMatchesReference` for all pairs of patterns and all topics of up to 3 tokens |
| `redb` | 2 events, one of any kind (keyed, scheduled, both, not serializable), 2 subscriptions, batch of 2, queue of 1, 2 starts, 1 extra (one of the three shutdowns, a `replay_dlq`, a failed transaction or a dispatch timeout) | `TypeOK`, `Durable`, `OncePerKey`, `ScheduledOnTime`, `NothingLeftBehind` |
| `redb_live` | 2 plain events, 2 subscriptions, 2 starts, 1 extra, fairness | `Recovered`, `Reclaimed`, `DrainReturns` |
| `worker_pool` | both pools, 3 events (2 of one correlation id), 2 workers, 2 starts, channels of 1, a panic | `AcceptedOnce`, `CorrelatedInOrder`, `CallsReturn` |
| `request_reply` | 2 requests, 2 responders, a notice, 1 retry, a graceful shutdown | `OwnReply`, `DroppedWithoutReply`, `RequestReturns`, `InboxReleased` |
| `remote` | 2 instances, 2 events (one scheduled and poison), `max_ack_pending` 1, 2 faults, with and without JetStream | `AckedIsAccountedFor`, `OncePerGroup`, `Settled` |
| `registry_race` | `unregister` against `register` of the same type | `FindsAllActive` is violated |
| `circuit_breaker` | 2 handlers share a breaker of threshold 1 | `FailsFast` is violated |

**Bounds.** Capacities are 1, so that every queue is full after one message and
every wait of the code happens; two events and one subscription already make a
publisher, the worker and a handler wait for each other, and a third event or a second
caller adds each of the races of section 1. The circle of waits with all its parties takes
five events: one with the handler, one in its channel, one with the worker, one in the queue, and
the response that its publish has no room for. `bus_abrupt` and `bus_cycle` have them. To afford it
they use `InTurnSpec` (`MCEventBus`): of two requests whose calls are in the same state the one with the
smaller number goes first. Nothing in the code or in the properties tells such requests
apart, so every other behaviour is one of these with names exchanged. The events of a bus run bound the length of
every channel, so it needs no other bound and no state constraint. Capacities
above 1, more subscriptions, more callers, more crashes and so on are covered by the
proofs, which know no bound, for all the properties that section 4 lists.

Where a run could go on for ever its constants name the bound. `MaxBoots` = 2: one crash
and the recovery from it; a second crash would start from tables that the first
one can leave, too. `MaxExtras` = 1: one of the rarer events at any point (a shutdown of one of the
three kinds, `replay_dlq`, failed transaction, timeout). Two events make a batch, a duplicate of a key, a
scheduled event beside an immediate one, and two subscriptions make a partly acknowledged
row. `MaxStarts` = 2 lets a pool be started twice. `MaxFaults` = 2 in `remote` pays for a crash
after a lost ack, for a redelivery that races a late ack, or for a shutdown or an event that the bus
drops in the middle of either. `handled` of `RedbDispatcher`
counts to two, which is what `OncePerKey` distinguishes. The run `redb` uses the
symmetry of its two subscriptions; it checks invariants only.

**Deadlock** is checked in every passing run but `remote`. `Rest` stutters exactly in
the states in which all work is done, so a state where somebody still waits and
nobody can move is reported. The registry's lookups never end. In `remote` nobody has to
publish or to crash again, so the system may come to rest; `Settled` is what would
catch a loop that is stuck. `circuit_breaker` turns the check off because the state it
shows is a deadlock.

**Fairness** is weak fairness per task, stated as `FairSpec` in each module. The tokio runtime
polls every task that was woken, timers fire, and tokio's channels and `RwLock` are fair.

* `EventBus`: each publish call that was begun, each sleeper, the worker, each shutdown
  call, each handler task, the cleaner and the DLQ consumer. It includes that handlers
  return, which is an assumption about user code, and that the dispatch timeout, where
  it is configured (`processing_timeout_ms > 0`), fires when a send goes on waiting.
* `RedbDispatcher`: the same for its tasks, and that the application subscribes and calls
  `replay_pending` after every start, which recovery depends on.
* `RequestReply`: calls, inboxes and the worker. Responders may take for ever.
* `Remote`: loops, ack tasks, handlers, the broker, a reader of the DLQ channel, and that a
  process that ended is started again and subscribes.
* `WorkerPool`: sends and stops that were begun, and the workers (processors return).
* `CircuitBreaker`: a call that was begun is polled.

Nobody is obliged to publish, subscribe to the bus, unsubscribe, shut down or crash.

**Reasons on record.** `Accounted`, `DrainedOnReturn` and `Delivered` excuse an
event only for what the code announces (`Excused`): the owner gave the subscription
up, its task was aborted or panicked, the event was counted in `dispatch_errors`, or
`shutdown()` halted the bus. The properties of `RedbDispatcher` excuse a failed
transaction (`disk_failed`), an event that cannot be serialized (`broken`), a publish call that was
under way when `shutdown` gave up on the lock (`forsaken`), a replay without any subscription
(`collected`), a dispatch timeout (`timed_out`) where the event is expected to be handled without
another restart, and an abrupt stop. `AckedIsAccountedFor` accepts of a remote event that it was handled
or dead-lettered, that a live bus holds it, or that `lapsed` says how a bus lost it: refused in
shutdown, without a subscription, in a crash, dropped, or halted. What has not got to a
bus may not be lost.

### Disagreements between documentation and code

Two have a run whose counterexample is an execution of the code:

1. `registry_race`: `registry/mod.rs:105` says that the dispatcher finds all active
   subscriptions. `unregister` (`registry/dashmap.rs:149`) tests `is_empty` under
   the lock of the shard and removes the type after releasing it: a subscription
   registered in between is never found again.
2. `circuit_breaker`: `dispatcher/retry.rs:212` says that the circuit "opens and fails fast".
   `check_state` holds `state` and waits for `last_failure`; `record_failure` holds
   `last_failure` and waits for `state`: both handlers, and all later ones, hang.

The models contain the following as well; the properties are stated so as to allow for it.

*The bus.* A second concurrent `shutdown_gracefully` finds the dispatcher taken and the map
empty and returns while handlers still run, against `bus/mod.rs:1063` ("once all
internal components have successfully terminated"); `TerminatedOnReturn` is therefore
checked and proved for one such call (`SingleDrain`). Cancelling a handle may drop buffered
events (`subscription/mod.rs:304`), against `subscription/handle.rs:73`. The graceful
shutdown has no timeout, so a handler that waits for an unread DLQ channel blocks it for
ever, against `bus/config.rs:95`. `shutdown` that does not get the lock in time skips `stop`
and leaves the worker (`bus/mod.rs:1029`), against `bus/mod.rs:1008`. A `subscribe` that
passed its check before the shutdown leaves a task behind that nobody ends
(`bus/mod.rs:425`). With `processing_timeout_ms` = 0, a responder whose bus has no place left waits for
the queue it would have to empty: its publish and all later ones hang until somebody calls
`shutdown()` (`FreedByShutdown`), and `shutdown_gracefully()` hangs with them. A panic of a filter ends
the worker (`subscription/mod.rs:587`). Hooks run once per shutdown call (`bus/mod.rs:965`). A panic of a handler
does not reach the DLQ (repository `README.md:26`). `publish` on a full queue waits and returns no
Backpressure error (`dispatcher/mod.rs:142`). An event with an explicit topic still goes to
subscribers of its type without a topic (`event/metadata.rs:138`). A topic subscription
is selected by its topic alone: an event of another type on a matching topic reaches its handler task,
fails there (`get_event::<T>`), is retried and ends in the DLQ, although `bus/mod.rs:434` says that the
handler "will only execute if the event is both of type `T` AND published with a matching topic";
`FindsNoOther` and `FindsRegistered` are therefore about the rule of the code (`Selected`). A pattern with a
`>` in the middle stays in the trie after its removal; `clear` keeps
`subscription_to_topic`.

*Persistence.* Two ways lead to an `Ok` of `publish` with `wait_for_persistence` for an event that is
not on disk, although `bus/config.rs:39` says that it "will block until the event is durably written
to the physical hard drive" and "guarantees zero data loss". An event that fails to serialize
(`redb.rs:370`) is logged and counted, but it stays in the batch: it is confirmed and dispatched without a
row, its key is not stored, so that a second event of the key is handled too, and if it is
scheduled it is passed over and lost. And a `shutdown` that does not get the lock in time
(`bus/mod.rs:1039`), because such a publish holds the read guard, clears the registry under the running
worker, which counts no subscription, stores nothing, delivers to nobody and confirms. A
`replay_pending` that is running then finds no subscription for what it has not sent yet and
deletes it from the disk. The scheduler commits the removal of due events before it sends them: a crash,
an abort by the drain or the lack of a subscription in between loses them, although
`dispatcher/channel.rs:239` recommends this dispatcher "for durable scheduled events"; an event
that becomes due between the store and the dispatch of its batch is dispatched twice. A
scheduled, replayed or dead-lettered event with an idempotency key meets its own key in
`processed_keys` and is discarded. The last acknowledgement alone decides whether an event goes
to the dead letter table, so a failure that is acknowledged earlier is forgotten
(repository `README.md:153`). An error inside the store transaction is ignored, and a panic of it
drops the batch while the publishers get `Ok` (`redb.rs:425`). A duplicate in a batch
is confirmed before its partner is stored. Events dispatched without any subscription are
neither stored nor is their key. Subscriptions whose filter or topic an event does not
pass are counted all the same, and its row is never removed. A subscription that joins between the
count and the dispatch acknowledges one more than was counted. `replay_pending`
on a live bus stores again what is in flight, with fresh counts, and holds the write lock of the bus while
it waits for room. `replay_dlq` drops what does not fit in the queue, although it counts it.
Acknowledgements that are in their channel when the process ends are lost, and their
events are delivered again.

*Request and reply.* `subscribe` inserts the inbox into the map and then registers it. A drain that
empties the map in between does not see the registration that follows, and the cleaner
skips an id that is not in the map (`subscription/mod.rs:94`): the entry stays in the registry of a bus
that is down. `InboxReleased` allows for this one entry. Only the wait for the answer has a timeout; the publish before it may
wait for room for ever.

*Remote.* `publish_remote` never publishes locally, although `bus/mod.rs:824`, the repository's
`README.md:205` and `tests/distributed_test.rs:27` say so. The loop acknowledges what a bus in shutdown
refused, what nobody is subscribed to any more, and what is only in memory, where a full queue with
`drop_on_full`, the dispatch timeout, a panic of the handler, `shutdown()` and a crash lose it, although
`bus/mod.rs:766` says "This guarantees At-Least-Once delivery!". The future of JetStream's
publish ack is dropped, although `nats.rs:83` says "Waits for disk ACK from broker". Each
`publish_remote` makes a fresh message id, so a caller's retry is never deduplicated. A scheduled
publish whose time has passed returns an error of the network after the event was published
locally; a delayed one returns Ok and never leaves if the payload is too large or the process dies.
An instance that publishes a delayed event and also subscribes to its topic handles it twice. A full, unread DLQ
channel blocks the loop at a poison message. Topics that differ in `.`, `*` and `>` only
share a consumer name.

*Worker pools.* A second `start` adds workers and changes where a correlation id goes.
`HashingWorkerPool::send` before `start` divides by zero. `stop` returns at the first panic and
leaves the other workers to themselves.

*Circuit breaker.* `should_retry` records a success whenever the inner policy gives up, which
resets the count of failures. A caller that saw `HalfOpen` can close a circuit that was opened meanwhile.

## 4. Proofs

All proofs are for arbitrary constants that satisfy the `ASSUME` of the module they are
about, and nothing else is assumed. Apart from types (a capacity is positive, a
subset is a subset) the assumptions say:

* `ManagerConstants`, `BusConstants`: callers are not events, a response event belongs to
  one responder.
* `RequestConstants`: requests differ from notices and from responders, and results,
  requests and response events from each other.
* `RemoteConstants`: `None` is no event and no result.
* `PoolConstants`: every event and correlation id has a hash.
* `RegistryConstants`: patterns and topics are finite sequences of `Tokens`, and `*` and `>` are
  tokens.
* `RedbConstants`: the subscriptions are finite in number, since they are counted on disk, and
  there is one.

Sets of events, callers, instances and subscriptions (but for those of redb) may be
infinite. The bounds of the runs (`MaxBoots`, `MaxExtras`, `MaxFaults`, `MaxStarts`) are
arbitrary numbers here.

### The bus

* `TypeCorrect`: `Spec => []TypeOK`. Besides the types: the worker has an event whenever
  it dispatches, and the handler is called with at most `MaxRetries` failures behind it.
* `BusInvariant`: `Spec => []BusInv`. `BusInv` is inductive together with `TypeOK`. Its parts:
  * `LockExcludes`: one writer, or readers; so the dispatcher cannot be taken while a
    publish sends.
  * `CallerPaths`: which kind of shutdown can be in which state.
  * `DispatcherLifecycle`: the dispatcher is there while somebody sends; when it
    is gone, a drain is under way, the bus was halted or the worker has ended.
  * `WorkerHolds`: what the worker has in hand in each state, and that it ends with an
    empty queue and without sleepers unless the bus was halted.
  * `TaskHolds`, `SubscriptionsReachable`: as long as the worker lives, a subscription that
    nobody gave up is in the map, registered, and has a task that receives. This is what
    makes a lookup followed by an unlocked send safe.
  * `AudienceSubscribed`: ties the history `audience` to the life of a subscription.
* `ReceiverOutlives`: `Spec => []ReceiverOutlivesSenders`. From `DispatcherLifecycle` and
  `WorkerHolds`: an ended worker has no dispatcher, and an admitted publish has one.
* `AcceptedAccounted`: `Spec => []Accounted`. Three lemmas over one step: a reason on
  record is never withdrawn (`StepKeepsReasons`); a publish becomes `ok` only by putting
  the event in the queue or among the sleepers, or by counting it (`StepAccepts`);
  an event on its way to `s` is afterwards still on its way, handled, or excused
  (`StepKeeps`, one step per action). The third one needs `SubscriptionsReachable`
  at the lookup, at the collection of senders and at the send, and `WorkerHolds` where
  the worker ends.
* `PlacesInvariant`: `Spec => []PlacesInv`. `OnlyAccepted`: what is in the queue, asleep, with the
  worker or with a handler belongs to a publish that was accepted. `NeverTwice`: an event is in
  one place on its way to each subscription (`Apart`), although the worker walks over
  copied senders while handlers already run. `DispatcherTaken`: a graceful call that is `done`
  has taken the dispatcher.
* `BusImplementsContract`: `Spec => ImplementsContract`, the whole abstract specification. Initial
  states map to an initial state; a publish that returns `Ok` is `Accept`, a handler
  that finishes is `Finish`, the return of the drain is `Stop`, and every other step is a
  stutter. `Finish` needs `OnlyAccepted` (only accepted events) and `NeverTwice` (once); `Accept` after
  a stop is excluded by `DispatcherTaken` and `LockExcludes`.
* `EventsInOrder`: `Spec => []InOrder`. `OrderInv` says for each `x` whose publish had returned before
  that of `e` began (`Before`) that `e` is nowhere before `x` (`NotOvertaken`): not in the queue, not in
  a channel, not with a worker while `x` is still queued. It builds on `PlacesInv`.
* `DrainTerminates`, `DrainComplete`: `SingleDrain => (Spec => []TerminatedOnReturn)`, and the same for
  `DrainedOnReturn`. `DrainInv` follows a running task through the drain (`DrainReaches`): its entry is
  in the map, then it is among the ids still to be removed or among the handles that the
  drain waits for; a task that a
  subscribe in progress added after the snapshot is a `Latecomer` without events, because
  the worker that would send it any has ended. `DrainComplete` then follows from `Accounted`:
  an event that is still on its way would be in a place that the drain has emptied. `SingleDrain` says
  that `shutdown_gracefully` is called once; two concurrent calls violate both (section 3).

### The registry and the trie

* `MatchTopicFits`: for every set of routes (pairs of a pattern and an id) and every topic,
  `match_topic` on the trie that stands for the routes returns the ids of exactly those whose
  pattern `Fits` the topic. It states for patterns and topics of every length what the runs check
  up to three tokens (`TrieMatchesReference`). `ReachedPaths` says which nodes the recursive descent
  visits at each depth: those that agree with the topic token by token. Since an induction theorem
  cannot be instantiated here, its proof is by the least counterexample (`HasLeast`, from the
  well-foundedness of `<` on the naturals): a least depth at which the claim fails has a
  predecessor at which it holds, and `LevelOfPaths` is the step between them. `VisitedFits` then
  relates the end of a stored pattern, which `StoredNode` cuts after a `>`, with `Fits`.
* `TrieUpdates`: `insert`, `remove` and `remove_topic` turn the trie of a set of routes into the
  trie of that set with or without one of them. For `remove_topic` the pattern must
  have nothing after a `>`: with such a pattern the code looks for a node that `insert` did not
  make, and removes nothing (section 3).
* `RegistryInvariant`, `NoOtherFound`, `RegisteredFound`: `Spec => []RegistryInv`,
  `Spec => []FindsNoOther` and `Spec => []FindsRegistered`. `RegistryInv` has three parts beside the types:
  * `Listed` ties the trie and the lists of the types to how far each `register` and `unregister` has got. An id
    that nobody takes out is in the trie from the end of its registration; it is in the list of its
    type only as long as no other id of this type is taken out either, which is the race that
    `registry_race` shows.
  * `FoundSelected`: what a lookup has collected so far is selected by the rule of dispatch and was
    not gone when the lookup began.
  * `Pending`: an id that was registered before the lookup and stays has been found, or will be
    (`WillBeFound`): it is among the ids that the trie returned, and the list of its type is still to be read.

### Request and reply, remote, pools

* `RequestGetsOwnReply`, `DropMeansNoReply`: from `ReplyInvariant`, `Spec => []ReplyInv`. `Correlated` follows a
  response from the queue through the inbox and the oneshot to the caller. `DroppedWithoutReply` is not
  inductive: that a sender is dropped in vain (`DroppedInVain`) needs that an accepted response
  is still pursued (`Pursued`), which needs that the inbox of a call in progress, from its
  insertion on, is in the map, and then registered, until the queue is empty for good (`Attended`), and that nobody responds before the request is published (`Unasked`).
* `AcknowledgedAccountedFor`: `AckInv` states the property one step and two steps earlier, for the
  acknowledgement the loop is about to trigger and for those under way; `InMemory` says what a
  dead process holds. What a bus has lost stays on record, so the step that loses an event
  (`Handle`, `Halt`, `Crash`) keeps it accounted for.
* `TakenOncePerGroup`: by counting. `CopiesInv`: the copies of an event that are with a loop and
  those already taken are together no more than what the broker has handed out, which is
  one per `ack_wait` that ran out plus one; `SentOnce`: the publishing side sends once.
* `AcceptedProcessedOnce`: from `PoolInvariant`, `Spec => []OnceInv`. `OnePlace` (in one channel, in one
  worker's hands, or processed) needs `Routed` (an accepted event has a worker that exists) and
  `Occupied` (what a worker in each state holds); that all events are processed when `stop` returns Ok needs
  `Staffed` and `JoinedInTurn` (the workers already joined ended without a panic and with empty
  channels).
* `CorrelationOrder`: `Hashed` says that with one start equal correlation ids share a worker, and
  `OrderInv` that of two such events the earlier one is ahead (`Ahead`) in the channel of this worker,
  in its hands or processed.

### Persistence

`RedbProofs` has a chain of inductive invariants, each built on the one before.

* `RedbTypes`, `RedbTypeCorrect`: `Spec => []TypeInv` and `Spec => []TypeOK`. In particular a reference
  count on disk stays within `0 .. Cardinality(Subs)`.
* `DurableInvariant`, `StoredUntilHandled`: `Spec => []DurableInv` and `Spec => []Durable`. An event that the
  property speaks of is `Owed`; `DurableInv` says that an owed event is `Safe`:
  * `OneMessage`: there is one message for it, or it has been delivered, never both; else
    its acknowledgements would be counted twice.
  * `Waits`: its publish call waits only in a bus that runs, has its subscriptions and has replayed,
    and for a message that is no duplicate.
  * `Counts`: a message in a batch is counted for all the subscriptions, and stored before
    it is delivered; a message that a cleared registry lets pass uncounted has its row
    already (a replay) or was given up by the shutdown that cleared it (`forsaken`).
  * `Covered`: the row is there, and its count is at least the number of acknowledgements under
    way plus that of the subscriptions that have not handled the event (`Awaited`).

  From `Covered` an acknowledgement that brings the count to zero, and so removes the row, was the last one
  and nobody is left who has not handled the event. `Durable` alone, and `Covered` without `OneMessage`, are not
  inductive: a second delivery would acknowledge twice on one count. For each event the steps
  divide into those that leave it alone (`Quiet`, a single argument) and those that receive, store, deliver,
  handle, acknowledge or replay it, one lemma each. The cardinalities are handled with
  the theorems on finite sets.
* `ClosingInvariant`, `DrainLeavesNothing`: `Spec => []ClosingInv` and `Spec => []NothingLeftBehind`. `Closing`
  is the order of the shutdown: no replay and no publish under the write guard, then the
  sender goes, then the worker with an empty queue, then the handlers with empty channels. A shutdown
  that gave up on the lock leaves sender and worker as they were.
  `OnItsWay`: from the replay on an expected event is on its way to whoever has not handled it.
* `KeyInvariant`, `KeyHandledOnce`: `Spec => []KeyInv` and `Spec => []OncePerKey`. Over the events that share
  a key (`Rivals`): while the key is not in the table nobody has any of them (`Fresh`); the worker has
  one of them, which nobody else has, and delivers it after its key is stored (`Chosen`); a
  handler has one of them and has handled none (`Received`); and then it has handled one, once
  (`Single`). Events that cannot be serialized are not among them (`Idempotent`). `Attended` says that
  the worker gets nothing that was published to a subscription while there is none (it would
  deliver it later without storing its key), unless a shutdown has cleared the registry for good, `Silent` that what was never sent was never handled.

* `ScheduleInvariant`, `ScheduledHandledOnTime`: `Spec => []ScheduleInv` and `Spec => []ScheduledOnTime`. `Early`:
  no handler has an event that is not due, and while the worker stores its batch such an event is in
  `later` if it can be stored. `Kept`: an event that the property speaks of (`Promised`) has been sent to every
  subscription that accepts it, or is with its publisher, in the queue, in the batch, in its table or with the poller;
  and when the worker passes an event over because it is not due yet, the event is in its table. The poller pulls
  only when it has sent what it pulled before (`StepKeepsPoller`), or it would overwrite it. No count is
  involved: an event that becomes due between the store and the dispatch of its batch is dispatched
  twice, and its row may go at an early acknowledgement, but by then it is in the channel of every subscription.

### Only model-checked

* Everything under fairness, since the prover has no liveness under weak fairness: `Delivered`,
  `ShutdownReturns`, `PublishReturns`, `FreedByShutdown`, `Recovered`, `Reclaimed`, `DrainReturns`, `RequestReturns`, `InboxReleased`, `Settled`,
  `CallsReturn`; and the absence of deadlock, which is about ENABLED.

Every safety property of the passing runs is proved. What no theorem covers beside liveness is
what the two runs with a violation show, by their counterexamples.

## 5. Plan

Done: the bus with its contract, the registry and the trie, persistence with crashes,
request and reply, the remote path, the worker pools and the circuit breaker; and the theorems of
section 4, which are about every invariant and the refinement that the runs check.

Possible extensions, in the order of what they would say about the code:

1. Two concurrent `shutdown_gracefully` calls: the weaker promise the second one keeps, as a property
   beside `TerminatedOnReturn`.
2. Events of several types in one batch of `RedbDispatcher`.
3. The safety half of the circuit breaker (who may close a circuit), once its lock order is repaired:
   the model has the present order, and stops at the deadlock.

### Not modelled, and why

The global bus is a `OnceCell`. Events, envelopes, metadata, errors and macros are data types,
serialisation and generated code; the models take from them what decides control (key,
delivery time, topic, `reply_to`, correlation id, size above the limit). The builder is
sequential; the configuration it reads is the constants of the models. `stats`, metrics and tracing
change nothing that the code acts on. `InMemoryDlq` is a vector behind a lock. `deactivate` of the
registry is not called by the bus. The NATS broker and redb itself are external, and
appear as what the code relies on.
