----------------------------- MODULE WorkerPool -----------------------------
(***************************************************************************)
(* WorkerPool and HashingWorkerPool (dispatcher/worker.rs): a bounded      *)
(* channel and a task per worker, sends that pick a worker in turn or by   *)
(* the hash of the correlation id, and stop, which joins the workers.      *)
(*                                                                         *)
(* start takes &mut self and stop takes self, so neither overlaps a send;  *)
(* sends overlap each other. One call of send per event.                   *)
(***************************************************************************)
EXTENDS Naturals, Sequences, Functions

CONSTANTS
  Events,
  Kinds,      \* which pools: TRUE for HashingWorkerPool, FALSE for WorkerPool
  NumWorkers, \* config.num_workers
  QueueSize,  \* config.queue_size
  Correlation, \* Correlation[e]: the correlation id of e, or NoCorrelation
  NoCorrelation,
  Hash,       \* Hash[x]: hash of a correlation id or of an event id
  Panicking,  \* events whose processor panics
  MaxStarts   \* bound: calls of start

ASSUME PoolConstants ==
  /\ Kinds \subseteq BOOLEAN
  /\ {NumWorkers, MaxStarts} \subseteq Nat
  /\ QueueSize \in Nat \ {0}
  /\ DOMAIN Correlation = Events
  /\ Hash \in [Events \cup (Range(Correlation) \ {NoCorrelation}) -> Nat]
  /\ Panicking \subseteq Events

\* Indices of workers, of which every start adds NumWorkers.
Workers == 0 .. (NumWorkers * MaxStarts - 1)

NotSent == NumWorkers * MaxStarts

VARIABLES
  hashing,     \* the pool is a HashingWorkerPool
  starts,      \* calls of start
  senders,     \* senders.len(), also num_workers()
  handles,     \* handles.len()
  next_worker,
  queue,       \* queue[w]: the channel of w
  worker,      \* state of the task of w
  current,     \* the event it processes, as a sequence of length 0 or 1
  call,        \* state of the send of each event
  target,      \* the worker it goes to
  stop,        \* state of stop
  joined,      \* stop: handles awaited so far
  processed,   \* history: processed events, in order
  prior        \* history: events whose send had returned when the send of e began

poolVars == <<hashing, starts, senders, handles>>
stopVars == <<stop, joined>>
taskVars == <<worker, current, processed>>
sendVars == <<next_worker, call, target, prior>>

vars == <<poolVars, stopVars, taskVars, sendVars, queue>>

Init ==
  /\ hashing \in Kinds
  /\ starts = 0
  /\ senders = 0
  /\ handles = 0
  /\ next_worker = 0
  /\ queue = [w \in Workers |-> <<>>]
  /\ worker = [w \in Workers |-> "none"]
  /\ current = [w \in Workers |-> <<>>]
  /\ call = [e \in Events |-> "idle"]
  /\ target = [e \in Events |-> NotSent]
  /\ stop = "no"
  /\ joined = 0
  /\ processed = <<>>
  /\ prior = [e \in Events |-> {}]

Sending == {e \in Events : call[e] = "sending"}

\* Nothing keeps start from being called again: it adds workers to those that run.
Start ==
  /\ starts < MaxStarts
  /\ stop = "no"
  /\ Sending = {}
  /\ starts' = starts + 1
  /\ senders' = senders + NumWorkers
  /\ handles' = handles + NumWorkers
  /\ worker' = [w \in Workers |-> IF w \in senders .. (senders' - 1) THEN "recv" ELSE worker[w]]
  /\ UNCHANGED <<hashing, stopVars, current, processed, sendVars, queue>>

-----------------------------------------------------------------------------
(* send and send_to                                                        *)

\* Mutant of RoutingKey: every event is routed by its own id.
RoutingKey_Event(e) == e

\* What the hash is taken of: the correlation id, or without one the event id.
RoutingKey(e) == IF Correlation[e] = NoCorrelation THEN e ELSE Correlation[e]

\* The worker an event is sent to.
Route(e) == (IF hashing THEN Hash[RoutingKey(e)] ELSE next_worker) % senders

\* A worker is picked, with an atomic fetch_add when it is picked in turn. Without any
\* worker WorkerPool::send returns an error; HashingWorkerPool::send divides by zero.
Send(e) ==
  /\ call[e] = "idle"
  /\ stop = "no"
  /\ prior' = [prior EXCEPT ![e] = {x \in Events : call[x] = "ok"}]
  /\ IF senders = 0
     THEN /\ call' = [call EXCEPT ![e] = IF hashing THEN "panicked" ELSE "err"]
          /\ UNCHANGED <<target, next_worker>>
     ELSE /\ call' = [call EXCEPT ![e] = "sending"]
          /\ target' = [target EXCEPT ![e] = Route(e)]
          /\ next_worker' = IF hashing THEN next_worker ELSE next_worker + 1
  /\ UNCHANGED <<poolVars, stopVars, taskVars, queue>>

\* The channel of that worker has room...
SendDone(e) ==
  /\ call[e] = "sending"
  /\ worker[target[e]] # "panicked"
  /\ Len(queue[target[e]]) < QueueSize
  /\ queue' = [queue EXCEPT ![target[e]] = Append(@, e)]
  /\ call' = [call EXCEPT ![e] = "ok"]
  /\ UNCHANGED <<poolVars, stopVars, taskVars, target, next_worker, prior>>

\* Mutant of SendFailed: a send to a closed channel is tried again and again.
SendFailed_Retries(e) ==
  /\ call[e] = "sending"
  /\ worker[target[e]] = "panicked"
  /\ UNCHANGED vars

\* ... or its receiver is gone: "Worker channel closed".
SendFailed(e) ==
  /\ call[e] = "sending"
  /\ worker[target[e]] = "panicked"
  /\ call' = [call EXCEPT ![e] = "err"]
  /\ UNCHANGED <<poolVars, stopVars, taskVars, target, next_worker, prior, queue>>

-----------------------------------------------------------------------------
(* The tasks of the workers                                                *)

Recv(w) ==
  /\ worker[w] = "recv"
  /\ queue[w] # <<>>
  /\ worker' = [worker EXCEPT ![w] = "busy"]
  /\ current' = [current EXCEPT ![w] = <<Head(queue[w])>>]
  /\ queue' = [queue EXCEPT ![w] = Tail(@)]
  /\ UNCHANGED <<poolVars, stopVars, processed, sendVars>>

\* processor(envelope) returned; an error is logged.
Processed(w) ==
  /\ worker[w] = "busy"
  /\ worker' = [worker EXCEPT ![w] = "recv"]
  /\ processed' = processed \o current[w]
  /\ current' = [current EXCEPT ![w] = <<>>]
  /\ UNCHANGED <<poolVars, stopVars, sendVars, queue>>

\* It panicked: the task ends, and its receiver is dropped with what is in the channel.
Panic(w) ==
  /\ worker[w] = "busy"
  /\ current[w][1] \in Panicking
  /\ worker' = [worker EXCEPT ![w] = "panicked"]
  /\ current' = [current EXCEPT ![w] = <<>>]
  /\ queue' = [queue EXCEPT ![w] = <<>>]
  /\ UNCHANGED <<poolVars, stopVars, processed, sendVars>>

\* Mutant of Exit: a worker ends as soon as the senders are cleared.
Exit_NotDrained(w) ==
  /\ worker[w] = "recv"
  /\ stop # "no"
  /\ worker' = [worker EXCEPT ![w] = "done"]
  /\ UNCHANGED <<poolVars, stopVars, current, processed, sendVars, queue>>

\* recv() returns None: stop cleared the senders, and the channel is empty.
Exit(w) ==
  /\ worker[w] = "recv"
  /\ stop # "no"
  /\ queue[w] = <<>>
  /\ worker' = [worker EXCEPT ![w] = "done"]
  /\ UNCHANGED <<poolVars, stopVars, current, processed, sendVars, queue>>

-----------------------------------------------------------------------------
(* stop                                                                    *)

StopBegin ==
  /\ stop = "no"
  /\ Sending = {}
  /\ stop' = "joining"
  /\ senders' = 0
  /\ UNCHANGED <<hashing, starts, handles, joined, taskVars, sendVars, queue>>

\* The next worker has ended. A panic ends stop with an error; the other handles are
\* dropped and their tasks go on.
StopJoin ==
  /\ stop = "joining"
  /\ joined < handles
  /\ worker[joined] \in {"done", "panicked"}
  /\ joined' = joined + 1
  /\ stop' = IF worker[joined] = "panicked" THEN "err" ELSE "joining"
  /\ UNCHANGED <<poolVars, taskVars, sendVars, queue>>

StopDone ==
  /\ stop = "joining"
  /\ joined = handles
  /\ stop' = "ok"
  /\ UNCHANGED <<poolVars, joined, taskVars, sendVars, queue>>

-----------------------------------------------------------------------------
SendCall(e) == SendDone(e) \/ SendFailed(e)

Task(w) == Recv(w) \/ Processed(w) \/ Panic(w) \/ Exit(w)

Stop == StopJoin \/ StopDone

\* Every call returned and no worker has anything to do.
AtRest ==
  /\ stop \in {"ok", "err"}
  /\ \A w \in Workers : worker[w] \in {"none", "done", "panicked"}

Rest == AtRest /\ UNCHANGED vars

Next ==
  \/ Start
  \/ \E e \in Events : Send(e) \/ SendCall(e)
  \/ \E w \in Workers : Task(w)
  \/ StopBegin \/ Stop
  \/ Rest

Spec == Init /\ [][Next]_vars

\* The tasks are polled, processors return, and a send or a stop that was begun is
\* awaited. Nobody has to start the pool, to send or to stop.
Fairness ==
  /\ \A e \in Events : WF_vars(SendCall(e))
  /\ \A w \in Workers : WF_vars(Task(w))
  /\ WF_vars(Stop)

FairSpec == Spec /\ Fairness

-----------------------------------------------------------------------------
(* Properties                                                              *)

\* What was accepted and neither hit a panic nor sat behind one.
Survives(e) == call[e] = "ok" /\ worker[target[e]] # "panicked"

\* An accepted event is in its worker's channel, in its worker's hands, or processed, in
\* exactly one of the three, whichever sends compete for the channel; and once stop
\* returned Ok (WorkerPool::stop) no worker had panicked and all of them are processed.
AcceptedOnce ==
  /\ \A e \in Events : Survives(e) =>
       LET w == target[e]
           places == queue[w] \o current[w] \o processed
       IN  \E i \in DOMAIN places : places[i] = e /\ \A j \in DOMAIN places : places[j] = e => j = i
  /\ stop = "ok" => \A e \in Events : call[e] = "ok" => e \in Range(processed)

\* Consistent hashing keeps the order of a correlation id (HashingWorkerPool::send): when
\* the send of x had returned before the send of e was called and both carry the same
\* correlation id, e is not processed before x, unless a panic took x away or the pool was
\* started again.
CorrelatedInOrder ==
  hashing /\ starts = 1 =>
    \A j \in DOMAIN processed :
      \A x \in prior[processed[j]] :
        Correlation[x] = Correlation[processed[j]] /\ Correlation[x] # NoCorrelation /\ Survives(x)
        => \E i \in 1 .. j : processed[i] = x

\* A send returns although its channel is full or its worker panics meanwhile, and so does
\* stop, after a panic too.
CallsReturn ==
  /\ \A e \in Events : call[e] = "sending" ~> call[e] \in {"ok", "err"}
  /\ stop = "joining" ~> stop \in {"ok", "err"}
=============================================================================
