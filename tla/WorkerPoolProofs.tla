-------------------------- MODULE WorkerPoolProofs --------------------------
(***************************************************************************)
(* An accepted event is processed once and, with consistent hashing, in    *)
(* the order of its correlation id: AcceptedOnce and CorrelatedInOrder,    *)
(* for any number of workers, starts and competing sends and any size of   *)
(* the channels.                                                           *)
(***************************************************************************)
EXTENDS WorkerPool, SequenceLemmas

-----------------------------------------------------------------------------
(* The inductive invariant                                                 *)

PoolTypes ==
  /\ hashing \in BOOLEAN
  /\ starts \in 0 .. MaxStarts
  /\ senders \in Nat /\ handles \in Nat /\ next_worker \in Nat
  /\ queue \in [Workers -> Seq(Events)]
  /\ worker \in [Workers -> {"none", "recv", "busy", "done", "panicked"}]
  /\ current \in [Workers -> Seq(Events)]
  /\ call \in [Events -> {"idle", "sending", "ok", "err", "panicked"}]
  /\ target \in [Events -> Nat]
  /\ stop \in {"no", "joining", "ok", "err"}
  /\ joined \in 0 .. handles
  /\ processed \in Seq(Events)
  /\ prior \in [Events -> SUBSET Events]

\* Every start adds NumWorkers workers, stop clears the senders only, the workers beyond
\* the started ones do not exist, and one ends only when stop was called.
Staffed ==
  /\ handles = starts * NumWorkers
  /\ handles <= NumWorkers * MaxStarts
  /\ senders = IF stop = "no" THEN handles ELSE 0
  /\ \A w \in Workers : worker[w] = "none" <=> w >= handles
  /\ \A w \in Workers : worker[w] = "done" => stop # "no"

\* A worker holds an event while it processes one, and one that does not run has an empty
\* channel: it was not there yet, it ended after it had drained it, or it dropped it.
Occupied ==
  \A w \in Workers :
    /\ worker[w] = "busy" => \E e \in Events : current[w] = <<e>>
    /\ worker[w] # "busy" => current[w] = <<>>
    /\ worker[w] \in {"none", "done", "panicked"} => queue[w] = <<>>

\* A send in progress, and one that was accepted, goes to a worker that was started; and
\* what is anywhere in the pool was accepted, and for that worker.
Routed ==
  /\ stop # "no" => Sending = {}
  /\ \A e \in Events : call[e] \in {"sending", "ok"} => target[e] \in 0 .. (handles - 1)
  /\ \A w \in Workers : \A e \in Range(queue[w]) \cup Range(current[w]) :
       call[e] = "ok" /\ target[e] = w
  /\ \A e \in Range(processed) : call[e] = "ok"

\* An accepted event is in one place, and in that place once.
OnePlace ==
  /\ IsInjective(processed)
  /\ \A w \in Workers :
       /\ IsInjective(queue[w])
       /\ Range(queue[w]) \cap Range(current[w]) = {}
       /\ (Range(queue[w]) \cup Range(current[w])) \cap Range(processed) = {}
  /\ \A e \in Events : Survives(e) =>
       e \in Range(queue[target[e]]) \cup Range(current[target[e]]) \cup Range(processed)

\* stop goes on to the next handle when a worker has ended without a panic.
JoinedInTurn ==
  /\ stop = "no" => joined = 0
  /\ stop = "joining" => \A w \in Workers : w < joined => worker[w] = "done"
  /\ stop = "ok" => \A w \in Workers : w < handles => worker[w] = "done"

OnceInv == PoolTypes /\ Staffed /\ Occupied /\ Routed /\ OnePlace /\ JoinedInTurn

\* A hashing pool that was started once sends by the hash alone.
Hashed ==
  hashing /\ starts = 1 =>
    \A e \in Events : call[e] \in {"sending", "ok"} => target[e] = Hash[RoutingKey(e)] % NumWorkers

\* What was accepted before the send of e is ahead of e all the way through its worker.
Ahead(x, e) ==
  LET w == target[e] IN
    /\ e \in Range(processed) => x \in Range(processed) /\ Precedes(processed, x, e)
    /\ e \in Range(current[w]) => x \in Range(processed)
    /\ e \in Range(queue[w]) =>
         \/ x \in Range(processed) \cup Range(current[w])
         \/ x \in Range(queue[w]) /\ Precedes(queue[w], x, e)

OrderInv ==
  \A e \in Events : \A x \in prior[e] :
    /\ x # e /\ call[x] = "ok" /\ call[e] # "idle"
    /\ call[e] = "ok" /\ Survives(x) /\ target[x] = target[e] => Ahead(x, e)

-----------------------------------------------------------------------------
(* It is inductive                                                         *)

\* The workers are numbered from 0 up to what all the starts together add.
LEMMA WorkerNumbers ==
  /\ NumWorkers \in Nat /\ MaxStarts \in Nat /\ NotSent \in Nat
  /\ \A w : w \in Workers <=> w \in Nat /\ w < NotSent
<1>1. NumWorkers \in Nat /\ MaxStarts \in Nat
  BY PoolConstants
<1>2. NumWorkers * MaxStarts \in Nat
  BY <1>1
<1> QED
  BY <1>1, <1>2 DEF Workers, NotSent

\* More starts, more workers.
LEMMA TimesMonotone ==
  ASSUME NEW a \in Nat, NEW b \in Nat, NEW n \in Nat, a <= b
  PROVE  a * n <= b * n
<1>1. PICK d \in Nat : b = a + d
  <2>1. b - a \in Nat /\ b = a + (b - a)
    OBVIOUS
  <2> QED
    BY <2>1
<1>2. b * n = a * n + d * n
  BY <1>1
<1>3. a * n \in Nat /\ d * n \in Nat
  OBVIOUS
<1> QED
  BY <1>2, <1>3

\* Only events are in the channels, in the hands of the workers and processed.
LEMMA HeldEvents ==
  ASSUME PoolTypes
  PROVE  /\ Range(processed) \subseteq Events
         /\ \A w \in Workers : Range(queue[w]) \subseteq Events /\ Range(current[w]) \subseteq Events
BY RangeOfSeq DEF PoolTypes

\* Where a send goes is a worker that was started.
LEMMA TargetIsWorker ==
  ASSUME PoolTypes, Staffed, Routed, NEW e \in Events, call[e] \in {"sending", "ok"}
  PROVE  target[e] \in Workers /\ worker[target[e]] # "none"
<1>1. target[e] \in Nat /\ target[e] < handles /\ handles \in Nat /\ handles <= NotSent
  BY DEF PoolTypes, Staffed, Routed, NotSent
<1>2. target[e] \in Workers
  BY <1>1, WorkerNumbers
<1> QED
  BY <1>1, <1>2 DEF Staffed

\* Starting the pool, again or for the first time, takes nothing from the workers that run.
LEMMA StartKeepsOnceInv ==
  ASSUME OnceInv, Start
  PROVE  OnceInv'
<1> DEFINE n == NumWorkers
<1>1. /\ stop = "no" /\ starts < MaxStarts /\ starts' = starts + 1 /\ senders' = senders + n
      /\ handles' = handles + n
      /\ worker' = [w \in Workers |-> IF w \in senders .. (senders' - 1) THEN "recv" ELSE worker[w]]
      /\ UNCHANGED <<hashing, stop, joined, current, processed, next_worker, call, target, prior, queue>>
  BY DEF Start, stopVars, sendVars
<1>2. /\ n \in Nat /\ senders = handles /\ handles \in Nat /\ starts \in 0 .. MaxStarts /\ MaxStarts \in Nat
      /\ joined \in 0 .. handles
  BY <1>1, WorkerNumbers DEF OnceInv, PoolTypes, Staffed
<1>3. handles' = starts' * n /\ handles' <= n * MaxStarts
  <2>1. handles' = starts' * n
    BY <1>1, <1>2 DEF OnceInv, Staffed
  <2>2. starts' \in Nat /\ starts' <= MaxStarts
    BY <1>1, <1>2
  <2>3. starts' * n <= MaxStarts * n
    BY <1>2, <2>2, TimesMonotone
  <2> QED
    BY <1>2, <2>1, <2>3
<1> HIDE DEF n
<1>4. /\ worker' \in [Workers -> {"none", "recv", "busy", "done", "panicked"}]
      /\ \A w \in Workers : worker'[w] = IF w >= handles /\ w < handles' THEN "recv" ELSE worker[w]
  BY <1>1, <1>2, WorkerNumbers DEF OnceInv, PoolTypes
<1>5. \A w \in Workers : w >= handles => worker[w] = "none"
  BY DEF OnceInv, Staffed
<1>6. PoolTypes'
  BY <1>1, <1>2, <1>4 DEF OnceInv, PoolTypes
<1>7. Staffed'
  <2>1. \A w \in Workers : worker'[w] = "none" <=> w >= handles'
    BY <1>1, <1>2, <1>4, WorkerNumbers DEF OnceInv, Staffed
  <2>2. \A w \in Workers : worker'[w] # "done"
    BY <1>1, <1>4 DEF OnceInv, Staffed
  <2> QED
    BY <1>1, <1>2, <1>3, <1>4, <2>1, <2>2 DEF n, Staffed
<1>8. Occupied'
  BY <1>1, <1>4, <1>5 DEF OnceInv, Occupied
<1>9. Routed'
  BY <1>1, <1>2 DEF OnceInv, Routed, Sending, PoolTypes
<1>10. OnePlace'
  <2>1. \A e \in Events : Survives(e)' => Survives(e)
    <3> SUFFICES ASSUME NEW e \in Events, call[e] = "ok", worker'[target[e]] # "panicked"
                 PROVE  worker[target[e]] # "panicked"
      BY <1>1 DEF Survives
    <3>1. target[e] \in Workers /\ worker[target[e]] # "none"
      BY TargetIsWorker DEF OnceInv
    <3> QED
      BY <1>4, <1>5, <3>1
  <2> QED
    BY <1>1, <2>1 DEF OnceInv, OnePlace
<1>11. JoinedInTurn'
  BY <1>1 DEF OnceInv, JoinedInTurn
<1> QED
  BY <1>6, <1>7, <1>8, <1>9, <1>10, <1>11 DEF OnceInv

\* Picking a worker moves no event.
LEMMA SendKeepsOnceInv ==
  ASSUME OnceInv, NEW e \in Events, Send(e)
  PROVE  OnceInv'
<1>1. /\ call[e] = "idle" /\ stop = "no"
      /\ prior' = [prior EXCEPT ![e] = {x \in Events : call[x] = "ok"}]
      /\ UNCHANGED <<hashing, starts, senders, handles, stop, joined, worker, current, processed, queue>>
  BY DEF Send, poolVars, stopVars, taskVars
<1>2. /\ next_worker' \in Nat /\ target' \in [Events -> Nat]
      /\ call' \in [Events -> {"idle", "sending", "ok", "err", "panicked"}]
      /\ \A x \in Events : x # e => call'[x] = call[x] /\ target'[x] = target[x]
      /\ call'[e] \in {"sending", "err", "panicked"}
      /\ call'[e] = "sending" => target'[e] \in 0 .. (handles - 1)
  <2>1. CASE senders = 0
    BY <2>1 DEF Send, OnceInv, PoolTypes
  <2>2. CASE senders # 0
    <3>1. senders \in Nat /\ senders > 0 /\ senders = handles
      BY <1>1, <2>2 DEF OnceInv, PoolTypes, Staffed
    <3>2. next_worker \in Nat /\ (hashing => Hash[RoutingKey(e)] \in Nat)
      BY PoolConstants DEF OnceInv, PoolTypes, RoutingKey, Range
    <3>3. Route(e) \in 0 .. (handles - 1)
      BY <3>1, <3>2 DEF Route
    <3>4. /\ call' = [call EXCEPT ![e] = "sending"]
          /\ target' = [target EXCEPT ![e] = Route(e)]
          /\ next_worker' = IF hashing THEN next_worker ELSE next_worker + 1
      BY <2>2 DEF Send
    <3> QED
      BY <3>1, <3>2, <3>3, <3>4 DEF OnceInv, PoolTypes
  <2> QED
    BY <2>1, <2>2
<1>3. PoolTypes'
  BY <1>1, <1>2 DEF OnceInv, PoolTypes
<1>4. Staffed'
  BY <1>1 DEF OnceInv, Staffed
<1>5. Occupied'
  BY <1>1 DEF OnceInv, Occupied
<1>6. Routed'
  <2>1. \A v \in Workers : \A x \in Range(queue[v]) \cup Range(current[v]) :
          x \in Events /\ x # e /\ call[x] = "ok" /\ target[x] = v
    BY <1>1, HeldEvents DEF OnceInv, Routed
  <2>2. \A x \in Range(processed) : x \in Events /\ x # e /\ call[x] = "ok"
    BY <1>1, HeldEvents DEF OnceInv, Routed
  <2>3. \A x \in Events : call'[x] \in {"sending", "ok"} => target'[x] \in 0 .. (handles - 1)
    BY <1>2 DEF OnceInv, Routed
  <2> QED
    BY <1>1, <1>2, <2>1, <2>2, <2>3 DEF Routed
<1>7. OnePlace'
  BY <1>1, <1>2 DEF OnceInv, OnePlace, Survives
<1>8. JoinedInTurn'
  BY <1>1 DEF OnceInv, JoinedInTurn
<1> QED
  BY <1>3, <1>4, <1>5, <1>6, <1>7, <1>8 DEF OnceInv

\* An accepted event was nowhere in the pool before.
LEMMA SendDoneKeepsOnceInv ==
  ASSUME OnceInv, NEW e \in Events, SendDone(e)
  PROVE  OnceInv'
<1> DEFINE w == target[e]
<1>1. /\ call[e] = "sending" /\ worker[w] # "panicked"
      /\ queue' = [queue EXCEPT ![w] = Append(@, e)]
      /\ call' = [call EXCEPT ![e] = "ok"]
      /\ UNCHANGED <<hashing, starts, senders, handles, stop, joined, worker, current, processed,
                     target, next_worker, prior>>
  BY DEF SendDone, poolVars, stopVars, taskVars
<1>2. /\ w \in Workers /\ stop = "no" /\ queue[w] \in Seq(Events)
      /\ worker[w] \in {"recv", "busy"}
  <2>1. w \in Workers /\ worker[w] # "none"
    BY <1>1, TargetIsWorker DEF OnceInv
  <2>2. stop = "no"
    BY <1>1 DEF OnceInv, Routed, Sending
  <2>3. worker[w] # "done"
    BY <2>1, <2>2 DEF OnceInv, Staffed
  <2> QED
    BY <1>1, <2>1, <2>2, <2>3 DEF OnceInv, PoolTypes
<1>3. /\ Append(queue[w], e) \in Seq(Events)
      /\ Range(Append(queue[w], e)) = Range(queue[w]) \cup {e}
  BY <1>2, AppendElements
<1>4. /\ queue' \in [Workers -> Seq(Events)] /\ queue'[w] = Append(queue[w], e)
      /\ \A v \in Workers : v # w => queue'[v] = queue[v]
  BY <1>1, <1>2, <1>3 DEF OnceInv, PoolTypes
<1>5. e \notin Range(processed) /\ \A v \in Workers : e \notin Range(queue[v]) \cup Range(current[v])
  BY <1>1 DEF OnceInv, Routed
<1>6. \A x \in Events : x # e => call'[x] = call[x]
  BY <1>1 DEF OnceInv, PoolTypes
<1>7. call'[e] = "ok" /\ call' \in [Events -> {"idle", "sending", "ok", "err", "panicked"}]
  BY <1>1 DEF OnceInv, PoolTypes
<1> HIDE DEF w
<1>8. PoolTypes'
  BY <1>1, <1>4, <1>7 DEF OnceInv, PoolTypes
<1>9. Staffed'
  BY <1>1 DEF OnceInv, Staffed
<1>10. Occupied'
  BY <1>1, <1>2, <1>4 DEF OnceInv, Occupied
<1>11. Routed'
  <2>1. \A v \in Workers : \A x \in Range(queue'[v]) \cup Range(current[v]) : call'[x] = "ok" /\ target[x] = v
    <3>1. \A v \in Workers : \A x \in Range(queue[v]) \cup Range(current[v]) :
            x \in Events /\ x # e /\ call[x] = "ok" /\ target[x] = v
      BY <1>5, HeldEvents DEF OnceInv, Routed
    <3>2. \A v \in Workers : \A x \in Range(queue'[v]) : x \in Range(queue[v]) \/ (v = w /\ x = e)
      BY <1>3, <1>4
    <3>3. target[e] = w
      BY DEF w
    <3> QED
      BY <1>6, <1>7, <3>1, <3>2, <3>3
  <2>2. \A x \in Range(processed) : call'[x] = "ok"
    BY <1>5, <1>6, RangeOfSeq DEF OnceInv, Routed, PoolTypes
  <2>3. \A x \in Events : call'[x] \in {"sending", "ok"} => target[x] \in 0 .. (handles - 1)
    BY <1>1, <1>6 DEF OnceInv, Routed
  <2> QED
    BY <1>1, <1>2, <2>1, <2>2, <2>3 DEF Routed
<1>12. OnePlace'
  <2>1. IsInjective(Append(queue[w], e))
    BY <1>2, <1>5, AppendDistinct DEF OnceInv, OnePlace
  <2>2. \A v \in Workers : /\ IsInjective(queue'[v])
                           /\ Range(queue'[v]) \cap Range(current[v]) = {}
                           /\ (Range(queue'[v]) \cup Range(current[v])) \cap Range(processed) = {}
    <3>1. \A v \in Workers : /\ IsInjective(queue[v])
                             /\ Range(queue[v]) \cap Range(current[v]) = {}
                             /\ (Range(queue[v]) \cup Range(current[v])) \cap Range(processed) = {}
      BY DEF OnceInv, OnePlace
    <3> TAKE v \in Workers
    <3>2. CASE v = w
      BY <1>2, <1>3, <1>4, <1>5, <2>1, <3>1, <3>2
    <3>3. CASE v # w
      BY <1>4, <3>1, <3>3
    <3> QED
      BY <3>2, <3>3
  <2>3. ASSUME NEW x \in Events, Survives(x)'
        PROVE  x \in Range(queue'[target[x]]) \cup Range(current[target[x]]) \cup Range(processed)
    <3>1. CASE x = e
      BY <1>2, <1>3, <1>4, <3>1 DEF w
    <3>2. CASE x # e
      <4>1. call[x] = "ok" /\ Survives(x)
        BY <1>1, <1>6, <2>3, <3>2 DEF Survives
      <4>2. target[x] \in Workers
        BY <4>1, TargetIsWorker DEF OnceInv
      <4>3. Range(queue[target[x]]) \subseteq Range(queue'[target[x]])
        BY <1>3, <1>4, <4>2
      <4> QED
        BY <4>1, <4>3 DEF OnceInv, OnePlace
    <3> QED
      BY <3>1, <3>2
  <2> QED
    BY <1>1, <2>2, <2>3 DEF OnceInv, OnePlace
<1>13. JoinedInTurn'
  BY <1>1 DEF OnceInv, JoinedInTurn
<1> QED
  BY <1>8, <1>9, <1>10, <1>11, <1>12, <1>13 DEF OnceInv

\* A failed send leaves the pool as it is.
LEMMA SendFailedKeepsOnceInv ==
  ASSUME OnceInv, NEW e \in Events, SendFailed(e)
  PROVE  OnceInv'
<1>1. /\ call[e] = "sending"
      /\ call' = [call EXCEPT ![e] = "err"]
      /\ UNCHANGED <<hashing, starts, senders, handles, stop, joined, worker, current, processed,
                     target, next_worker, prior, queue>>
  BY DEF SendFailed, poolVars, stopVars, taskVars
<1>2. /\ call' \in [Events -> {"idle", "sending", "ok", "err", "panicked"}]
      /\ \A x \in Events : call'[x] = IF x = e THEN "err" ELSE call[x]
  BY <1>1 DEF OnceInv, PoolTypes
<1>3. PoolTypes'
  BY <1>1, <1>2 DEF OnceInv, PoolTypes
<1>4. Staffed' /\ Occupied' /\ JoinedInTurn'
  BY <1>1 DEF OnceInv, Staffed, Occupied, JoinedInTurn
<1>5. Routed'
  <2>1. \A v \in Workers : \A x \in Range(queue[v]) \cup Range(current[v]) :
          x \in Events /\ x # e /\ call[x] = "ok" /\ target[x] = v
    BY <1>1, HeldEvents DEF OnceInv, Routed
  <2>2. \A x \in Range(processed) : x \in Events /\ x # e /\ call[x] = "ok"
    BY <1>1, HeldEvents DEF OnceInv, Routed
  <2>3. /\ \A x \in Events : call'[x] \in {"sending", "ok"} => target[x] \in 0 .. (handles - 1)
        /\ Sending' \subseteq Sending
    BY <1>2 DEF OnceInv, Routed, Sending
  <2> QED
    BY <1>1, <1>2, <2>1, <2>2, <2>3 DEF OnceInv, Routed
<1>6. OnePlace'
  BY <1>1, <1>2 DEF OnceInv, OnePlace, Survives
<1> QED
  BY <1>3, <1>4, <1>5, <1>6 DEF OnceInv

\* A worker takes the head of its channel into its hands.
LEMMA RecvKeepsOnceInv ==
  ASSUME OnceInv, NEW w \in Workers, Recv(w)
  PROVE  OnceInv'
<1> DEFINE h == Head(queue[w])
           q == Tail(queue[w])
<1>1. /\ worker[w] = "recv" /\ queue[w] # <<>>
      /\ worker' = [worker EXCEPT ![w] = "busy"]
      /\ current' = [current EXCEPT ![w] = <<h>>]
      /\ queue' = [queue EXCEPT ![w] = q]
      /\ UNCHANGED <<hashing, starts, senders, handles, stop, joined, processed,
                     call, target, next_worker, prior>>
  BY DEF Recv, poolVars, stopVars, sendVars
<1>2. queue[w] \in Seq(Events) /\ IsInjective(queue[w]) /\ current[w] = <<>>
  BY <1>1 DEF OnceInv, PoolTypes, OnePlace, Occupied
<1>3. h \in Events /\ q \in Seq(Events) /\ Range(queue[w]) = {h} \cup Range(q)
  BY <1>1, <1>2, TailElements
<1>4. IsInjective(q) /\ h \notin Range(q)
  BY <1>1, <1>2, TailDistinct
<1> HIDE DEF h, q
<1>5. /\ queue' \in [Workers -> Seq(Events)] /\ current' \in [Workers -> Seq(Events)]
      /\ worker' \in [Workers -> {"none", "recv", "busy", "done", "panicked"}]
      /\ queue'[w] = q /\ current'[w] = <<h>> /\ worker'[w] = "busy"
      /\ \A v \in Workers : v # w => queue'[v] = queue[v] /\ current'[v] = current[v]
                                     /\ worker'[v] = worker[v]
  BY <1>1, <1>3 DEF OnceInv, PoolTypes
<1>6. Range(current'[w]) = {h} /\ Range(current[w]) = {}
  <2>1. Range(<<h>>) = {h} /\ Range(<<>>) = {}
    BY DEF Range
  <2> QED
    BY <1>2, <1>5, <2>1
<1>7. PoolTypes'
  BY <1>1, <1>5 DEF OnceInv, PoolTypes
<1>8. Staffed' /\ JoinedInTurn'
  BY <1>1, <1>5 DEF OnceInv, Staffed, JoinedInTurn
<1>9. Occupied'
  BY <1>3, <1>5 DEF OnceInv, Occupied
<1>10. \A v \in Workers : Range(queue'[v]) \cup Range(current'[v]) = Range(queue[v]) \cup Range(current[v])
  BY <1>3, <1>5, <1>6
<1>11. Routed'
  BY <1>1, <1>10 DEF OnceInv, Routed, Sending
<1>12. OnePlace'
  <2>1. ASSUME NEW v \in Workers
        PROVE  IsInjective(queue'[v]) /\ Range(queue'[v]) \cap Range(current'[v]) = {}
    <3>1. CASE v = w
      BY <1>4, <1>5, <1>6, <3>1
    <3>2. CASE v # w
      BY <1>5, <3>2 DEF OnceInv, OnePlace
    <3> QED
      BY <3>1, <3>2
  <2>2. \A v \in Workers : (Range(queue'[v]) \cup Range(current'[v])) \cap Range(processed) = {}
    BY <1>10 DEF OnceInv, OnePlace
  <2>3. ASSUME NEW e \in Events, Survives(e)'
        PROVE  e \in Range(queue'[target[e]]) \cup Range(current'[target[e]]) \cup Range(processed)
    <3>1. call[e] = "ok" /\ target[e] \in Workers
      BY <1>1, <2>3, TargetIsWorker DEF Survives, OnceInv
    <3>2. Survives(e)
      BY <1>1, <1>5, <2>3, <3>1 DEF Survives
    <3> QED
      BY <1>10, <3>1, <3>2 DEF OnceInv, OnePlace
  <2> QED
    BY <1>1, <2>1, <2>2, <2>3 DEF OnceInv, OnePlace
<1> QED
  BY <1>7, <1>8, <1>9, <1>11, <1>12 DEF OnceInv

\* What a worker is done with leaves its hands and is processed.
LEMMA ProcessedKeepsOnceInv ==
  ASSUME OnceInv, NEW w \in Workers, Processed(w)
  PROVE  OnceInv'
<1>1. /\ worker[w] = "busy"
      /\ worker' = [worker EXCEPT ![w] = "recv"]
      /\ current' = [current EXCEPT ![w] = <<>>]
      /\ processed' = processed \o current[w]
      /\ UNCHANGED <<hashing, starts, senders, handles, stop, joined, queue,
                     call, target, next_worker, prior>>
  BY DEF Processed, poolVars, stopVars, sendVars
<1>2. PICK h \in Events : current[w] = <<h>>
  BY <1>1 DEF OnceInv, Occupied
<1>3. processed \in Seq(Events) /\ processed' = Append(processed, h)
  BY <1>1, <1>2, AppendIsConcat DEF OnceInv, PoolTypes
<1>4. processed' \in Seq(Events) /\ Range(processed') = Range(processed) \cup {h}
  BY <1>3, AppendElements
<1>5. /\ current' \in [Workers -> Seq(Events)]
      /\ worker' \in [Workers -> {"none", "recv", "busy", "done", "panicked"}]
      /\ current'[w] = <<>> /\ worker'[w] = "recv"
      /\ \A v \in Workers : v # w => current'[v] = current[v] /\ worker'[v] = worker[v]
  BY <1>1 DEF OnceInv, PoolTypes
<1>6. Range(current[w]) = {h} /\ Range(current'[w]) = {}
  <2>1. Range(<<h>>) = {h} /\ Range(<<>>) = {}
    BY DEF Range
  <2> QED
    BY <1>2, <1>5, <2>1
<1>7. call[h] = "ok" /\ target[h] = w
  BY <1>6 DEF OnceInv, Routed
<1>8. PoolTypes'
  BY <1>1, <1>4, <1>5 DEF OnceInv, PoolTypes
<1>9. Staffed' /\ JoinedInTurn'
  BY <1>1, <1>5 DEF OnceInv, Staffed, JoinedInTurn
<1>10. Occupied'
  BY <1>1, <1>5 DEF OnceInv, Occupied
<1>11. \A v \in Workers : Range(current'[v]) \subseteq Range(current[v])
  BY <1>5, <1>6
<1>12. Routed'
  <2>1. \A v \in Workers : \A e \in Range(queue[v]) \cup Range(current'[v]) :
          call[e] = "ok" /\ target[e] = v
    BY <1>11 DEF OnceInv, Routed
  <2>2. \A e \in Range(processed') : call[e] = "ok"
    BY <1>4, <1>7 DEF OnceInv, Routed
  <2> QED
    BY <1>1, <2>1, <2>2 DEF OnceInv, Routed, Sending
<1>13. OnePlace'
  <2>1. h \notin Range(processed)
    BY <1>6 DEF OnceInv, OnePlace
  <2>2. IsInjective(processed')
    BY <1>3, <2>1, AppendDistinct DEF OnceInv, OnePlace
  <2>3. \A v \in Workers : h \notin Range(queue[v]) /\ h \notin Range(current'[v])
    <3> TAKE v \in Workers
    <3>1. CASE v = w
      BY <1>6, <3>1 DEF OnceInv, OnePlace
    <3>2. CASE v # w
      BY <1>5, <1>7, <3>2 DEF OnceInv, Routed
    <3> QED
      BY <3>1, <3>2
  <2>4. ASSUME NEW v \in Workers
        PROVE  /\ IsInjective(queue[v]) /\ Range(queue[v]) \cap Range(current'[v]) = {}
               /\ (Range(queue[v]) \cup Range(current'[v])) \cap Range(processed') = {}
    <3>1. /\ IsInjective(queue[v]) /\ Range(queue[v]) \cap Range(current[v]) = {}
          /\ (Range(queue[v]) \cup Range(current[v])) \cap Range(processed) = {}
      BY DEF OnceInv, OnePlace
    <3> QED
      BY <1>4, <1>11, <2>3, <3>1
  <2>5. ASSUME NEW e \in Events, Survives(e)'
        PROVE  e \in Range(queue[target[e]]) \cup Range(current'[target[e]]) \cup Range(processed')
    <3>1. call[e] = "ok" /\ target[e] \in Workers
      BY <1>1, <2>5, TargetIsWorker DEF Survives, OnceInv
    <3>2. Survives(e)
      BY <1>1, <1>5, <2>5, <3>1 DEF Survives
    <3>3. e \in Range(queue[target[e]]) \cup Range(current[target[e]]) \cup Range(processed)
      BY <3>2 DEF OnceInv, OnePlace
    <3> QED
      BY <1>4, <1>5, <1>6, <3>1, <3>3
  <2> QED
    BY <1>1, <2>2, <2>4, <2>5 DEF OnePlace
<1> QED
  BY <1>8, <1>9, <1>10, <1>12, <1>13 DEF OnceInv

\* A panic takes the event in hand and the channel away, and nothing else.
LEMMA PanicKeepsOnceInv ==
  ASSUME OnceInv, NEW w \in Workers, Panic(w)
  PROVE  OnceInv'
<1>1. /\ worker[w] = "busy"
      /\ worker' = [worker EXCEPT ![w] = "panicked"]
      /\ current' = [current EXCEPT ![w] = <<>>]
      /\ queue' = [queue EXCEPT ![w] = <<>>]
      /\ UNCHANGED <<hashing, starts, senders, handles, stop, joined, processed,
                     call, target, next_worker, prior>>
  BY DEF Panic, poolVars, stopVars, sendVars
<1>2. <<>> \in Seq(Events) /\ Range(<<>>) = {} /\ IsInjective(<<>>)
  BY DEF Range, IsInjective
<1>3. /\ queue' \in [Workers -> Seq(Events)] /\ current' \in [Workers -> Seq(Events)]
      /\ worker' \in [Workers -> {"none", "recv", "busy", "done", "panicked"}]
      /\ queue'[w] = <<>> /\ current'[w] = <<>> /\ worker'[w] = "panicked"
      /\ \A v \in Workers : v # w => queue'[v] = queue[v] /\ current'[v] = current[v]
                                     /\ worker'[v] = worker[v]
  BY <1>1, <1>2 DEF OnceInv, PoolTypes
<1>4. PoolTypes'
  BY <1>1, <1>3 DEF OnceInv, PoolTypes
<1>5. Staffed' /\ JoinedInTurn'
  BY <1>1, <1>3 DEF OnceInv, Staffed, JoinedInTurn
<1>6. Occupied'
  BY <1>3 DEF OnceInv, Occupied
<1>7. Routed'
  BY <1>1, <1>2, <1>3 DEF OnceInv, Routed, Sending
<1>8. OnePlace'
  <2>1. ASSUME NEW v \in Workers
        PROVE  /\ IsInjective(queue'[v]) /\ Range(queue'[v]) \cap Range(current'[v]) = {}
               /\ (Range(queue'[v]) \cup Range(current'[v])) \cap Range(processed) = {}
    <3>1. CASE v = w
      BY <1>2, <1>3, <3>1
    <3>2. CASE v # w
      BY <1>3, <3>2 DEF OnceInv, OnePlace
    <3> QED
      BY <3>1, <3>2
  <2>2. ASSUME NEW e \in Events, Survives(e)'
        PROVE  e \in Range(queue'[target[e]]) \cup Range(current'[target[e]]) \cup Range(processed)
    <3>1. call[e] = "ok" /\ target[e] \in Workers
      BY <1>1, <2>2, TargetIsWorker DEF Survives, OnceInv
    <3>2. target[e] # w /\ Survives(e)
      BY <1>1, <1>3, <2>2, <3>1 DEF Survives
    <3> QED
      BY <1>3, <3>1, <3>2 DEF OnceInv, OnePlace
  <2> QED
    BY <1>1, <2>1, <2>2 DEF OnceInv, OnePlace
<1> QED
  BY <1>4, <1>5, <1>6, <1>7, <1>8 DEF OnceInv

\* A worker that ends has drained its channel.
LEMMA ExitKeepsOnceInv ==
  ASSUME OnceInv, NEW w \in Workers, Exit(w)
  PROVE  OnceInv'
<1>1. /\ worker[w] = "recv" /\ stop # "no" /\ queue[w] = <<>>
      /\ worker' = [worker EXCEPT ![w] = "done"]
      /\ UNCHANGED <<hashing, starts, senders, handles, stop, joined, processed, current, queue,
                     call, target, next_worker, prior>>
  BY DEF Exit, poolVars, stopVars, sendVars
<1>2. /\ worker' \in [Workers -> {"none", "recv", "busy", "done", "panicked"}]
      /\ worker'[w] = "done" /\ \A v \in Workers : v # w => worker'[v] = worker[v]
  BY <1>1 DEF OnceInv, PoolTypes
<1>3. PoolTypes'
  BY <1>1, <1>2 DEF OnceInv, PoolTypes
<1>4. Staffed' /\ JoinedInTurn'
  BY <1>1, <1>2 DEF OnceInv, Staffed, JoinedInTurn
<1>5. Occupied'
  BY <1>1, <1>2 DEF OnceInv, Occupied
<1>6. Routed'
  BY <1>1 DEF OnceInv, Routed, Sending
<1>7. OnePlace'
  <2>1. ASSUME NEW e \in Events, Survives(e)' PROVE Survives(e)
    <3>1. call[e] = "ok" /\ target[e] \in Workers
      BY <1>1, <2>1, TargetIsWorker DEF Survives, OnceInv
    <3> QED
      BY <1>1, <1>2, <2>1, <3>1 DEF Survives
  <2> QED
    BY <1>1, <2>1 DEF OnceInv, OnePlace
<1> QED
  BY <1>3, <1>4, <1>5, <1>6, <1>7 DEF OnceInv

\* stop clears the senders and joins the workers in turn.
LEMMA StopKeepsOnceInv ==
  ASSUME OnceInv, StopBegin \/ Stop
  PROVE  OnceInv'
<1>1. /\ stop' # "no"
      /\ UNCHANGED <<hashing, starts, handles, worker, current, processed, next_worker, call, target,
                     prior, queue>>
      /\ senders' = 0
  BY DEF StopBegin, Stop, StopJoin, StopDone, poolVars, taskVars, sendVars, OnceInv, Staffed
<1>2. /\ stop' \in {"no", "joining", "ok", "err"} /\ joined' \in 0 .. handles
      /\ Sending = {}
  BY DEF StopBegin, Stop, StopJoin, StopDone, OnceInv, PoolTypes, Routed
<1>3. PoolTypes'
  BY <1>1, <1>2 DEF OnceInv, PoolTypes
<1>4. Staffed' /\ Occupied' /\ OnePlace'
  BY <1>1 DEF OnceInv, Staffed, Occupied, OnePlace, Survives
<1>5. Routed'
  BY <1>1, <1>2 DEF OnceInv, Routed, Sending
<1>6. JoinedInTurn'
  <2>1. CASE StopBegin
    <3>1. joined' = 0 /\ stop' = "joining"
      BY <2>1 DEF StopBegin, OnceInv, JoinedInTurn
    <3> QED
      BY <1>1, <3>1, WorkerNumbers DEF JoinedInTurn
  <2>2. CASE StopJoin
    <3>1. stop = "joining" /\ joined < handles /\ joined' = joined + 1 /\ joined \in Nat
      BY <2>2 DEF StopJoin, OnceInv, PoolTypes
    <3>2. stop' # "ok" /\ (stop' = "joining" => worker[joined] = "done")
      BY <2>2 DEF StopJoin
    <3>3. stop' = "joining" => \A w \in Workers : w < joined' => worker[w] = "done"
      BY <3>1, <3>2, WorkerNumbers DEF OnceInv, JoinedInTurn
    <3> QED
      BY <1>1, <3>2, <3>3 DEF JoinedInTurn
  <2>3. CASE StopDone
    BY <1>1, <2>3 DEF StopDone, OnceInv, JoinedInTurn
  <2> QED
    BY <2>1, <2>2, <2>3 DEF Stop
<1> QED
  BY <1>3, <1>4, <1>5, <1>6 DEF OnceInv

\* OnceInv holds of a pool that is not started yet.
LEMMA InitOnceInv ==
  ASSUME Init
  PROVE  OnceInv
<1>1. Range(<<>>) = {} /\ IsInjective(<<>>) /\ <<>> \in Seq(Events)
  BY DEF Range, IsInjective
<1>2. PoolTypes
  BY <1>1, WorkerNumbers, PoolConstants DEF Init, PoolTypes
<1>3. Staffed
  <2>1. handles = 0 /\ starts = 0 /\ senders = 0 /\ worker = [w \in Workers |-> "none"]
    BY DEF Init
  <2>2. 0 * NumWorkers = 0 /\ 0 <= NotSent
    BY WorkerNumbers
  <2> QED
    BY <2>1, <2>2, WorkerNumbers DEF Staffed, NotSent
<1>4. Occupied /\ JoinedInTurn
  BY DEF Init, Occupied, JoinedInTurn
<1>5. Routed
  BY <1>1 DEF Init, Routed, Sending
<1>6. OnePlace
  BY <1>1 DEF Init, OnePlace, Survives
<1> QED
  BY <1>2, <1>3, <1>4, <1>5, <1>6 DEF OnceInv

\* OnceInv is about the state only.
LEMMA UnchangedKeepsOnceInv ==
  ASSUME OnceInv, UNCHANGED vars
  PROVE  OnceInv'
<1> USE DEF vars, poolVars, stopVars, taskVars, sendVars
<1>1. PoolTypes' /\ Staffed' /\ JoinedInTurn'
  BY DEF OnceInv, PoolTypes, Staffed, JoinedInTurn
<1>2. Occupied'
  BY DEF OnceInv, Occupied
<1>3. Routed'
  BY DEF OnceInv, Routed, Sending
<1>4. OnePlace'
  BY DEF OnceInv, OnePlace, Survives
<1> QED
  BY <1>1, <1>2, <1>3, <1>4 DEF OnceInv

\* OnceInv is kept by every step.
LEMMA StepKeepsOnceInv ==
  ASSUME OnceInv, [Next]_vars
  PROVE  OnceInv'
<1>1. CASE Next
  <2>1. CASE Rest
    BY <2>1, UnchangedKeepsOnceInv DEF Rest
  <2> QED
    BY <1>1, <2>1, StartKeepsOnceInv, SendKeepsOnceInv, SendDoneKeepsOnceInv, SendFailedKeepsOnceInv,
       RecvKeepsOnceInv, ProcessedKeepsOnceInv, PanicKeepsOnceInv, ExitKeepsOnceInv, StopKeepsOnceInv
       DEF Next, SendCall, Task
<1>2. CASE UNCHANGED vars
  BY <1>2, UnchangedKeepsOnceInv
<1> QED
  BY <1>1, <1>2

\* OnceInv always holds: every worker has its events in order, each in one place.
THEOREM PoolInvariant == Spec => []OnceInv
BY InitOnceInv, StepKeepsOnceInv, PTL DEF Spec

-----------------------------------------------------------------------------
(* Once                                                                    *)

\* OnceInv says where an accepted event is, and that a stop that succeeded found every
\* worker ended with nothing left.
LEMMA OnceInvImpliesAcceptedOnce ==
  ASSUME OnceInv
  PROVE  AcceptedOnce
<1>1. ASSUME NEW e \in Events, Survives(e)
      PROVE  HoldsOnce(queue[target[e]] \o current[target[e]] \o processed, e)
  <2> DEFINE w == target[e]
             q == queue[w]
             c == current[w]
             p == processed
  <2>1. w \in Workers
    BY <1>1, TargetIsWorker DEF Survives, OnceInv
  <2>2. q \in Seq(Events) /\ c \in Seq(Events) /\ p \in Seq(Events)
    BY <2>1 DEF OnceInv, PoolTypes
  <2>3. /\ IsInjective(q) /\ IsInjective(p)
        /\ Range(q) \cap Range(c) = {} /\ (Range(q) \cup Range(c)) \cap Range(p) = {}
        /\ e \in Range(q) \cup Range(c) \cup Range(p)
    BY <1>1, <2>1 DEF OnceInv, OnePlace
  <2>4. IsInjective(c)
    <3>1. c = <<>> \/ \E x \in Events : c = <<x>>
      BY <2>1 DEF OnceInv, Occupied
    <3> QED
      BY <3>1 DEF IsInjective
  <2> HIDE DEF w, q, c, p
  <2>5. /\ e \in Range(q) => HoldsOnce(q, e)
        /\ e \in Range(c) => HoldsOnce(c, e)
        /\ e \in Range(p) => HoldsOnce(p, e)
    BY <2>3, <2>4, DistinctHoldsOnce
  <2>6. /\ q \o c \in Seq(Events)
        /\ e \notin Range(q) /\ e \notin Range(c) => e \notin Range(q \o c)
        /\ e \in Range(q) \cup Range(c) => HoldsOnce(q \o c, e)
    BY <2>2, <2>3, <2>5, ConcatElements
  <2>7. HoldsOnce((q \o c) \o p, e)
    BY <2>2, <2>3, <2>5, <2>6, ConcatElements
  <2> QED
    BY <2>7 DEF q, c, p, w
<1>2. ASSUME stop = "ok", NEW e \in Events, call[e] = "ok"
      PROVE  e \in Range(processed)
  <2>1. target[e] \in Workers /\ target[e] < handles
    BY <1>2, TargetIsWorker DEF OnceInv, Routed, PoolTypes
  <2>2. worker[target[e]] = "done"
    BY <1>2, <2>1 DEF OnceInv, JoinedInTurn
  <2>3. queue[target[e]] = <<>> /\ current[target[e]] = <<>>
    BY <2>1, <2>2 DEF OnceInv, Occupied
  <2>4. Range(<<>>) = {}
    BY DEF Range
  <2> QED
    BY <1>2, <2>2, <2>3, <2>4 DEF OnceInv, OnePlace, Survives
<1> QED
  BY <1>1, <1>2 DEF AcceptedOnce, HoldsOnce

\* AcceptedOnce for every pool: what send accepted (WorkerPool::send and send_to,
\* HashingWorkerPool::send) is in its worker's channel, in its hands or processed, in one
\* of the three; and after a stop that returned Ok all of it is processed.
THEOREM AcceptedProcessedOnce == Spec => []AcceptedOnce
BY PoolInvariant, OnceInvImpliesAcceptedOnce, PTL

-----------------------------------------------------------------------------
(* In order                                                                *)

\* A worker is chosen by the hash of the routing key alone while the number of workers
\* does not change.
LEMMA StepKeepsHashed ==
  ASSUME OnceInv, Hashed, [Next]_vars
  PROVE  Hashed'
<1> USE DEF poolVars, stopVars, taskVars, sendVars
<1>1. CASE Start
  <2>1. starts' = starts + 1 /\ UNCHANGED <<call, target>> /\ starts \in Nat
    BY <1>1 DEF Start, OnceInv, PoolTypes
  <2>2. ASSUME starts' = 1, NEW e \in Events PROVE call[e] \notin {"sending", "ok"}
    <3>1. handles = 0
      BY <2>1, <2>2, WorkerNumbers DEF OnceInv, Staffed
    <3> QED
      BY <3>1 DEF OnceInv, Routed
  <2> QED
    BY <2>1, <2>2 DEF Hashed
<1>2. ASSUME NEW e \in Events, Send(e) PROVE Hashed'
  <2>1. UNCHANGED <<hashing, starts, senders>> /\ stop = "no" /\ call[e] = "idle"
    BY <1>2 DEF Send
  <2>2. ASSUME hashing, starts = 1, senders # 0
        PROVE  Route(e) = Hash[RoutingKey(e)] % NumWorkers
    BY <2>1, <2>2, WorkerNumbers DEF OnceInv, Staffed, Route
  <2>3. CASE senders = 0
    BY <1>2, <2>1, <2>3 DEF Send, Hashed, OnceInv, PoolTypes
  <2>4. CASE senders # 0
    <3>1. call' = [call EXCEPT ![e] = "sending"] /\ target' = [target EXCEPT ![e] = Route(e)]
      BY <1>2, <2>4 DEF Send
    <3>2. \A x \in Events : /\ call'[x] = IF x = e THEN "sending" ELSE call[x]
                            /\ target'[x] = IF x = e THEN Route(e) ELSE target[x]
      BY <3>1 DEF OnceInv, PoolTypes
    <3> QED
      BY <2>1, <2>2, <2>4, <3>2 DEF Hashed, RoutingKey
  <2> QED
    BY <2>3, <2>4
<1>3. ASSUME NEW e \in Events, SendCall(e) PROVE Hashed'
  <2>1. /\ UNCHANGED <<hashing, starts, target>> /\ call[e] = "sending"
        /\ \A x \in Events : x # e => call'[x] = call[x]
    BY <1>3 DEF SendCall, SendDone, SendFailed, OnceInv, PoolTypes
  <2> QED
    BY <2>1 DEF Hashed, RoutingKey
<1>4. ASSUME NEW w \in Workers, Task(w) PROVE Hashed'
  <2>1. UNCHANGED <<hashing, starts, target, call>>
    BY <1>4 DEF Task, Recv, Processed, Panic, Exit
  <2> QED
    BY <2>1 DEF Hashed, RoutingKey
<1>5. CASE StopBegin \/ Stop \/ Rest \/ UNCHANGED vars
  <2>1. UNCHANGED <<hashing, starts, target, call>>
    BY <1>5 DEF StopBegin, Stop, StopJoin, StopDone, Rest, vars
  <2> QED
    BY <2>1 DEF Hashed, RoutingKey
<1> QED
  BY <1>1, <1>2, <1>3, <1>4, <1>5 DEF Next

\* A step that moves no event, and lets no event survive that did not, keeps the order.
LEMMA NothingMovedKeepsOrder ==
  ASSUME OrderInv, UNCHANGED <<queue, current, processed, call, target, prior>>,
         \A x \in Events : Survives(x)' => Survives(x),
         PoolTypes
  PROVE  OrderInv'
<1> SUFFICES ASSUME NEW e \in Events, NEW x \in prior[e]
             PROVE  /\ x # e /\ call[x] = "ok" /\ call[e] # "idle"
                    /\ call[e] = "ok" /\ Survives(x)' /\ target[x] = target[e] => Ahead(x, e)'
  BY DEF OrderInv
<1>1. x \in Events
  BY DEF PoolTypes
<1>2. Ahead(x, e)' <=> Ahead(x, e)
  BY DEF Ahead
<1> QED
  BY <1>1, <1>2 DEF OrderInv

\* OrderInv is kept by the sends.
LEMMA SendsKeepOrder ==
  ASSUME OnceInv, OrderInv, NEW a \in Events, Send(a) \/ SendCall(a)
  PROVE  OrderInv'
<1> USE DEF poolVars, stopVars, taskVars, sendVars
<1>0. \A e \in Events : prior[e] \subseteq Events
  BY DEF OnceInv, PoolTypes
<1>1. CASE Send(a)
  <2>1. /\ call[a] = "idle" /\ UNCHANGED <<worker, queue, current, processed>>
        /\ \A x \in Events : x # a => call'[x] = call[x] /\ target'[x] = target[x] /\ prior'[x] = prior[x]
        /\ call'[a] \in {"sending", "err", "panicked"}
        /\ prior'[a] = {x \in Events : call[x] = "ok"}
    BY <1>1 DEF Send, OnceInv, PoolTypes
  <2> SUFFICES ASSUME NEW e \in Events, NEW x \in prior'[e]
               PROVE  /\ x # e /\ call'[x] = "ok" /\ call'[e] # "idle"
                      /\ call'[e] = "ok" /\ Survives(x)' /\ target'[x] = target'[e] => Ahead(x, e)'
    BY DEF OrderInv
  <2>2. CASE e = a
    BY <2>1, <2>2
  <2>3. CASE e # a
    <3>1. x \in prior[e] /\ x \in Events /\ call[x] = "ok" /\ x # a /\ x # e
      BY <1>0, <2>1, <2>3 DEF OrderInv
    <3>2. Survives(x)' <=> Survives(x)
      BY <2>1, <3>1 DEF Survives
    <3>3. Ahead(x, e)' <=> Ahead(x, e)
      BY <2>1, <2>3 DEF Ahead
    <3> QED
      BY <2>1, <2>3, <3>1, <3>2, <3>3 DEF OrderInv
  <2> QED
    BY <2>2, <2>3
<1>2. CASE SendFailed(a)
  <2>1. /\ call[a] = "sending" /\ UNCHANGED <<worker, queue, current, processed, target, prior>>
        /\ \A x \in Events : call'[x] = IF x = a THEN "err" ELSE call[x]
    BY <1>2 DEF SendFailed, OnceInv, PoolTypes
  <2> SUFFICES ASSUME NEW e \in Events, NEW x \in prior[e]
               PROVE  /\ x # e /\ call'[x] = "ok" /\ call'[e] # "idle"
                      /\ call'[e] = "ok" /\ Survives(x)' /\ target[x] = target[e] => Ahead(x, e)'
    BY <2>1 DEF OrderInv
  <2>2. x \in Events /\ call[x] = "ok" /\ x # a /\ x # e
    BY <1>0, <2>1 DEF OrderInv
  <2>3. Survives(x)' <=> Survives(x)
    BY <2>1, <2>2 DEF Survives
  <2>4. Ahead(x, e)' <=> Ahead(x, e)
    BY <2>1 DEF Ahead
  <2> QED
    BY <2>1, <2>2, <2>3, <2>4 DEF OrderInv
<1>3. CASE SendDone(a)
  <2> DEFINE w == target[a]
  <2>1. /\ call[a] = "sending" /\ UNCHANGED <<worker, current, processed, target, prior>>
        /\ \A x \in Events : call'[x] = IF x = a THEN "ok" ELSE call[x]
        /\ queue' = [queue EXCEPT ![w] = Append(@, a)]
    BY <1>3 DEF SendDone, OnceInv, PoolTypes
  <2>2. w \in Workers /\ queue[w] \in Seq(Events)
    BY <2>1, TargetIsWorker DEF OnceInv, PoolTypes
  <2>3. queue'[w] = Append(queue[w], a) /\ \A v \in Workers : v # w => queue'[v] = queue[v]
    BY <2>1, <2>2 DEF OnceInv, PoolTypes
  <2>4. Range(Append(queue[w], a)) = Range(queue[w]) \cup {a}
    BY <2>2, AppendElements
  <2>5. a \notin Range(processed) /\ \A v \in Workers : a \notin Range(queue[v]) /\ a \notin Range(current[v])
    BY <2>1 DEF OnceInv, Routed
  <2> SUFFICES ASSUME NEW e \in Events, NEW x \in prior[e]
               PROVE  /\ x # e /\ call'[x] = "ok" /\ call'[e] # "idle"
                      /\ call'[e] = "ok" /\ Survives(x)' /\ target[x] = target[e] => Ahead(x, e)'
    BY <2>1 DEF OrderInv
  <2>6. x \in Events /\ call[x] = "ok" /\ x # a /\ x # e /\ call[e] # "idle"
    BY <1>0, <2>1 DEF OrderInv
  <2>7. Survives(x)' <=> Survives(x)
    BY <2>1, <2>6 DEF Survives
  <2>8. ASSUME call'[e] = "ok", Survives(x), target[x] = target[e] PROVE Ahead(x, e)'
    <3>1. CASE e = a
      <4>1. x \in Range(queue[w]) \cup Range(current[w]) \cup Range(processed)
        BY <2>6, <2>8, <3>1 DEF OnceInv, OnePlace
      <4>2. Precedes(queue[w], x, a)
        BY <2>2, <2>5 DEF Precedes, Range
      <4>3. Precedes(Append(queue[w], a), x, a)
        BY <2>2, <2>6, <4>2, AppendPrecedes
      <4> QED
        BY <2>1, <2>2, <2>3, <2>4, <2>5, <3>1, <4>1, <4>3 DEF Ahead
    <3>2. CASE e # a
      <4>1. call[e] = "ok" /\ Ahead(x, e) /\ target[e] \in Workers
        BY <2>1, <2>8, <3>2, TargetIsWorker DEF OrderInv, OnceInv
      <4>2. CASE target[e] # w
        BY <2>1, <2>3, <4>1, <4>2 DEF Ahead
      <4>3. CASE target[e] = w
        <5>1. Precedes(queue[w], x, e) => Precedes(Append(queue[w], a), x, e)
          BY <2>2, <2>6, AppendPrecedes
        <5> QED
          BY <2>1, <2>3, <2>4, <3>2, <4>1, <4>3, <5>1 DEF Ahead
      <4> QED
        BY <4>2, <4>3
    <3> QED
      BY <3>1, <3>2
  <2> QED
    BY <2>1, <2>6, <2>7, <2>8
<1> QED
  BY <1>1, <1>2, <1>3 DEF SendCall

\* OrderInv is kept by the workers.
LEMMA TasksKeepOrder ==
  ASSUME OnceInv, OrderInv, NEW w \in Workers, Task(w)
  PROVE  OrderInv'
<1> USE DEF poolVars, stopVars, taskVars, sendVars
<1>0. UNCHANGED <<call, target, prior>>
  BY DEF Task, Recv, Processed, Panic, Exit
<1>1. \A x \in Events : Survives(x)' => Survives(x)
  <2>1. \A v \in Workers : worker[v] = "panicked" => worker'[v] = "panicked"
    BY DEF Task, Recv, Processed, Panic, Exit, OnceInv, PoolTypes
  <2> SUFFICES ASSUME NEW x \in Events, call[x] = "ok", worker'[target[x]] # "panicked"
               PROVE  worker[target[x]] # "panicked"
    BY <1>0 DEF Survives
  <2>2. target[x] \in Workers
    BY TargetIsWorker DEF OnceInv
  <2> QED
    BY <2>1, <2>2
<1>2. SUFFICES ASSUME NEW e \in Events, NEW x \in Events, x \in prior[e], call[e] = "ok", x # e,
                      call[x] = "ok", Survives(x)', Survives(x), target[x] = target[e], Ahead(x, e)
               PROVE  Ahead(x, e)'
  BY <1>0, <1>1 DEF OrderInv, OnceInv, PoolTypes
<1>3. target[e] \in Workers
  BY <1>2, TargetIsWorker DEF OnceInv
<1>4. CASE Recv(w)
  <2> DEFINE h == Head(queue[w])
             q == Tail(queue[w])
  <2>1. /\ queue[w] # <<>> /\ queue[w] \in Seq(Events) /\ UNCHANGED processed /\ current[w] = <<>>
        /\ queue'[w] = q /\ current'[w] = <<h>>
        /\ \A v \in Workers : v # w => queue'[v] = queue[v] /\ current'[v] = current[v]
    BY <1>4 DEF Recv, OnceInv, PoolTypes, Occupied
  <2>2. Range(queue[w]) = {h} \cup Range(q)
    BY <2>1, TailElements
  <2>3. Precedes(queue[w], x, e) => Precedes(q, x, e) /\ (h = e => x \notin Range(q))
    BY <2>1, <1>2, TailPrecedes
  <2>4. h \notin Range(q)
    BY <2>1, TailDistinct DEF OnceInv, OnePlace
  <2> HIDE DEF h, q
  <2>5. Range(<<h>>) = {h} /\ Range(<<>>) = {}
    BY DEF Range
  <2>6. CASE target[e] # w
    BY <1>0, <1>2, <1>3, <2>1, <2>6 DEF Ahead
  <2>7. CASE target[e] = w
    <3>1. e \in Range(processed) => x \in Range(processed) /\ Precedes(processed, x, e)
      BY <1>2 DEF Ahead
    <3>2. h = e => x \in Range(processed)
      BY <1>2, <2>1, <2>2, <2>3, <2>5, <2>7 DEF Ahead
    <3>3. e \in Range(q) => \/ x \in Range(processed) \cup {h}
                            \/ x \in Range(q) /\ Precedes(q, x, e)
      BY <1>2, <2>1, <2>2, <2>3, <2>5, <2>7 DEF Ahead
    <3> QED
      BY <1>0, <2>1, <2>5, <2>7, <3>1, <3>2, <3>3 DEF Ahead
  <2> QED
    BY <2>6, <2>7
<1>5. CASE Processed(w)
  <2>1. /\ worker[w] = "busy" /\ UNCHANGED queue /\ current'[w] = <<>>
        /\ \A v \in Workers : v # w => current'[v] = current[v]
        /\ processed' = processed \o current[w]
    BY <1>5 DEF Processed, OnceInv, PoolTypes
  <2>2. PICK h \in Events : current[w] = <<h>>
    BY <2>1 DEF OnceInv, Occupied
  <2>3. processed \in Seq(Events) /\ processed' = Append(processed, h)
    BY <2>1, <2>2, AppendIsConcat DEF OnceInv, PoolTypes
  <2>4. Range(processed') = Range(processed) \cup {h}
    BY <2>3, AppendElements
  <2>5. Range(<<h>>) = {h} /\ Range(<<>>) = {}
    BY DEF Range
  <2>6. target[h] = w /\ h \notin Range(processed)
    BY <2>2, <2>5 DEF OnceInv, Routed, OnePlace
  <2>7. ASSUME e \in Range(processed') PROVE x \in Range(processed') /\ Precedes(processed', x, e)
    <3>1. CASE e = h
      <4>1. x \in Range(processed)
        BY <1>2, <2>2, <2>5, <2>6, <3>1 DEF Ahead
      <4>2. Precedes(processed, x, e)
        BY <2>3, <2>6, <3>1 DEF Precedes, Range
      <4>3. Precedes(Append(processed, h), x, e)
        BY <1>2, <2>3, <3>1, <4>2, AppendPrecedes
      <4> QED
        BY <2>3, <2>4, <4>1, <4>3
    <3>2. CASE e # h
      <4>1. x \in Range(processed) /\ Precedes(processed, x, e)
        BY <1>2, <2>4, <2>7, <3>2 DEF Ahead
      <4>2. h # x
        BY <2>6, <4>1
      <4>3. Precedes(Append(processed, h), x, e)
        BY <1>2, <2>3, <4>1, <4>2, AppendPrecedes
      <4> QED
        BY <2>3, <2>4, <4>1, <4>3
    <3> QED
      BY <3>1, <3>2
  <2>8. CASE target[e] # w
    BY <1>0, <1>2, <1>3, <2>1, <2>4, <2>7, <2>8 DEF Ahead
  <2>9. CASE target[e] = w
    <3>1. e \in Range(queue[w]) => \/ x \in Range(processed')
                                   \/ x \in Range(queue[w]) /\ Precedes(queue[w], x, e)
      BY <1>2, <2>2, <2>4, <2>5, <2>9 DEF Ahead
    <3> QED
      BY <1>0, <2>1, <2>5, <2>7, <2>9, <3>1 DEF Ahead
  <2> QED
    BY <2>8, <2>9
<1>6. CASE Panic(w)
  <2>1. /\ UNCHANGED processed /\ worker'[w] = "panicked"
        /\ \A v \in Workers : v # w => queue'[v] = queue[v] /\ current'[v] = current[v]
    BY <1>6 DEF Panic, OnceInv, PoolTypes
  <2>2. target[e] # w
    BY <1>0, <1>2, <2>1 DEF Survives
  <2> QED
    BY <1>0, <1>2, <1>3, <2>1, <2>2 DEF Ahead
<1>7. CASE Exit(w)
  <2>1. UNCHANGED <<queue, current, processed>>
    BY <1>7 DEF Exit
  <2> QED
    BY <1>0, <1>2, <2>1 DEF Ahead
<1> QED
  BY <1>4, <1>5, <1>6, <1>7 DEF Task

\* OrderInv is kept by every step.
LEMMA StepKeepsOrder ==
  ASSUME OnceInv, OrderInv, [Next]_vars
  PROVE  OrderInv'
<1> USE DEF poolVars, stopVars, taskVars, sendVars
<1>0. PoolTypes
  BY DEF OnceInv
<1>1. CASE Start
  <2>1. UNCHANGED <<queue, current, processed, call, target, prior>>
    BY <1>1 DEF Start
  <2>2. ASSUME NEW x \in Events, Survives(x)' PROVE Survives(x)
    <3>1. call[x] = "ok" /\ target[x] \in Workers /\ worker[target[x]] # "none"
      BY <2>1, <2>2, TargetIsWorker DEF Survives, OnceInv
    <3>2. ~(target[x] >= senders)
      BY <1>1, <3>1 DEF Start, OnceInv, Staffed, PoolTypes
    <3>3. worker'[target[x]] = worker[target[x]]
      BY <1>1, <3>1, <3>2 DEF Start, OnceInv, PoolTypes
    <3> QED
      BY <2>1, <2>2, <3>1, <3>3 DEF Survives
  <2> QED
    BY <1>0, <2>1, <2>2, NothingMovedKeepsOrder
<1>2. CASE StopBegin \/ Stop \/ Rest \/ UNCHANGED vars
  <2>1. UNCHANGED <<queue, current, processed, call, target, prior, worker>>
    BY <1>2 DEF StopBegin, Stop, StopJoin, StopDone, Rest, vars
  <2>2. \A x \in Events : Survives(x)' => Survives(x)
    BY <2>1 DEF Survives
  <2> QED
    BY <1>0, <2>1, <2>2, NothingMovedKeepsOrder
<1> QED
  BY <1>1, <1>2, SendsKeepOrder, TasksKeepOrder DEF Next

\* OrderInv and Hashed together: two events with one correlation id have one worker.
LEMMA OrderInvImpliesCorrelatedInOrder ==
  ASSUME OnceInv, Hashed, OrderInv
  PROVE  CorrelatedInOrder
<1> SUFFICES ASSUME hashing, starts = 1, NEW j \in DOMAIN processed, NEW x \in prior[processed[j]],
                    Correlation[x] = Correlation[processed[j]], Correlation[x] # NoCorrelation,
                    Survives(x)
             PROVE  \E i \in 1 .. j : processed[i] = x
  BY DEF CorrelatedInOrder
<1> DEFINE e == processed[j]
<1>1. e \in Events /\ e \in Range(processed) /\ DOMAIN processed = 1 .. Len(processed) /\ Len(processed) \in Nat
  BY DEF OnceInv, PoolTypes, Range
<1>2. call[e] = "ok"
  BY <1>1 DEF OnceInv, Routed
<1>3. x \in Events /\ call[x] = "ok"
  BY <1>1 DEF OnceInv, PoolTypes, Survives
<1>4. target[x] = target[e]
  <2>1. RoutingKey(x) = RoutingKey(e)
    BY DEF RoutingKey
  <2> QED
    BY <1>1, <1>2, <1>3, <2>1 DEF Hashed
<1>5. x \in Range(processed) /\ Precedes(processed, x, e)
  BY <1>1, <1>2, <1>4 DEF OrderInv, Ahead
<1>6. PICK i \in DOMAIN processed : processed[i] = x
  BY <1>5 DEF Range
<1>7. i < j
  BY <1>5, <1>6 DEF Precedes
<1> QED
  BY <1>1, <1>6, <1>7

\* CorrelatedInOrder for every hashing pool (HashingWorkerPool::send and start): as long as
\* it is started once, what was accepted for a correlation id before a send was called is
\* processed before what that send sends, unless a panic took it.
THEOREM CorrelationOrder == Spec => []CorrelatedInOrder
<1>1. Init => Hashed /\ OrderInv
  BY DEF Init, Hashed, OrderInv
<1>2. OnceInv /\ Hashed /\ OrderInv /\ [Next]_vars => Hashed' /\ OrderInv'
  BY StepKeepsHashed, StepKeepsOrder
<1>3. OnceInv /\ Hashed /\ OrderInv => CorrelatedInOrder
  BY OrderInvImpliesCorrelatedInOrder
<1> QED
  BY <1>1, <1>2, <1>3, PoolInvariant, PTL DEF Spec
=============================================================================
