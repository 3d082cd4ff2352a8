--------------------------- MODULE CircuitBreaker ---------------------------
(***************************************************************************)
(* CircuitBreaker around another retry policy (dispatcher/retry.rs), used  *)
(* by several handlers at once. Its four fields are behind a tokio RwLock  *)
(* each, always taken for writing; a step ends where the next lock is      *)
(* awaited. A handler that fails calls should_retry, tries again as long as *)
(* it is told to, and calls on_permanent_failure when it is not.           *)
(***************************************************************************)
EXTENDS Naturals

CONSTANTS
  Callers,           \* handlers that share the breaker, each with one failing event
  Nobody,
  failure_threshold,
  success_threshold,
  max_attempts,      \* of the inner policy
  MaxFailures        \* bound: events of each caller

Locks == {"state", "failure_count", "success_count", "last_failure"}

VARIABLES
  inner,         \* the wrapped policy
  state,         \* CircuitState
  failure_count,
  success_count,
  failed,        \* last_failure is Some
  elapsed,       \* last_failure is longer ago than the timeout
  owner,         \* owner[l]: who holds the lock l
  pc,            \* where each caller is
  caller_of,     \* who called check_state: should_retry or record_success
  attempt,       \* the attempt the handler of each caller is at
  events         \* events each caller has begun

breakerVars == <<inner, state, failure_count, success_count, failed, elapsed>>

vars == <<breakerVars, owner, pc, caller_of, attempt, events>>

Init ==
  /\ inner \in {"ExponentialBackoff", "FixedDelay", "NoRetry"}
  /\ state = "Closed"
  /\ failure_count = 0
  /\ success_count = 0
  /\ failed = FALSE
  /\ elapsed = FALSE
  /\ owner = [l \in Locks |-> Nobody]
  /\ pc = [c \in Callers |-> "handling"]
  /\ caller_of = [c \in Callers |-> "should_retry"]
  /\ attempt = [c \in Callers |-> 1]
  /\ events = [c \in Callers |-> 1]

\* c gets the lock l it waits for at `from`, and goes on to `to`; it keeps `held`, if it
\* has to wait for another lock there, and drops the guards of all other locks.
Goto(c, from, l, to, held) ==
  /\ pc[c] = from
  /\ owner[l] = Nobody
  /\ pc' = [pc EXCEPT ![c] = to]
  /\ owner' = [k \in Locks |-> IF k \in held THEN c ELSE IF owner[k] = c THEN Nobody ELSE owner[k]]

\* The timeout of the breaker is over.
Elapse ==
  /\ failed
  /\ ~elapsed
  /\ elapsed' = TRUE
  /\ UNCHANGED <<inner, state, failure_count, success_count, failed, owner, pc, caller_of, attempt,
                 events>>

-----------------------------------------------------------------------------
(* The inner policy                                                        *)

\* Whether their should_retry returns Some(delay) for the n-th attempt; the delay, doubled
\* from attempt to attempt or fixed, is only waited for.
ExponentialBackoff(n) == n < max_attempts
FixedDelay(n) == n < max_attempts
NoRetry(n) == FALSE

Retries(c) == CASE inner = "ExponentialBackoff" -> ExponentialBackoff(attempt[c])
                [] inner = "FixedDelay" -> FixedDelay(attempt[c])
                [] inner = "NoRetry" -> NoRetry(attempt[c])

-----------------------------------------------------------------------------
(* check_state                                                             *)

\* Where check_state leads in its caller, with the state it returns.
After(c, result) ==
  IF caller_of[c] = "should_retry"
  THEN IF result = "Open" THEN "gives_up"
       ELSE IF Retries(c) THEN "rf_count" ELSE "record_success"
  ELSE CASE result = "HalfOpen" -> "rs_count"
         [] result = "Closed" -> "rs_reset"
         [] result = "Open" -> "gives_up"

\* self.state.write().await, then self.last_failure.write().await
CheckState(c) ==
  /\ Goto(c, "check_state", "state", "cs_last", {"state"})
  /\ UNCHANGED <<breakerVars, caller_of, attempt, events>>

CheckLast(c) ==
  LET half_open == state = "Open" /\ failed /\ elapsed IN
  /\ IF half_open THEN Goto(c, "cs_last", "last_failure", "cs_success", {"state", "last_failure"})
     ELSE Goto(c, "cs_last", "last_failure", After(c, state), {})
  /\ state' = IF half_open THEN "HalfOpen" ELSE state
  /\ UNCHANGED <<inner, failure_count, success_count, failed, elapsed, caller_of, attempt, events>>

\* *self.success_count.write().await = 0, with both guards held
CheckSuccess(c) ==
  /\ Goto(c, "cs_success", "success_count", After(c, "HalfOpen"), {})
  /\ success_count' = 0
  /\ UNCHANGED <<inner, state, failure_count, failed, elapsed, caller_of, attempt, events>>

-----------------------------------------------------------------------------
(* record_success and record_failure                                       *)

RecordSuccess(c) ==
  /\ pc[c] = "record_success"
  /\ pc' = [pc EXCEPT ![c] = "check_state"]
  /\ caller_of' = [caller_of EXCEPT ![c] = "record_success"]
  /\ UNCHANGED <<breakerVars, owner, attempt, events>>

\* In the half-open state: the guard of success_count is held to the end.
SuccessCount(c) ==
  LET closes == success_count + 1 >= success_threshold IN
  /\ Goto(c, "rs_count", "success_count", IF closes THEN "rs_state" ELSE "gives_up",
          IF closes THEN {"success_count"} ELSE {})
  /\ success_count' = success_count + 1
  /\ UNCHANGED <<inner, state, failure_count, failed, elapsed, caller_of, attempt, events>>

SuccessState(c) ==
  /\ Goto(c, "rs_state", "state", "rs_reset", {"success_count"})
  /\ state' = "Closed"
  /\ UNCHANGED <<inner, failure_count, success_count, failed, elapsed, caller_of, attempt, events>>

SuccessReset(c) ==
  /\ Goto(c, "rs_reset", "failure_count", "gives_up", {})
  /\ failure_count' = 0
  /\ UNCHANGED <<inner, state, success_count, failed, elapsed, caller_of, attempt, events>>

FailureCount(c) ==
  /\ Goto(c, "rf_count", "failure_count", "rf_last", {"failure_count"})
  /\ failure_count' = failure_count + 1
  /\ UNCHANGED <<inner, state, success_count, failed, elapsed, caller_of, attempt, events>>

\* The guards of failure_count and last_failure are held while state is awaited.
FailureLast(c) ==
  LET opens == failure_count >= failure_threshold IN
  /\ Goto(c, "rf_last", "last_failure", IF opens THEN "rf_state" ELSE "returned",
          IF opens THEN {"failure_count", "last_failure"} ELSE {})
  /\ failed' = TRUE
  /\ elapsed' = FALSE
  /\ UNCHANGED <<inner, state, failure_count, success_count, caller_of, attempt, events>>

FailureState(c) ==
  /\ Goto(c, "rf_state", "state", "returned", {})
  /\ state' = "Open"
  /\ UNCHANGED <<inner, failure_count, success_count, failed, elapsed, caller_of, attempt, events>>

-----------------------------------------------------------------------------
(* should_retry and on_permanent_failure, as a failing handler calls them  *)

ShouldRetry(c) ==
  /\ pc[c] = "handling"
  /\ pc' = [pc EXCEPT ![c] = "check_state"]
  /\ caller_of' = [caller_of EXCEPT ![c] = "should_retry"]
  /\ UNCHANGED <<breakerVars, owner, attempt, events>>

\* should_retry returned None: on_permanent_failure records a failure.
OnPermanentFailure(c) ==
  /\ pc[c] = "gives_up"
  /\ pc' = [pc EXCEPT ![c] = "rf_count"]
  /\ caller_of' = [caller_of EXCEPT ![c] = "on_permanent_failure"]
  /\ UNCHANGED <<breakerVars, owner, attempt, events>>

\* The handler tries again, or goes on to its next event, and fails once more.
FailsAgain(c) ==
  LET retried == caller_of[c] = "should_retry" IN
  /\ pc[c] = "returned"
  /\ retried \/ events[c] < MaxFailures
  /\ pc' = [pc EXCEPT ![c] = "handling"]
  /\ attempt' = [attempt EXCEPT ![c] = IF retried THEN @ + 1 ELSE 1]
  /\ events' = [events EXCEPT ![c] = IF retried THEN @ ELSE @ + 1]
  /\ UNCHANGED <<breakerVars, owner, caller_of>>

\* A call in progress.
Call(c) ==
  \/ CheckState(c) \/ CheckLast(c) \/ CheckSuccess(c)
  \/ RecordSuccess(c) \/ SuccessCount(c) \/ SuccessState(c) \/ SuccessReset(c)
  \/ FailureCount(c) \/ FailureLast(c) \/ FailureState(c)
  \/ OnPermanentFailure(c)

Next == Elapse \/ \E c \in Callers : ShouldRetry(c) \/ FailsAgain(c) \/ Call(c)

Spec == Init /\ [][Next]_vars

\* A call that was begun is awaited, and its task is polled.
FairSpec == Spec /\ \A c \in Callers : WF_vars(Call(c))

-----------------------------------------------------------------------------
\* The documentation of CircuitBreaker: "When failure rate exceeds threshold, circuit opens
\* and fails fast." So a handler that consults the breaker gets its answer, whoever
\* else consults it at the same time.
FailsFast ==
  \A c \in Callers : pc[c] = "check_state" ~> pc[c] \in {"returned", "gives_up"}
=============================================================================
