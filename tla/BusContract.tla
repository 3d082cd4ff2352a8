----------------------------- MODULE BusContract -----------------------------
(***************************************************************************)
(* What the bus promises to those who publish and subscribe, without any   *)
(* queue, lock, task or channel: an event is accepted once or never, every *)
(* subscription it concerns finishes it at most once and only after it was *)
(* accepted, and nothing is accepted once a graceful shutdown returned.    *)
(* EventBus implements it (ImplementsContract there).                      *)
(***************************************************************************)
EXTENDS Sequences, Functions

CONSTANTS
  Events,
  Subs,
  Concerns  \* Concerns[e]: the subscriptions whose type, topic and filter e passes

VARIABLES
  accepted, \* events whose publish returned Ok
  finished, \* finished[s]: the events the handler of s is done with, in order
  stopped   \* a graceful shutdown has returned

contractVars == <<accepted, finished, stopped>>

Init ==
  /\ accepted = {}
  /\ finished = [s \in Subs |-> <<>>]
  /\ stopped = FALSE

Accept(e) ==
  /\ ~stopped
  /\ e \notin accepted
  /\ accepted' = accepted \cup {e}
  /\ UNCHANGED <<finished, stopped>>

Finish(s, e) ==
  /\ e \in accepted
  /\ s \in Concerns[e]
  /\ e \notin Range(finished[s])
  /\ finished' = [finished EXCEPT ![s] = Append(@, e)]
  /\ UNCHANGED <<accepted, stopped>>

Stop ==
  /\ ~stopped
  /\ stopped' = TRUE
  /\ UNCHANGED <<accepted, finished>>

Next ==
  \/ \E e \in Events : Accept(e) \/ \E s \in Subs : Finish(s, e)
  \/ Stop

Spec == Init /\ [][Next]_contractVars
=============================================================================
