------------------------------- MODULE MCRedb -------------------------------
(***************************************************************************)
(* Instances of RedbDispatcher.                                            *)
(***************************************************************************)
EXTENDS RedbDispatcher, TLC

CONSTANTS e1, e2, s1, s2, k1

Keyed == [Plain EXCEPT !.key = k1]
Later == [Plain EXCEPT !.scheduled = TRUE]
KeyedLater == [Keyed EXCEPT !.scheduled = TRUE]
BrokenKeyed == [Keyed EXCEPT !.broken = TRUE]
BrokenLater == [Later EXCEPT !.broken = TRUE]

\* e1 may carry the key. e2 may carry it, be scheduled, or both, or fail to serialize.
AllKinds == [e \in Events |-> IF e = e2
                              THEN {Plain, Keyed, Later, KeyedLater, BrokenKeyed, BrokenLater}
                              ELSE {Plain, Keyed}]
PlainOnly == [e \in Events |-> {Plain}]

AllAccept == [e \in Events |-> Subs]

AtOnce == {Subs}
\* The subscriptions are interchangeable.
SubsSymmetric == Permutations(Subs)
=============================================================================
