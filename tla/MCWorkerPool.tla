---------------------------- MODULE MCWorkerPool ----------------------------
(* A small instance of WorkerPool for TLC.                                   *)
EXTENDS WorkerPool

CONSTANTS e1, e2, e3, k1

\* e1 and e3 share a correlation id, e2 has none.
McCorrelation == [e \in Events |-> IF e = e2 THEN NoCorrelation ELSE k1]
McHash == [x \in Events \cup {k1} |-> IF x \in {e3, k1} THEN 5 ELSE 2]
=============================================================================
