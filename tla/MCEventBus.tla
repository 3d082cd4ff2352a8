------------------------------ MODULE MCEventBus ------------------------------
(* Small instances of EventBus for TLC.                                      *)
EXTENDS EventBus

CONSTANTS s1, s2, e1, e2, e3, e4, e5, c1, c2

AllMatch == [e \in Events |-> Subs]
\* s2, which subscribes late, is only interested in e2.
SomeMatch == [e \in Events |-> IF e = e2 THEN Subs ELSE {s1}]
NoCascade == [s \in Subs |-> NoEvent]
\* The handler of s1 is a responder: it publishes e3 and awaits the result.
S1Responds == [s \in Subs |-> IF s = s1 THEN e3 ELSE NoEvent]
\* The response e3 goes to the inbox of a requester that is not modelled here.
ResponseElsewhere == [e \in Events |-> IF e = e3 THEN {} ELSE Subs]

\* Four requests and a response fill every place of a bus with one responder: its hands, its
\* channel, the worker's and the queue, with the response waiting outside. Nothing tells two
\* of these requests apart whose calls are in the same state (the RwLock is FIFO, and neither
\* the contents of the queue nor the handler depend on the name of a request), so of two such
\* calls the one of the smaller request goes first: all other orders differ in names only.
Alike == {e1, e2, e4, e5} \ Delayed
Number == [e \in Alike |-> CASE e = e1 -> 1 [] e = e2 -> 2 [] e = e4 -> 3 [] OTHER -> 4]
Progress == [idle |-> 0, checked |-> 1, waiting |-> 2, locked |-> 3, sending |-> 4,
             ok |-> 5, err |-> 5, dropped |-> 5]
InTurn ==
  \A x, y \in Alike :
    Number[x] < Number[y] /\ call[y] # "err" => Progress[call[y]] <= Progress[call[x]]

InTurnSpec == Init /\ [][Next /\ InTurn']_vars /\ Fairness
=============================================================================
