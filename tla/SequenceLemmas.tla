--------------------------- MODULE SequenceLemmas ---------------------------
(***************************************************************************)
(* What sending to and receiving from a FIFO channel does to the elements  *)
(* of the channel, to their being distinct and to their order. Every queue *)
(* and every handler channel of the project is such a sequence.            *)
(***************************************************************************)
EXTENDS Functions, SequenceTheorems, TLAPS

-----------------------------------------------------------------------------
(* The elements                                                            *)

\* Sending to a channel adds the event to what it holds and nothing else.
LEMMA AppendElements ==
  ASSUME NEW S, NEW q \in Seq(S), NEW x \in S
  PROVE  Append(q, x) \in Seq(S) /\ Range(Append(q, x)) = Range(q) \cup {x}
<1>1. /\ Append(q, x) \in Seq(S)
      /\ Len(Append(q, x)) = Len(q) + 1
      /\ \A i \in 1..Len(q) : Append(q, x)[i] = q[i]
      /\ Append(q, x)[Len(q) + 1] = x
  BY AppendProperties
<1>2. DOMAIN q = 1..Len(q) /\ DOMAIN Append(q, x) = 1..(Len(q) + 1) /\ Len(q) \in Nat
  BY <1>1
<1>3. ASSUME NEW y \in Range(Append(q, x)) PROVE y \in Range(q) \cup {x}
  <2>1. PICK i \in 1..(Len(q) + 1) : y = Append(q, x)[i]
    BY <1>2, <1>3 DEF Range
  <2>2. CASE i = Len(q) + 1
    BY <2>1, <2>2, <1>1
  <2>3. CASE i \in 1..Len(q)
    BY <2>1, <2>3, <1>1, <1>2 DEF Range
  <2> QED
    BY <2>1, <2>2, <2>3, <1>2
<1>4. ASSUME NEW y \in Range(q) \cup {x} PROVE y \in Range(Append(q, x))
  <2>1. CASE y = x
    <3>1. Len(q) + 1 \in DOMAIN Append(q, x)
      BY <1>2
    <3> QED
      BY <2>1, <3>1, <1>1 DEF Range
  <2>2. CASE y \in Range(q)
    <3>1. PICK i \in 1..Len(q) : y = q[i]
      BY <2>2, <1>2 DEF Range
    <3>2. i \in DOMAIN Append(q, x) /\ y = Append(q, x)[i]
      BY <3>1, <1>1, <1>2
    <3> QED
      BY <3>2 DEF Range
  <2> QED
    BY <1>4, <2>1, <2>2
<1> QED
  BY <1>1, <1>3, <1>4

\* Receiving takes the head and leaves the rest.
LEMMA TailElements ==
  ASSUME NEW S, NEW q \in Seq(S), q # <<>>
  PROVE  /\ Head(q) \in S
         /\ Tail(q) \in Seq(S)
         /\ Range(q) = {Head(q)} \cup Range(Tail(q))
<1>1. /\ Head(q) \in S
      /\ Tail(q) \in Seq(S)
      /\ Len(Tail(q)) = Len(q) - 1
      /\ \A i \in 1..Len(Tail(q)) : Tail(q)[i] = q[i + 1]
  BY HeadTailProperties
<1>2. DOMAIN q = 1..Len(q) /\ DOMAIN Tail(q) = 1..(Len(q) - 1) /\ Len(q) \in Nat \ {0}
  <2>1. Len(q) # 0
    BY EmptySeq
  <2> QED
    BY <1>1, <2>1
<1>3. Head(q) = q[1]
  BY <1>2
<1>4. ASSUME NEW y \in Range(q) PROVE y \in {Head(q)} \cup Range(Tail(q))
  <2>1. PICK i \in 1..Len(q) : y = q[i]
    BY <1>2, <1>4 DEF Range
  <2>2. CASE i = 1
    BY <2>1, <2>2, <1>3
  <2>3. CASE i # 1
    <3>1. i - 1 \in DOMAIN Tail(q) /\ Tail(q)[i - 1] = q[i]
      BY <2>1, <2>3, <1>1, <1>2
    <3> QED
      BY <3>1, <2>1 DEF Range
  <2> QED
    BY <2>2, <2>3
<1>5. ASSUME NEW y \in {Head(q)} \cup Range(Tail(q)) PROVE y \in Range(q)
  <2>1. CASE y = Head(q)
    <3>1. 1 \in DOMAIN q /\ y = q[1]
      BY <2>1, <1>2, <1>3
    <3> QED
      BY <3>1 DEF Range
  <2>2. CASE y \in Range(Tail(q))
    <3>1. PICK i \in 1..(Len(q) - 1) : y = Tail(q)[i]
      BY <2>2, <1>2 DEF Range
    <3>2. i + 1 \in DOMAIN q /\ y = q[i + 1]
      BY <3>1, <1>1, <1>2
    <3> QED
      BY <3>2 DEF Range
  <2> QED
    BY <1>5, <2>1, <2>2
<1> QED
  BY <1>1, <1>4, <1>5

-----------------------------------------------------------------------------
(* No element twice                                                        *)

\* Sending what is not in the channel yet keeps the channel free of duplicates.
LEMMA AppendDistinct ==
  ASSUME NEW S, NEW q \in Seq(S), NEW x \in S, IsInjective(q), x \notin Range(q)
  PROVE  IsInjective(Append(q, x))
<1>1. /\ \A i \in 1..Len(q) : Append(q, x)[i] = q[i]
      /\ Append(q, x)[Len(q) + 1] = x
      /\ DOMAIN q = 1..Len(q) /\ DOMAIN Append(q, x) = 1..(Len(q) + 1) /\ Len(q) \in Nat
  BY AppendProperties
<1>2. \A i \in 1..Len(q) : q[i] # x
  BY <1>1 DEF Range
<1> QED
  BY <1>1, <1>2 DEF IsInjective

\* Receiving does too, and what was received is not in the channel any more.
LEMMA TailDistinct ==
  ASSUME NEW S, NEW q \in Seq(S), q # <<>>, IsInjective(q)
  PROVE  IsInjective(Tail(q)) /\ Head(q) \notin Range(Tail(q))
<1>1. /\ Len(q) \in Nat \ {0}
      /\ DOMAIN q = 1..Len(q) /\ DOMAIN Tail(q) = 1..(Len(q) - 1)
      /\ \A i \in 1..(Len(q) - 1) : Tail(q)[i] = q[i + 1]
      /\ Head(q) = q[1]
  BY EmptySeq, HeadTailProperties
<1>2. IsInjective(Tail(q))
  BY <1>1 DEF IsInjective
<1>3. \A i \in 1..(Len(q) - 1) : Tail(q)[i] # Head(q)
  BY <1>1 DEF IsInjective
<1> QED
  BY <1>1, <1>2, <1>3 DEF Range

\* There is no second e in q.
AtMostOnce(q, e) == \A i, j \in DOMAIN q : q[i] = e /\ q[j] = e => i = j

\* Sending something else, or the first e, does not add a second one.
LEMMA AppendOnce ==
  ASSUME NEW S, NEW q \in Seq(S), NEW x \in S, NEW e, AtMostOnce(q, e), x # e \/ e \notin Range(q)
  PROVE  AtMostOnce(Append(q, x), e)
<1>1. /\ \A i \in 1..Len(q) : Append(q, x)[i] = q[i]
      /\ Append(q, x)[Len(q) + 1] = x
      /\ DOMAIN q = 1..Len(q) /\ DOMAIN Append(q, x) = 1..(Len(q) + 1) /\ Len(q) \in Nat
  BY AppendProperties
<1>2. x # e \/ \A i \in 1..Len(q) : q[i] # e
  BY <1>1 DEF Range
<1> QED
  BY <1>1, <1>2 DEF AtMostOnce

\* Receiving e takes the only one.
LEMMA TailOnce ==
  ASSUME NEW S, NEW q \in Seq(S), q # <<>>, NEW e, AtMostOnce(q, e)
  PROVE  AtMostOnce(Tail(q), e) /\ (Head(q) = e => e \notin Range(Tail(q)))
<1>1. /\ Len(q) \in Nat \ {0}
      /\ DOMAIN q = 1..Len(q) /\ DOMAIN Tail(q) = 1..(Len(q) - 1)
      /\ \A i \in 1..(Len(q) - 1) : Tail(q)[i] = q[i + 1]
      /\ Head(q) = q[1]
  BY EmptySeq, HeadTailProperties
<1>2. AtMostOnce(Tail(q), e)
  BY <1>1 DEF AtMostOnce
<1>3. Head(q) = e => \A i \in 1..(Len(q) - 1) : Tail(q)[i] # e
  BY <1>1 DEF AtMostOnce
<1> QED
  BY <1>1, <1>2, <1>3 DEF Range

\* What is not there is there at most once.
LEMMA AbsentOnce ==
  ASSUME NEW q, NEW e, e \notin Range(q)
  PROVE  AtMostOnce(q, e)
BY DEF AtMostOnce, Range

-----------------------------------------------------------------------------
(* Order                                                                   *)

\* Every occurrence of x in q is in front of every occurrence of e.
Precedes(q, x, e) == \A i, j \in DOMAIN q : q[i] = x /\ q[j] = e => i < j

\* Sending keeps the order of two elements, unless it sends the first after the second.
LEMMA AppendPrecedes ==
  ASSUME NEW S, NEW q \in Seq(S), NEW y \in S, NEW x, NEW e, x # e,
         Precedes(q, x, e), y = x => e \notin Range(q)
  PROVE  Precedes(Append(q, y), x, e)
<1>1. /\ \A i \in 1..Len(q) : Append(q, y)[i] = q[i]
      /\ Append(q, y)[Len(q) + 1] = y
      /\ DOMAIN q = 1..Len(q) /\ DOMAIN Append(q, y) = 1..(Len(q) + 1) /\ Len(q) \in Nat
  BY AppendProperties
<1>2. y = x => \A i \in 1..Len(q) : q[i] # e
  BY <1>1 DEF Range
<1> QED
  BY <1>1, <1>2 DEF Precedes

\* Receiving keeps the order of two elements, and does not receive the second first.
LEMMA TailPrecedes ==
  ASSUME NEW S, NEW q \in Seq(S), q # <<>>, NEW x, NEW e, x # e, Precedes(q, x, e)
  PROVE  Precedes(Tail(q), x, e) /\ (Head(q) = e => x \notin Range(Tail(q)))
<1>1. /\ Len(q) \in Nat \ {0}
      /\ DOMAIN q = 1..Len(q) /\ DOMAIN Tail(q) = 1..(Len(q) - 1)
      /\ \A i \in 1..(Len(q) - 1) : Tail(q)[i] = q[i + 1]
      /\ Head(q) = q[1]
  BY EmptySeq, HeadTailProperties
<1>2. Precedes(Tail(q), x, e)
  BY <1>1 DEF Precedes
<1>3. Head(q) = e => \A i \in 1..(Len(q) - 1) : Tail(q)[i] # x
  BY <1>1 DEF Precedes
<1> QED
  BY <1>1, <1>2, <1>3 DEF Range

-----------------------------------------------------------------------------
(* One after the other                                                     *)

\* There is exactly one e in s.
HoldsOnce(s, e) == \E i \in DOMAIN s : s[i] = e /\ \A j \in DOMAIN s : s[j] = e => j = i

\* A channel free of duplicates holds each of its elements once.
LEMMA DistinctHoldsOnce ==
  ASSUME NEW s, NEW e \in Range(s), IsInjective(s)
  PROVE  HoldsOnce(s, e)
BY DEF HoldsOnce, IsInjective, Range

\* Two sequences in a row hold the elements of both, and hold once what one of them holds
\* once and the other one does not hold.
LEMMA ConcatElements ==
  ASSUME NEW S, NEW s \in Seq(S), NEW t \in Seq(S), NEW e
  PROVE  /\ s \o t \in Seq(S)
         /\ e \notin Range(s) /\ e \notin Range(t) => e \notin Range(s \o t)
         /\ HoldsOnce(s, e) /\ e \notin Range(t) => HoldsOnce(s \o t, e)
         /\ e \notin Range(s) /\ HoldsOnce(t, e) => HoldsOnce(s \o t, e)
<1> DEFINE m == Len(s)
           n == Len(t)
           u == s \o t
<1>1. /\ m \in Nat /\ n \in Nat /\ u \in Seq(S)
      /\ DOMAIN s = 1 .. m /\ DOMAIN t = 1 .. n /\ DOMAIN u = 1 .. (m + n)
      /\ \A i \in 1 .. (m + n) : u[i] = IF i <= m THEN s[i] ELSE t[i - m]
  BY ConcatProperties
<1> HIDE DEF m, n, u
<1>2. /\ \A i \in 1 .. m : i \in 1 .. (m + n) /\ u[i] = s[i]
      /\ \A i \in 1 .. n : m + i \in 1 .. (m + n) /\ u[m + i] = t[i]
      /\ \A i \in 1 .. (m + n) : i \in 1 .. m \/ (i - m \in 1 .. n /\ u[i] = t[i - m])
  BY <1>1
<1>3. ASSUME e \notin Range(s), e \notin Range(t) PROVE e \notin Range(u)
  <2>1. (\A i \in 1 .. m : s[i] # e) /\ (\A i \in 1 .. n : t[i] # e)
    BY <1>1, <1>3 DEF Range
  <2>2. \A i \in 1 .. (m + n) : u[i] # e
    BY <1>2, <2>1
  <2> QED
    BY <1>1, <2>2 DEF Range
<1>4. ASSUME HoldsOnce(s, e), e \notin Range(t) PROVE HoldsOnce(u, e)
  <2>1. PICK i \in 1 .. m : s[i] = e /\ \A j \in 1 .. m : s[j] = e => j = i
    BY <1>1, <1>4 DEF HoldsOnce
  <2>2. \A j \in 1 .. n : t[j] # e
    BY <1>1, <1>4 DEF Range
  <2>3. ASSUME NEW j \in 1 .. (m + n), u[j] = e PROVE j = i
    BY <1>2, <2>1, <2>2, <2>3
  <2> QED
    BY <1>1, <1>2, <2>1, <2>3 DEF HoldsOnce
<1>5. ASSUME e \notin Range(s), HoldsOnce(t, e) PROVE HoldsOnce(u, e)
  <2>1. PICK i \in 1 .. n : t[i] = e /\ \A j \in 1 .. n : t[j] = e => j = i
    BY <1>1, <1>5 DEF HoldsOnce
  <2>2. \A j \in 1 .. m : s[j] # e
    BY <1>1, <1>5 DEF Range
  <2>3. ASSUME NEW j \in 1 .. (m + n), u[j] = e PROVE j = m + i
    <3>1. j - m \in 1 .. n /\ t[j - m] = e
      BY <1>2, <2>2, <2>3
    <3>2. j - m = i
      BY <2>1, <3>1
    <3> QED
      BY <1>1, <3>2
  <2>4. m + i \in 1 .. (m + n) /\ u[m + i] = e
    BY <1>2, <2>1
  <2> QED
    BY <1>1, <2>3, <2>4 DEF HoldsOnce
<1> QED
  BY <1>1, <1>3, <1>4, <1>5 DEF u
=============================================================================
