--------------------------- MODULE RegistryProofs ---------------------------
(***************************************************************************)
(* The trie returns whom a topic concerns, for all patterns and topics of  *)
(* any length; and the registry finds nobody else and, of the              *)
(* subscriptions that stay, everybody: FindsNoOther and FindsRegistered,   *)
(* for any number of subscriptions that come and go during the lookups.    *)
(***************************************************************************)
EXTENDS Registry, WellFoundedInduction, SequenceTheorems, TLAPS

-----------------------------------------------------------------------------
(* Least elements, in place of induction                                   *)

\* Every set of natural numbers has a least element: an argument by induction on n is one
\* about the least n that is an exception.
LEMMA HasLeast ==
  ASSUME NEW T \in SUBSET Nat, T # {}
  PROVE  \E n \in T : \A m \in T : n <= m
<1> DEFINE R == {ss \in Nat \X Nat : ss[1] < ss[2]}
<1>1. IsWellFoundedOn(R, Nat)
  BY NatLessThanWellFounded DEF OpToRel
<1>2. \A m, n \in Nat : m < n => <<m, n>> \in R
  OBVIOUS
<1> HIDE DEF R
<1>3. PICK n \in T : \A m \in T : <<m, n>> \notin R
  BY <1>1, WFMin
<1>4. ASSUME NEW m \in T PROVE n <= m
  <2>1. ~(m < n)
    BY <1>2, <1>3
  <2> QED
    BY <2>1
<1> QED
  BY <1>4

-----------------------------------------------------------------------------
(* The trie                                                                *)

\* The tokens of a pattern that stand for one token of a topic.
Stands(token) == ({token} \ {">"}) \cup {"*"}

\* The paths that agree with the first d tokens of a topic.
Paths(topic, d) ==
  {node \in Seq(Tokens) : Len(node) = d /\ \A i \in 1 .. d : node[i] \in Stands(topic[i])}

\* One level of match_recursive.
Level(nodes, token) == {Append(node, t) : node \in nodes, t \in Stands(token)}

\* Taking a level from the paths to depth d - 1 gives those to depth d.
LEMMA LevelOfPaths ==
  ASSUME NEW topic \in Seq(Tokens), NEW d \in 1 .. Len(topic)
  PROVE  Level(Paths(topic, d - 1), topic[d]) = Paths(topic, d)
<1>0. /\ d \in Nat /\ d >= 1 /\ d - 1 \in Nat /\ topic[d] \in Tokens
      /\ \A i \in 1 .. d : i \in 1 .. (d - 1) \/ i = d
  OBVIOUS
<1>1. ASSUME NEW node \in Paths(topic, d - 1), NEW t \in Stands(topic[d])
      PROVE  Append(node, t) \in Paths(topic, d)
  <2>1. /\ node \in Seq(Tokens) /\ Len(node) = d - 1
        /\ \A i \in 1 .. (d - 1) : node[i] \in Stands(topic[i])
    BY DEF Paths
  <2>2. t \in Tokens
    BY RegistryConstants, <1>0 DEF Stands
  <2>3. /\ Append(node, t) \in Seq(Tokens) /\ Len(Append(node, t)) = d
        /\ \A i \in 1 .. (d - 1) : Append(node, t)[i] = node[i]
        /\ Append(node, t)[d] = t
    <3>1. Len(node) + 1 = d
      BY <2>1, <1>0
    <3> QED
      BY <2>1, <2>2, <3>1, AppendProperties
  <2>4. ASSUME NEW i \in 1 .. d PROVE Append(node, t)[i] \in Stands(topic[i])
    <3>1. CASE i = d
      BY <2>3, <3>1
    <3>2. CASE i \in 1 .. (d - 1)
      BY <2>3, <2>1, <3>2
    <3> QED
      BY <3>1, <3>2, <1>0
  <2> HIDE DEF Stands
  <2> QED
    BY <2>3, <2>4 DEF Paths
<1>2. ASSUME NEW node \in Paths(topic, d)
      PROVE  \E front \in Paths(topic, d - 1), t \in Stands(topic[d]) : node = Append(front, t)
  <2> DEFINE front == SubSeq(node, 1, d - 1)
  <2>1. /\ node \in Seq(Tokens) /\ Len(node) = d
        /\ \A i \in 1 .. d : node[i] \in Stands(topic[i])
    BY DEF Paths
  <2>2. /\ front \in Seq(Tokens) /\ Len(front) = d - 1
        /\ \A i \in 1 .. (d - 1) : front[i] = node[i]
    BY <2>1, <1>0
  <2>3. node = Append(front, node[d])
    BY <2>1, <2>2, <1>0
  <2>4. \A i \in 1 .. (d - 1) : front[i] \in Stands(topic[i])
    BY <2>1, <2>2, <1>0
  <2>5. node[d] \in Stands(topic[d])
    BY <2>1, <1>0
  <2> HIDE DEF front
  <2>6. front \in Paths(topic, d - 1)
    BY <2>2, <2>4 DEF Paths
  <2> QED
    BY <2>3, <2>5, <2>6
<1> HIDE DEF Paths, Stands
<1>3. Level(Paths(topic, d - 1), topic[d]) \subseteq Paths(topic, d)
  <2> SUFFICES ASSUME NEW path \in Level(Paths(topic, d - 1), topic[d])
               PROVE  path \in Paths(topic, d)
    OBVIOUS
  <2>1. PICK node \in Paths(topic, d - 1), t \in Stands(topic[d]) : path = Append(node, t)
    BY DEF Level
  <2> QED
    BY <2>1, <1>1
<1>4. Paths(topic, d) \subseteq Level(Paths(topic, d - 1), topic[d])
  BY <1>2 DEF Level
<1> QED
  BY <1>3, <1>4

\* match_recursive reaches exactly the nodes whose path agrees with the topic so far.
LEMMA ReachedPaths ==
  ASSUME NEW topic \in Seq(Tokens)
  PROVE  \A d \in 0 .. Len(topic) : Reached(topic)[d] = Paths(topic, d)
<1> DEFINE Defines(f) ==
      f = [d \in 0 .. Len(topic) |-> IF d = 0 THEN {<<>>} ELSE Level(f[d - 1], topic[d])]
           G == [d \in 0 .. Len(topic) |-> Paths(topic, d)]
<1>1. Paths(topic, 0) = {<<>>}
  <2>1. \A node \in Seq(Tokens) : Len(node) = 0 <=> node = <<>>
    BY EmptySeq
  <2>2. <<>> \in Seq(Tokens) /\ \A i \in 1 .. 0 : FALSE
    BY EmptySeq
  <2> QED
    BY <2>1, <2>2 DEF Paths
<1>2. Defines(G)
  BY <1>1, LevelOfPaths
<1>3. Defines(Reached(topic))
  <2>1. Reached(topic) = CHOOSE f : Defines(f)
    BY DEF Reached, Level, Stands
  <2> QED
    BY <1>2, <2>1
<1> DEFINE f == Reached(topic)
           T == {d \in 0 .. Len(topic) : f[d] # Paths(topic, d)}
<1>4. ASSUME T # {} PROVE FALSE
  <2>0. T \in SUBSET Nat
    OBVIOUS
  <2>1. PICK d \in T : \A m \in T : d <= m
    <3> HIDE DEF T
    <3> QED
      BY <2>0, <1>4, HasLeast
  <2>2. CASE d = 0
    BY <2>1, <2>2, <1>1, <1>3
  <2>3. CASE d # 0
    <3>1. d \in 1 .. Len(topic) /\ d - 1 \in 0 .. Len(topic)
      BY <2>1, <2>3
    <3>2. f[d - 1] = Paths(topic, d - 1)
      BY <3>1, <2>1
    <3>3. f[d] = Level(f[d - 1], topic[d])
      BY <3>1, <1>3, <2>3
    <3> QED
      BY <3>1, <3>2, <3>3, <2>1, LevelOfPaths
  <2> QED
    BY <2>2, <2>3
<1> QED
  BY <1>4

\* The node of a pattern is its part up to the first `>`.
LEMMA StoredNodeEnds ==
  ASSUME NEW p \in Seq(Tokens)
  PROVE  /\ StoredNode(p) \in Seq(Tokens)
         /\ \A i \in 1 .. Len(StoredNode(p)) : StoredNode(p)[i] = ">" => i = Len(StoredNode(p))
<1> DEFINE ends == {i \in DOMAIN p : p[i] = ">"}
           k == CHOOSE i \in ends : \A j \in ends : i <= j
<1>1. CASE ends = {}
  BY <1>1 DEF StoredNode
<1>2. CASE ends # {}
  <2>1. ends \in SUBSET Nat
    OBVIOUS
  <2>2. k \in ends /\ \A j \in ends : k <= j
    <3> HIDE DEF ends
    <3> QED
      BY <2>1, <1>2, HasLeast
  <2>3. StoredNode(p) = SubSeq(p, 1, k)
    BY <1>2 DEF StoredNode
  <2>4. k \in 1 .. Len(p) /\ \A i \in 1 .. (k - 1) : p[i] # ">"
    BY <2>2
  <2> HIDE DEF k, ends
  <2>5. /\ SubSeq(p, 1, k) \in Seq(Tokens) /\ Len(SubSeq(p, 1, k)) = k
        /\ \A i \in 1 .. k : SubSeq(p, 1, k)[i] = p[i]
    BY <2>4
  <2> QED
    BY <2>3, <2>4, <2>5
<1> QED
  BY <1>1, <1>2

\* The nodes at which match_topic looks for subscriptions.
Visited(topic) ==
  Reached(topic)[Len(topic)]
    \cup {Append(node, ">") : node \in UNION {Reached(topic)[d] : d \in 0 .. (Len(topic) - 1)}}

\* A node below a `>` is visited on the way when the path above it agrees with the topic.
LEMMA Trailing ==
  ASSUME NEW topic \in Seq(Tokens), NEW node
  PROVE  node \in {Append(nd, ">") : nd \in UNION {Reached(topic)[d] : d \in 0 .. (Len(topic) - 1)}}
         <=> \E d \in 0 .. (Len(topic) - 1) : \E nd \in Paths(topic, d) : node = Append(nd, ">")
<1>1. \A d \in 0 .. (Len(topic) - 1) : Reached(topic)[d] = Paths(topic, d)
  BY ReachedPaths
<1> HIDE DEF Paths
<1> QED
  BY <1>1

\* match_topic visits the node of a pattern exactly for the topics that fit the pattern.
LEMMA VisitedFits ==
  ASSUME NEW topic \in Seq(Tokens), NEW pat \in Seq(Tokens)
  PROVE  StoredNode(pat) \in Visited(topic) <=> Fits(pat, topic)
<1> DEFINE p == StoredNode(pat)
           n == Len(p)
           m == Len(topic)
           Below == {Append(nd, ">") : nd \in UNION {Reached(topic)[d] : d \in 0 .. (m - 1)}}
<1> SUFFICES p \in Visited(topic) <=> Fits(pat, topic)
  OBVIOUS
<1>1. p \in Seq(Tokens) /\ n \in Nat /\ m \in Nat /\ \A i \in 1 .. n : p[i] = ">" => i = n
  BY StoredNodeEnds
<1>2. Fits(pat, topic) <=>
        IF n > 0 /\ p[n] = ">"
        THEN n <= m /\ \A i \in 1 .. (n - 1) : p[i] \in {"*", topic[i]}
        ELSE n = m /\ \A i \in 1 .. n : p[i] \in {"*", topic[i]}
  BY DEF Fits
<1>3. p \in Visited(topic) <=> p \in Paths(topic, m) \/ p \in Below
  <2>1. Reached(topic)[m] = Paths(topic, m)
    BY <1>1, ReachedPaths
  <2> HIDE DEF Paths
  <2> QED
    BY <2>1 DEF Visited
<1>4. p \in Below <=> \E d \in 0 .. (m - 1) : \E nd \in Paths(topic, d) : p = Append(nd, ">")
  BY Trailing
<1>5. p \in Paths(topic, m) <=> n = m /\ \A i \in 1 .. n : p[i] \in Stands(topic[i])
  BY <1>1 DEF Paths
<1> HIDE DEF p, Below
<1>6. \A i \in 1 .. n : p[i] # ">" => (p[i] \in Stands(topic[i]) <=> p[i] \in {"*", topic[i]})
  BY DEF Stands
<1>7. \A i \in 1 .. n : p[i] = ">" => p[i] \notin Stands(topic[i])
  BY DEF Stands
<1> HIDE DEF n, m
<1>8. CASE n > 0 /\ p[n] = ">"
  <2>1. p \notin Paths(topic, m)
    BY <1>1, <1>5, <1>7, <1>8
  <2>2. ASSUME NEW d \in 0 .. (m - 1), NEW nd \in Paths(topic, d), p = Append(nd, ">")
        PROVE  Fits(pat, topic)
    <3>1. /\ nd \in Seq(Tokens) /\ Len(nd) = d
          /\ \A i \in 1 .. d : nd[i] \in Stands(topic[i])
      BY DEF Paths
    <3>2. n = d + 1 /\ \A i \in 1 .. d : p[i] = nd[i]
      BY <3>1, <2>2, RegistryConstants, AppendProperties DEF n
    <3>3. n <= m /\ n - 1 = d
      BY <3>2, <1>1
    <3>4. \A i \in 1 .. (n - 1) : i \in 1 .. n /\ p[i] # ">" /\ p[i] \in Stands(topic[i])
      <4>1. \A i \in 1 .. (n - 1) : i \in 1 .. n /\ i # n
        BY <1>1
      <4> QED
        BY <4>1, <3>1, <3>2, <3>3, <1>1
    <3> QED
      BY <3>3, <3>4, <1>2, <1>6, <1>8
  <2>3. ASSUME Fits(pat, topic) PROVE p \in Below
    <3> DEFINE nd == SubSeq(p, 1, n - 1)
    <3>1. n - 1 \in 0 .. (m - 1) /\ \A i \in 1 .. (n - 1) : p[i] \in {"*", topic[i]}
      BY <2>3, <1>2, <1>8, <1>1
    <3>2. /\ nd \in Seq(Tokens) /\ Len(nd) = n - 1
          /\ \A i \in 1 .. (n - 1) : nd[i] = p[i]
      <4>1. n - 1 \in Nat /\ n - 1 <= Len(p)
        BY <1>1, <1>8 DEF n
      <4> QED
        BY <4>1, <1>1
    <3>3. \A i \in 1 .. (n - 1) : i \in 1 .. n /\ p[i] # ">"
      BY <1>1
    <3>4. \A i \in 1 .. (n - 1) : nd[i] \in Stands(topic[i])
      BY <3>1, <3>2, <3>3, <1>6
    <3>5. p = Append(nd, ">")
      <4>1. p = Append(nd, p[n])
        BY <1>1, <1>8, <3>2 DEF n
      <4> QED
        BY <4>1, <1>8
    <3> HIDE DEF nd
    <3>6. nd \in Paths(topic, n - 1)
      BY <3>2, <3>4 DEF Paths
    <3> QED
      BY <3>1, <3>5, <3>6, <1>4
  <2> QED
    BY <2>1, <2>2, <2>3, <1>3, <1>4
<1>9. CASE ~(n > 0 /\ p[n] = ">")
  <2>1. \A i \in 1 .. n : p[i] # ">"
    BY <1>1, <1>9
  <2>2. ASSUME p \in Below PROVE FALSE
    <3>1. PICK d \in 0 .. (m - 1) : \E nd \in Paths(topic, d) : p = Append(nd, ">")
      BY <2>2, <1>4
    <3>2. PICK nd \in Paths(topic, d) : p = Append(nd, ">")
      BY <3>1
    <3>3. nd \in Seq(Tokens)
      BY DEF Paths
    <3>4. n = Len(nd) + 1 /\ p[Len(nd) + 1] = ">" /\ Len(nd) \in Nat
      BY <3>2, <3>3, RegistryConstants, AppendProperties DEF n
    <3> QED
      BY <3>4, <1>9
  <2>3. p \in Paths(topic, m) <=> Fits(pat, topic)
    BY <2>1, <1>2, <1>5, <1>6, <1>9
  <2> QED
    BY <2>2, <2>3, <1>3
<1> QED
  BY <1>8, <1>9

\* The trie after patterns were inserted for ids.
Trie(routes) == {<<StoredNode(r[1]), r[2]>> : r \in routes}

\* Wildcard matching (TopicTrie::match_topic): whatever patterns were inserted, and
\* whichever nodes they share, it returns the ids of exactly those that the topic fits.
THEOREM MatchTopicFits ==
  ASSUME NEW Subscribers, NEW routes \in SUBSET (Seq(Tokens) \X Subscribers),
         NEW topic \in Seq(Tokens)
  PROVE  match_topic(Trie(routes), topic) = {r[2] : r \in {x \in routes : Fits(x[1], topic)}}
<1>1. match_topic(Trie(routes), topic) = {entry[2] : entry \in {e \in Trie(routes) : e[1] \in Visited(topic)}}
  BY DEF match_topic, Visited
<1>2. \A r \in routes : StoredNode(r[1]) \in Visited(topic) <=> Fits(r[1], topic)
  BY VisitedFits
<1>3. ASSUME NEW id \in match_topic(Trie(routes), topic)
      PROVE  \E r \in routes : Fits(r[1], topic) /\ id = r[2]
  <2>1. PICK e \in Trie(routes) : e[1] \in Visited(topic) /\ id = e[2]
    BY <1>1, <1>3
  <2>2. PICK r \in routes : e = <<StoredNode(r[1]), r[2]>>
    BY <2>1 DEF Trie
  <2> QED
    BY <2>1, <2>2, <1>2
<1>4. ASSUME NEW r \in routes, Fits(r[1], topic) PROVE r[2] \in match_topic(Trie(routes), topic)
  <2> DEFINE e == <<StoredNode(r[1]), r[2]>>
  <2>1. e \in Trie(routes) /\ e[1] \in Visited(topic) /\ e[2] = r[2]
    BY <1>2, <1>4 DEF Trie
  <2> HIDE DEF e
  <2> QED
    BY <1>1, <2>1
<1> QED
  BY <1>3, <1>4

\* The writes of register and unregister (TopicTrie::insert, remove_topic, remove) add and
\* take out the route of one id and leave the others at the same node. (remove_topic does
\* so for a pattern with nothing after its `>`.)
THEOREM TrieUpdates ==
  ASSUME NEW Subscribers, NEW routes \in SUBSET (Seq(Tokens) \X Subscribers),
         NEW id \in Subscribers, NEW p \in Seq(Tokens)
  PROVE  /\ insert(Trie(routes), p, id) = Trie(routes \cup {<<p, id>>})
         /\ remove(Trie(routes), id) = Trie({r \in routes : r[2] # id})
         /\ (\A i \in 1 .. (Len(p) - 1) : p[i] # ">") =>
              remove_topic(Trie(routes), p, id)
                = Trie({r \in routes : ~(r[2] = id /\ StoredNode(r[1]) = StoredNode(p))})
<1>1. insert(Trie(routes), p, id) = Trie(routes \cup {<<p, id>>})
  <2> DEFINE more == routes \cup {<<p, id>>}
  <2>1. \A e : e \in Trie(more) <=> \E r \in more : e = <<StoredNode(r[1]), r[2]>>
    BY DEF Trie
  <2>2. \A e : e \in Trie(routes) <=> \E r \in routes : e = <<StoredNode(r[1]), r[2]>>
    BY DEF Trie
  <2>3. /\ \A r \in routes : r \in more
        /\ <<p, id>> \in more /\ \A r \in more : r \in routes \/ r = <<p, id>>
    OBVIOUS
  <2>4. \A e : e \in Trie(more) <=> e \in Trie(routes) \/ e = <<StoredNode(p), id>>
    <3> HIDE DEF more
    <3> QED
      BY <2>1, <2>2, <2>3
  <2> QED
    BY <2>4 DEF insert
<1>2. remove(Trie(routes), id) = Trie({r \in routes : r[2] # id})
  BY DEF remove, Trie
<1>3. ASSUME \A i \in 1 .. (Len(p) - 1) : p[i] # ">"
      PROVE  remove_topic(Trie(routes), p, id)
               = Trie({r \in routes : ~(r[2] = id /\ StoredNode(r[1]) = StoredNode(p))})
  <2>1. StoredNode(p) = p
    <3> DEFINE ends == {i \in DOMAIN p : p[i] = ">"}
    <3>1. CASE ends = {}
      BY <3>1 DEF StoredNode
    <3>2. CASE ends # {}
      <4>1. \A i \in ends : i = Len(p)
        BY <1>3
      <4>2. (CHOOSE i \in ends : \A j \in ends : i <= j) = Len(p)
        BY <3>2, <4>1
      <4>3. StoredNode(p) = SubSeq(p, 1, Len(p))
        BY <3>2, <4>2 DEF StoredNode
      <4> QED
        BY <4>3
    <3> QED
      BY <3>1, <3>2
  <2> QED
    BY <2>1 DEF remove_topic, Trie
<1> QED
  BY <1>1, <1>2, <1>3

-----------------------------------------------------------------------------
(* The inductive invariant                                                 *)

RegistryTypes ==
  /\ pattern \in [Ids -> Seq(Tokens)]
  /\ wanted \in Wanted
  /\ \A type \in DOMAIN subscriptions : subscriptions[type] \subseteq {id \in Ids : TypeOf[id] = type}
  /\ reg \in [Ids -> {"new", "typed", "indexed", "listed", "done"}]
  /\ unreg \in [Ids -> {"idle", "err", "typed", "by_topic", "by_scan", "unrouted", "empty", "done"}]
  /\ lookup \in {"idle", "typed", "listing"}

Route(id) == <<StoredNode(pattern[id]), id>>

\* What is in the maps: the trie has only the patterns of the ids; an id that nobody takes
\* out is in it and in the list of its type; one that was taken out is not in the list,
\* unless its unregister overlapped its register.
Listed ==
  /\ topic_trie \subseteq {Route(id) : id \in {i \in Ids : HasTopic(i)}}
  /\ \A id \in Ids :
       /\ reg[id] = "done" /\ HasTopic(id) /\ Kept(id) => Route(id) \in topic_trie
       /\ reg[id] \in {"listed", "done"} /\ Kept(id) /\ Alone(id) => id \in Entries(TypeOf[id])
       /\ unreg[id] # "idle" /\ id \notin overlapped => reg[id] = "done"
       /\ unreg[id] \in {"empty", "done"} /\ id \notin overlapped => id \notin Entries(TypeOf[id])

\* What the lookups of a dispatch have found so far is selected by its rule and was still
\* there when they began.
FoundSelected ==
  /\ \A id \in gone : id \in Ids \ overlapped /\ unreg[id] = "done"
  /\ lookup = "idle" => found = {}
  /\ \A id \in found : id \in Ids /\ Selected(id, wanted) /\ id \notin gone
  /\ lookup = "listing" =>
       \A id \in matching : id \in Ids /\ HasTopic(id) /\ Fits(pattern[id], wanted[2])

\* A subscription that stays is found already or will be: by its type in the first lookup,
\* by its topic in the trie and then in the list of its type.
WillBeFound(id) ==
  IF HasTopic(id)
  THEN lookup = "listing" => id \in found \/ (id \in matching /\ TypeOf[id] \in left)
  ELSE id \in found

Pending ==
  /\ \A id \in standing : id \in Ids /\ reg[id] = "done"
  /\ lookup # "idle" =>
       \A id \in standing : Selected(id, wanted) /\ Kept(id) /\ Alone(id) => WillBeFound(id)

RegistryInv == RegistryTypes /\ Listed /\ FoundSelected /\ Pending

\* The trie returns the ids with a topic that fits, of those that are in it.
LEMMA TrieReturns ==
  ASSUME RegistryTypes, topic_trie \subseteq {Route(id) : id \in {i \in Ids : HasTopic(i)}},
         NEW topic \in Seq(Tokens)
  PROVE  /\ \A id \in match_topic(topic_trie, topic) :
              id \in Ids /\ HasTopic(id) /\ Fits(pattern[id], topic)
         /\ \A id \in Ids : Route(id) \in topic_trie /\ Fits(pattern[id], topic)
              => id \in match_topic(topic_trie, topic)
<1> DEFINE there == {i \in Ids : HasTopic(i) /\ Route(i) \in topic_trie}
           routes == {<<pattern[id], id>> : id \in there}
<1>1. routes \in SUBSET (Seq(Tokens) \X Ids)
  BY DEF RegistryTypes
<1>2. /\ \A r \in routes : r[2] \in there /\ r[1] = pattern[r[2]]
      /\ \A id \in there : <<pattern[id], id>> \in routes
  OBVIOUS
<1>3. \A id \in Ids : Route(id) \in topic_trie => id \in there
  BY DEF Route
<1>4. topic_trie = Trie(routes)
  <2>1. \A e : e \in Trie(routes) <=> \E r \in routes : e = <<StoredNode(r[1]), r[2]>>
    BY DEF Trie
  <2>2. ASSUME NEW e \in topic_trie PROVE e \in Trie(routes)
    <3>1. PICK id \in there : e = Route(id)
      OBVIOUS
    <3> DEFINE r == <<pattern[id], id>>
    <3>2. r \in routes /\ e = <<StoredNode(r[1]), r[2]>>
      BY <3>1, <1>2 DEF Route
    <3> HIDE DEF r, routes
    <3> QED
      BY <3>2, <2>1
  <2>3. ASSUME NEW e \in Trie(routes) PROVE e \in topic_trie
    <3>1. PICK r \in routes : e = <<StoredNode(r[1]), r[2]>>
      BY <2>1
    <3> QED
      BY <3>1, <1>2 DEF Route
  <2> QED
    BY <2>2, <2>3
<1>5. match_topic(topic_trie, topic) = {r[2] : r \in {x \in routes : Fits(x[1], topic)}}
  BY <1>1, <1>4, MatchTopicFits
<1>6. ASSUME NEW id \in match_topic(topic_trie, topic)
      PROVE  id \in Ids /\ HasTopic(id) /\ Fits(pattern[id], topic)
  <2> HIDE DEF routes
  <2>1. PICK r \in routes : Fits(r[1], topic) /\ id = r[2]
    BY <1>5
  <2> QED
    BY <2>1, <1>2
<1>7. ASSUME NEW id \in Ids, Route(id) \in topic_trie, Fits(pattern[id], topic)
      PROVE  id \in match_topic(topic_trie, topic)
  <2> DEFINE r == <<pattern[id], id>>
  <2>1. r \in routes /\ r[1] = pattern[id] /\ r[2] = id
    BY <1>7, <1>2, <1>3
  <2> HIDE DEF r, routes
  <2> QED
    BY <2>1, <1>5, <1>7
<1> QED
  BY <1>6, <1>7

\* What a step does to the lists of subscriptions: an id is added to the list of its type,
\* taken out of it, or the lists of one type or of all of them go.
LEMMA ListsChange ==
  ASSUME RegistryTypes, Next
  PROVE  \/ UNCHANGED subscriptions
         \/ \E id \in Ids :
              /\ RegisterEntry(id)
              /\ \A type : Entries(type)' = IF type = TypeOf[id] THEN Entries(type) \cup {id} ELSE Entries(type)
         \/ \E id \in Ids :
              /\ UnregisterEntry(id)
              /\ \A type : Entries(type)' = IF type = TypeOf[id] THEN Entries(type) \ {id} ELSE Entries(type)
         \/ \E id \in Ids :
              /\ UnregisterEmptyType(id)
              /\ \A type : Entries(type)' = IF type = TypeOf[id] THEN {} ELSE Entries(type)
         \/ ClearEntries /\ \A type : Entries(type)' = {}
<1>1. ASSUME NEW id \in Ids, RegisterEntry(id)
      PROVE  \A type : Entries(type)' = IF type = TypeOf[id] THEN Entries(type) \cup {id} ELSE Entries(type)
  BY <1>1 DEF RegisterEntry, Entries
<1>2. ASSUME NEW id \in Ids, UnregisterEntry(id)
      PROVE  \A type : Entries(type)' = IF type = TypeOf[id] THEN Entries(type) \ {id} ELSE Entries(type)
  BY <1>2 DEF UnregisterEntry, Entries
<1>3. ASSUME NEW id \in Ids, UnregisterEmptyType(id)
      PROVE  \A type : Entries(type)' = IF type = TypeOf[id] THEN {} ELSE Entries(type)
  BY <1>3 DEF UnregisterEmptyType, Entries, Restrict
<1>4. ASSUME ClearEntries PROVE \A type : Entries(type)' = {}
  BY <1>4 DEF ClearEntries, Entries
<1>5. ASSUME NEW id \in Ids, Register(id), ~RegisterEntry(id) PROVE UNCHANGED subscriptions
  BY <1>5 DEF Register, RegisterType, RegisterTopic, RegisterTrie
<1>6. ASSUME NEW id \in Ids, Unregister(id), ~UnregisterEntry(id), ~UnregisterEmptyType(id)
      PROVE  UNCHANGED subscriptions
  BY <1>6 DEF Unregister, UnregisterType, UnregisterTopic, UnregisterTrie
<1>7. ASSUME Clear, ~ClearEntries PROVE UNCHANGED subscriptions
  BY <1>7 DEF Clear, ClearTypes, ClearTrie
<1>8. ASSUME Lookup PROVE UNCHANGED subscriptions
  BY <1>8 DEF Lookup, LookupType, LookupTrie, LookupEntries, LookupEnd, registryVars
<1> QED
  BY <1>1, <1>2, <1>3, <1>4, <1>5, <1>6, <1>7, <1>8 DEF Next

\* The types are preserved.
LEMMA StepKeepsTypes ==
  ASSUME RegistryTypes, Next
  PROVE  RegistryTypes'
<1> DEFINE Control ==
      /\ pattern' = pattern /\ wanted' \in Wanted
      /\ reg' \in [Ids -> {"new", "typed", "indexed", "listed", "done"}]
      /\ unreg' \in [Ids -> {"idle", "err", "typed", "by_topic", "by_scan", "unrouted", "empty", "done"}]
      /\ lookup' \in {"idle", "typed", "listing"}
<1>1. Control
  <2> USE DEF RegistryTypes, lookupVars, registryVars
  <2>1. ASSUME NEW id \in Ids, Register(id) PROVE Control
    BY <2>1 DEF Register, RegisterType, RegisterTopic, RegisterEntry, RegisterTrie
  <2>2. ASSUME NEW id \in Ids, Unregister(id) PROVE Control
    BY <2>2 DEF Unregister, UnregisterType, UnregisterTopic, UnregisterTrie, UnregisterEntry,
       UnregisterEmptyType
  <2>3. CASE Clear
    BY <2>3 DEF Clear, ClearEntries, ClearTypes, ClearTrie
  <2>4. CASE Lookup
    BY <2>4 DEF Lookup, LookupType, LookupTrie, LookupEntries, LookupEnd
  <2> QED
    BY <2>1, <2>2, <2>3, <2>4 DEF Next
<1>2. \A type : Entries(type) \subseteq {id \in Ids : TypeOf[id] = type}
  BY DEF RegistryTypes, Entries
<1>3. \A type : Entries(type)' \subseteq {id \in Ids : TypeOf[id] = type}
  <2>1. CASE UNCHANGED subscriptions
    BY <2>1, <1>2 DEF Entries
  <2> QED
    BY <2>1, <1>2, ListsChange
<1>4. \A type \in DOMAIN subscriptions' : subscriptions'[type] = Entries(type)'
  BY DEF Entries
<1> QED
  BY <1>1, <1>3, <1>4 DEF RegistryTypes

\* Nobody begins to take an id out, and clear is not called, when the next state has
\* neither; and what overlapped stays so.
LEMMA KeptBackwards ==
  ASSUME RegistryTypes, Next
  PROVE  /\ UNCHANGED pattern
         /\ \A id \in Ids : Kept(id)' => Kept(id)
         /\ \A id \in Ids : Alone(id)' => Alone(id)
         /\ overlapped \subseteq overlapped'
         /\ \A id \in Ids : reg[id] = "done" => reg'[id] = "done"
         /\ \A id \in Ids : unreg[id] = "done" => unreg'[id] = "done"
<1> USE DEF RegistryTypes, Kept, Alone, lookupVars, registryVars
<1>1. ASSUME NEW i \in Ids, Register(i)
      PROVE  /\ UNCHANGED <<pattern, unreg, clearing, overlapped>>
             /\ \A id \in Ids : reg[id] = "done" => reg'[id] = "done"
  BY <1>1 DEF Register, RegisterType, RegisterTopic, RegisterEntry, RegisterTrie
<1>2. ASSUME NEW i \in Ids, Unregister(i)
      PROVE  /\ UNCHANGED <<pattern, reg, clearing>> /\ overlapped \subseteq overlapped'
             /\ \A id \in Ids : unreg'[id] = "idle" => unreg[id] = "idle"
             /\ \A id \in Ids : unreg[id] = "done" => unreg'[id] = "done"
  BY <1>2 DEF Unregister, UnregisterType, UnregisterTopic, UnregisterTrie, UnregisterEntry,
     UnregisterEmptyType
<1>3. ASSUME Clear
      PROVE  UNCHANGED <<pattern, reg, unreg, overlapped>> /\ (clearing' = "idle" => clearing = "idle")
  BY <1>3 DEF Clear, ClearEntries, ClearTypes, ClearTrie
<1>4. ASSUME Lookup PROVE UNCHANGED registryVars
  BY <1>4 DEF Lookup, LookupType, LookupTrie, LookupEntries, LookupEnd
<1> QED
  BY <1>1, <1>2, <1>3, <1>4 DEF Next

\* The steps of register and unregister keep what is in the maps; the order of their
\* steps matters for the last two parts: an entry is added when nobody unregisters the
\* id, or while the two overlap.
LEMMA StepKeepsListed ==
  ASSUME RegistryTypes, RegistryTypes', Listed, Next
  PROVE  Listed'
<1> USE KeptBackwards DEF RegistryTypes, lookupVars, registryVars
<1>1. \A id \in Ids : HasTopic(id)' = HasTopic(id) /\ Route(id)' = Route(id)
  BY DEF HasTopic, Route
<1>2. topic_trie' \subseteq {Route(id) : id \in {i \in Ids : HasTopic(i)}}
  <2>1. ASSUME NEW id \in Ids, Register(id)
        PROVE  topic_trie' \subseteq topic_trie \cup {Route(i) : i \in {j \in {id} : HasTopic(j)}}
    BY <2>1 DEF Listed, Register, RegisterType, RegisterTopic, RegisterEntry, RegisterTrie, insert, Route
  <2>2. ASSUME NEW id \in Ids, Unregister(id) PROVE topic_trie' \subseteq topic_trie
    BY <2>2 DEF Unregister, UnregisterType, UnregisterTopic, UnregisterTrie, UnregisterEntry,
       UnregisterEmptyType, remove, remove_topic
  <2>3. ASSUME Clear PROVE topic_trie' \subseteq topic_trie
    BY <2>3 DEF Clear, ClearEntries, ClearTypes, ClearTrie
  <2>4. ASSUME Lookup PROVE topic_trie' = topic_trie
    BY <2>4 DEF Lookup, LookupType, LookupTrie, LookupEntries, LookupEnd
  <2>5. \A id \in Ids : {Route(i) : i \in {j \in {id} : HasTopic(j)}}
                         \subseteq {Route(i) : i \in {j \in Ids : HasTopic(j)}}
    OBVIOUS
  <2>6. topic_trie \subseteq {Route(i) : i \in {j \in Ids : HasTopic(j)}}
    BY DEF Listed
  <2>7. ASSUME NEW id \in Ids, Register(id)
        PROVE  topic_trie' \subseteq {Route(i) : i \in {j \in Ids : HasTopic(j)}}
    BY <2>1, <2>5, <2>6, <2>7
  <2> QED
    BY <2>2, <2>3, <2>4, <2>6, <2>7 DEF Next
<1>3. ASSUME NEW id \in Ids, reg'[id] = "done", HasTopic(id), Kept(id)'
      PROVE  Route(id) \in topic_trie'
  <2>0. Kept(id)
    BY <1>3
  <2>1. CASE reg[id] = "done"
    <3>0. Route(id) \in topic_trie
      BY <2>0, <2>1, <1>3 DEF Listed
    <3>1. ASSUME NEW i \in Ids, Register(i) PROVE Route(id) \in topic_trie'
      BY <3>0, <3>1 DEF Register, RegisterType, RegisterTopic, RegisterEntry, RegisterTrie, insert
    <3>2. ASSUME NEW i \in Ids, Unregister(i) PROVE Route(id) \in topic_trie'
      <4>1. i # id \/ UNCHANGED topic_trie
        BY <3>2, <2>0 DEF Kept, Unregister, UnregisterType, UnregisterTopic, UnregisterTrie,
           UnregisterEntry, UnregisterEmptyType
      <4> QED
        BY <3>0, <3>2, <4>1 DEF Unregister, UnregisterType, UnregisterTopic, UnregisterTrie,
           UnregisterEntry, UnregisterEmptyType, remove, remove_topic, Route
    <3>3. ASSUME Clear PROVE FALSE
      BY <3>3, <1>3 DEF Kept, Clear, ClearEntries, ClearTypes, ClearTrie
    <3>4. ASSUME Lookup PROVE Route(id) \in topic_trie'
      BY <3>0, <3>4 DEF Lookup, LookupType, LookupTrie, LookupEntries, LookupEnd
    <3> QED
      BY <3>1, <3>2, <3>3, <3>4 DEF Next
  <2>2. CASE reg[id] # "done"
    <3>1. RegisterTrie(id)
      <4>1. ASSUME NEW i \in Ids, Register(i) PROVE RegisterTrie(id)
        BY <4>1, <2>2, <1>3 DEF Register, RegisterType, RegisterTopic, RegisterEntry, RegisterTrie
      <4>2. ASSUME NEW i \in Ids, Unregister(i) PROVE UNCHANGED reg
        BY <4>2 DEF Unregister, UnregisterType, UnregisterTopic, UnregisterTrie, UnregisterEntry,
           UnregisterEmptyType
      <4>3. Clear \/ Lookup => UNCHANGED reg
        BY DEF Clear, ClearEntries, ClearTypes, ClearTrie, Lookup, LookupType, LookupTrie,
           LookupEntries, LookupEnd
      <4> QED
        BY <4>1, <4>2, <4>3, <2>2, <1>3 DEF Next
    <3> QED
      BY <3>1, <1>3 DEF RegisterTrie, insert, Route
  <2> QED
    BY <2>1, <2>2
<1>4. ASSUME NEW id \in Ids, reg'[id] \in {"listed", "done"}, Kept(id)', Alone(id)'
      PROVE  id \in Entries(TypeOf[id])'
  <2>0. Kept(id) /\ Alone(id) /\ clearing' = "idle"
    BY <1>4 DEF Kept
  <2>1. reg[id] \in {"listed", "done"} \/ RegisterEntry(id)
    <3>1. ASSUME NEW i \in Ids, Register(i) PROVE reg[id] \in {"listed", "done"} \/ RegisterEntry(id)
      <4>1. RegisterEntry(i) \/ reg'[i] \in {"typed", "indexed"} \/ reg[i] = "listed"
        BY <3>1 DEF Register, RegisterType, RegisterTopic, RegisterTrie
      <4>2. i # id => reg'[id] = reg[id]
        BY <3>1 DEF Register, RegisterType, RegisterTopic, RegisterEntry, RegisterTrie
      <4> QED
        BY <4>1, <4>2, <1>4
    <3>2. ASSUME NEW i \in Ids, Unregister(i) PROVE UNCHANGED reg
      BY <3>2 DEF Unregister, UnregisterType, UnregisterTopic, UnregisterTrie, UnregisterEntry,
         UnregisterEmptyType
    <3>3. Clear \/ Lookup => UNCHANGED reg
      BY DEF Clear, ClearEntries, ClearTypes, ClearTrie, Lookup, LookupType, LookupTrie,
         LookupEntries, LookupEnd
    <3> QED
      BY <3>1, <3>2, <3>3, <1>4 DEF Next
  <2>2. CASE RegisterEntry(id)
    BY <2>2 DEF RegisterEntry, Entries
  <2>3. CASE reg[id] \in {"listed", "done"}
    <3>1. id \in Entries(TypeOf[id])
      BY <2>3, <2>0 DEF Listed
    <3>2. ASSUME NEW i \in Ids, UnregisterEntry(i) \/ UnregisterEmptyType(i) PROVE TypeOf[i] # TypeOf[id]
      BY <3>2, <2>0 DEF Kept, Alone, UnregisterEntry, UnregisterEmptyType
    <3>3. CASE UNCHANGED subscriptions
      BY <3>1, <3>3 DEF Entries
    <3>4. ~ClearEntries
      BY <2>0 DEF ClearEntries
    <3> QED
      BY <3>1, <3>2, <3>3, <3>4, ListsChange
  <2> QED
    BY <2>1, <2>2, <2>3
<1>5. ASSUME NEW id \in Ids, unreg'[id] # "idle", id \notin overlapped' PROVE reg'[id] = "done"
  <2>1. ASSUME unreg[id] = "idle" PROVE UnregisterType(id)
    <3>1. ASSUME NEW i \in Ids, Unregister(i) PROVE UnregisterType(id)
      BY <3>1, <2>1, <1>5 DEF Unregister, UnregisterType, UnregisterTopic, UnregisterTrie,
         UnregisterEntry, UnregisterEmptyType
    <3>2. ASSUME NEW i \in Ids, Register(i) PROVE UNCHANGED unreg
      BY <3>2 DEF Register, RegisterType, RegisterTopic, RegisterEntry, RegisterTrie
    <3>3. Clear \/ Lookup => UNCHANGED unreg
      BY DEF Clear, ClearEntries, ClearTypes, ClearTrie, Lookup, LookupType, LookupTrie,
         LookupEntries, LookupEnd
    <3> QED
      BY <3>1, <3>2, <3>3, <2>1, <1>5 DEF Next
  <2>2. CASE unreg[id] = "idle"
    BY <2>1, <2>2, <1>5 DEF UnregisterType
  <2>3. CASE unreg[id] # "idle"
    BY <2>3, <1>5 DEF Listed
  <2> QED
    BY <2>2, <2>3
<1>6. ASSUME NEW id \in Ids, unreg'[id] \in {"empty", "done"}, id \notin overlapped'
      PROVE  id \notin Entries(TypeOf[id])'
  <2>1. unreg[id] \in {"empty", "done"} \/ UnregisterEntry(id)
    <3>1. ASSUME NEW i \in Ids, Unregister(i) PROVE unreg[id] \in {"empty", "done"} \/ UnregisterEntry(id)
      BY <3>1, <1>6 DEF Unregister, UnregisterType, UnregisterTopic, UnregisterTrie,
         UnregisterEntry, UnregisterEmptyType
    <3>2. ASSUME NEW i \in Ids, Register(i) PROVE UNCHANGED unreg
      BY <3>2 DEF Register, RegisterType, RegisterTopic, RegisterEntry, RegisterTrie
    <3>3. Clear \/ Lookup => UNCHANGED unreg
      BY DEF Clear, ClearEntries, ClearTypes, ClearTrie, Lookup, LookupType, LookupTrie,
         LookupEntries, LookupEnd
    <3> QED
      BY <3>1, <3>2, <3>3, <1>6 DEF Next
  <2>2. CASE UnregisterEntry(id)
    BY <2>2 DEF UnregisterEntry, Entries
  <2>3. CASE unreg[id] \in {"empty", "done"}
    <3>1. id \notin Entries(TypeOf[id]) /\ reg[id] = "done"
      BY <2>3, <1>6 DEF Listed
    <3>2. ~RegisterEntry(id)
      BY <3>1 DEF RegisterEntry
    <3>3. CASE UNCHANGED subscriptions
      BY <3>1, <3>3 DEF Entries
    <3> QED
      BY <3>1, <3>2, <3>3, ListsChange
  <2> QED
    BY <2>1, <2>2, <2>3
<1> QED
  BY <1>1, <1>2, <1>3, <1>4, <1>5, <1>6 DEF Listed

\* What the steps of the writers and those of a dispatch leave to each other.
LEMMA WriterOrLookup ==
  ASSUME RegistryTypes, Next
  PROVE  \/ /\ UNCHANGED lookupVars
            /\ \A id \in Ids : unreg[id] = "done" /\ id \notin overlapped => id \notin overlapped'
         \/ Lookup /\ UNCHANGED registryVars
<1> USE DEF RegistryTypes, lookupVars, registryVars
<1>1. ASSUME NEW i \in Ids, Register(i) PROVE UNCHANGED <<lookupVars, overlapped>>
  BY <1>1 DEF Register, RegisterType, RegisterTopic, RegisterEntry, RegisterTrie
<1>2. ASSUME NEW i \in Ids, Unregister(i)
      PROVE  /\ UNCHANGED lookupVars
             /\ \A id \in Ids : unreg[id] = "done" /\ id \notin overlapped => id \notin overlapped'
  BY <1>2 DEF Unregister, UnregisterType, UnregisterTopic, UnregisterTrie, UnregisterEntry,
     UnregisterEmptyType
<1>3. Clear => UNCHANGED <<lookupVars, overlapped>>
  BY DEF Clear, ClearEntries, ClearTypes, ClearTrie
<1>4. Lookup => UNCHANGED registryVars
  BY DEF Lookup, LookupType, LookupTrie, LookupEntries, LookupEnd
<1> QED
  BY <1>1, <1>2, <1>3, <1>4 DEF Next

\* Every lookup adds only who is selected and, by Listed, nobody who was gone before.
LEMMA StepKeepsFoundSelected ==
  ASSUME RegistryTypes, RegistryTypes', Listed, FoundSelected, Next
  PROVE  FoundSelected'
<1>0. \A type : Entries(type) \subseteq {id \in Ids : TypeOf[id] = type}
  BY DEF RegistryTypes, Entries
<1>1. CASE UNCHANGED lookupVars
           /\ \A id \in Ids : unreg[id] = "done" /\ id \notin overlapped => id \notin overlapped'
  <2>1. \A id \in gone : id \in Ids \ overlapped' /\ unreg'[id] = "done"
    BY <1>1, KeptBackwards DEF FoundSelected
  <2> QED
    BY <1>1, <2>1 DEF FoundSelected, lookupVars, Selected, HasTopic
<1>2. CASE Lookup /\ UNCHANGED registryVars
  <2> USE <1>2 DEF registryVars
  <2>1. ASSUME NEW w \in Wanted, LookupType(w) PROVE FoundSelected'
    <3>1. ASSUME NEW id \in found'
          PROVE  id \in Ids /\ Selected(id, wanted)' /\ id \notin gone'
      BY <2>1, <3>1, <1>0 DEF LookupType, Listed, Selected, HasTopic
    <3> QED
      BY <2>1, <3>1 DEF LookupType, FoundSelected
  <2>2. CASE LookupTrie
    <3>1. wanted[2] \in Seq(Tokens)
      BY RegistryConstants DEF RegistryTypes
    <3>2. \A id \in matching' : id \in Ids /\ HasTopic(id) /\ Fits(pattern[id], wanted[2])
      BY <2>2, <3>1, TrieReturns DEF LookupTrie, Listed
    <3> QED
      BY <2>2, <3>2 DEF LookupTrie, FoundSelected, Selected, HasTopic
  <2>3. ASSUME NEW type \in Types, LookupEntries(type) PROVE FoundSelected'
    <3>1. \A id \in Entries(type) \cap matching :
            id \in Ids /\ Selected(id, wanted) /\ id \notin gone
      BY <2>3, <1>0 DEF LookupEntries, FoundSelected, Listed, Selected
    <3> QED
      BY <2>3, <3>1 DEF LookupEntries, FoundSelected, Selected, HasTopic
  <2>4. CASE LookupEnd
    BY <2>4 DEF LookupEnd, FoundSelected
  <2> QED
    BY <2>1, <2>2, <2>3, <2>4 DEF Lookup
<1> QED
  BY <1>1, <1>2, WriterOrLookup

\* Every lookup finds who is listed when it takes place and, by Listed, whoever was
\* registered when the lookups began and stays.
LEMMA StepKeepsPending ==
  ASSUME RegistryTypes, RegistryTypes', Listed, Pending, Next
  PROVE  Pending'
<1>1. CASE UNCHANGED lookupVars
  BY <1>1, KeptBackwards DEF Pending, WillBeFound, lookupVars, Selected, HasTopic
<1>2. CASE Lookup /\ UNCHANGED registryVars
  <2> USE <1>2 DEF registryVars
  <2>0. \A id \in Ids : Kept(id)' = Kept(id) /\ Alone(id)' = Alone(id) /\ HasTopic(id)' = HasTopic(id)
    BY DEF Kept, Alone, HasTopic
  <2>1. ASSUME NEW w \in Wanted, LookupType(w) PROVE Pending'
    <3>1. ASSUME NEW id \in standing', Selected(id, w), Kept(id), Alone(id), ~HasTopic(id)
          PROVE  id \in found'
      <4>1. id \in Ids /\ reg[id] = "done" /\ TypeOf[id] = w[1]
        BY <2>1, <3>1 DEF LookupType, Selected
      <4>2. id \in Entries(w[1])
        BY <3>1, <4>1 DEF Listed
      <4> QED
        BY <2>1, <3>1, <4>2 DEF LookupType
    <3>2. ASSUME NEW id \in standing', Selected(id, wanted)', Kept(id)', Alone(id)'
          PROVE  WillBeFound(id)'
      <4>1. id \in Ids /\ wanted' = w /\ lookup' = "typed"
        BY <2>1, <3>2 DEF LookupType
      <4>2. ~HasTopic(id) => id \in found'
        BY <4>1, <3>1, <3>2, <2>0 DEF Selected
      <4> QED
        BY <4>1, <4>2, <2>0 DEF WillBeFound
    <3> QED
      BY <2>1, <3>2 DEF LookupType, Pending
  <2>2. CASE LookupTrie
    <3>1. wanted[2] \in Seq(Tokens)
      BY RegistryConstants DEF RegistryTypes
    <3>2. ASSUME NEW id \in standing, Selected(id, wanted), Kept(id), Alone(id)
          PROVE  WillBeFound(id)'
      <4>1. id \in Ids /\ reg[id] = "done" /\ TypeOf[id] \in Types
        BY RegistryConstants DEF Pending
      <4>2. CASE HasTopic(id)
        <5>1. Route(id) \in topic_trie /\ Fits(pattern[id], wanted[2])
          BY <4>1, <4>2, <3>2 DEF Listed, Selected
        <5>2. id \in match_topic(topic_trie, wanted[2])
          BY <5>1, <4>1, <3>1, TrieReturns DEF Listed
        <5> QED
          BY <5>2, <4>1, <4>2, <2>2, <2>0 DEF LookupTrie, WillBeFound
      <4>3. CASE ~HasTopic(id)
        BY <4>1, <4>3, <3>2, <2>2, <2>0 DEF LookupTrie, Pending, WillBeFound
      <4> QED
        BY <4>2, <4>3
    <3> QED
      BY <2>2, <3>2, <2>0 DEF LookupTrie, Pending, Selected, HasTopic
  <2>3. ASSUME NEW type \in Types, LookupEntries(type) PROVE Pending'
    <3>1. ASSUME NEW id \in standing, Selected(id, wanted), Kept(id), Alone(id)
          PROVE  WillBeFound(id)'
      <4>1. id \in Ids /\ reg[id] = "done"
        BY DEF Pending
      <4>2. id \in Entries(TypeOf[id])
        BY <4>1, <3>1 DEF Listed
      <4>3. WillBeFound(id) /\ lookup = "listing"
        BY <2>3, <3>1 DEF LookupEntries, Pending
      <4> QED
        BY <4>1, <4>2, <4>3, <2>3, <2>0 DEF LookupEntries, WillBeFound
    <3> QED
      BY <2>3, <3>1, <2>0 DEF LookupEntries, Pending, Selected, HasTopic
  <2>4. CASE LookupEnd
    BY <2>4 DEF LookupEnd, Pending
  <2> QED
    BY <2>1, <2>2, <2>3, <2>4 DEF Lookup
<1> QED
  BY <1>1, <1>2, WriterOrLookup

\* The maps and the trie of the registry agree, and the lookups of a dispatch with them,
\* between any two steps of register, unregister, clear and dispatch.
THEOREM RegistryInvariant == Spec => []RegistryInv
<1>1. ASSUME Init PROVE RegistryInv
  <2>1. RegistryTypes
    BY <1>1, RegistryConstants DEF Init, RegistryTypes
  <2>2. Listed
    BY <1>1, RegistryConstants DEF Init, Listed, Route, HasTopic, Entries, Kept, Alone
  <2>3. FoundSelected /\ Pending
    BY <1>1 DEF Init, FoundSelected, Pending
  <2> QED
    BY <2>1, <2>2, <2>3 DEF RegistryInv
<1>2. RegistryInv /\ UNCHANGED vars => RegistryInv'
  BY DEF RegistryInv, RegistryTypes, Listed, FoundSelected, Pending, WillBeFound, Route, Entries,
     HasTopic, Kept, Alone, Selected, vars
<1>3. RegistryInv /\ Next => RegistryInv'
  BY StepKeepsTypes, StepKeepsListed, StepKeepsFoundSelected, StepKeepsPending DEF RegistryInv
<1> QED
  BY <1>1, <1>2, <1>3, PTL DEF Spec

-----------------------------------------------------------------------------
(* The properties                                                          *)

\* Dispatch finds only whom its rule selects, and nobody who was unregistered before.
THEOREM NoOtherFound == Spec => []FindsNoOther
<1>1. RegistryInv => FindsNoOther
  BY DEF RegistryInv, FoundSelected, FindsNoOther
<1> QED
  BY <1>1, RegistryInvariant, PTL

\* Dispatch finds every subscription that was registered before and stays, when no other
\* one of its type is taken out.
THEOREM RegisteredFound == Spec => []FindsRegistered
<1>1. RegistryInv => FindsRegistered
  <2> SUFFICES ASSUME RegistryInv, Looked, NEW id \in standing, Selected(id, wanted), Kept(id),
                      Alone(id)
               PROVE  id \in found
    BY DEF FindsRegistered
  <2>1. WillBeFound(id) /\ lookup = "listing" /\ left = {}
    BY DEF RegistryInv, Pending, Looked
  <2> QED
    BY <2>1 DEF WillBeFound
<1> QED
  BY <1>1, RegistryInvariant, PTL
=============================================================================
