------------------------------ MODULE TopicTrie ------------------------------
(***************************************************************************)
(* The trie of topic patterns (registry/topic_trie.rs). A node is named by *)
(* the path of tokens that leads to it, "*" for any_child and ">" for      *)
(* trailing_child, and a trie is the set of the pairs <<node, id>> of its  *)
(* subscriptions: nodes without any below them change no result.           *)
(***************************************************************************)
EXTENDS Naturals, Sequences

\* Where insert stops: `>` ends a pattern, whatever follows it is ignored.
StoredNode(pattern) ==
  LET ends == {i \in DOMAIN pattern : pattern[i] = ">"}
  IN  IF ends = {} THEN pattern
      ELSE SubSeq(pattern, 1, CHOOSE i \in ends : \A j \in ends : i <= j)

insert(trie, pattern, id) == trie \cup {<<StoredNode(pattern), id>>}

\* remove_topic_recursive walks down the whole pattern, also past a `>`.
remove_topic(trie, pattern, id) == trie \ {<<pattern, id>>}

\* remove_recursive scans every node.
remove(trie, id) == {entry \in trie : entry[2] # id}

\* The nodes that match_recursive reaches after the first d tokens of a topic: from
\* each node to the literal child and to any_child.
Reached(topic) ==
  LET reached[d \in 0..Len(topic)] ==
        IF d = 0 THEN {<<>>}
        ELSE {Append(node, token) : node \in reached[d - 1],
                                    token \in ({topic[d]} \ {">"}) \cup {"*"}}
  IN  reached

\* The ids at the nodes reached with the last token, and those below a `>` on the way.
match_topic(trie, topic) ==
  LET hit == Reached(topic)[Len(topic)]
      trailing == {Append(node, ">") : node \in UNION {Reached(topic)[d] : d \in 0..(Len(topic) - 1)}}
  IN  {entry[2] : entry \in {e \in trie : e[1] \in hit \cup trailing}}

-----------------------------------------------------------------------------
(* Reference definition of wildcard matching, from the documentation       *)

\* "`*` matches exactly one token, `>` matches one or more trailing tokens".
Fits(pattern, topic) ==
  LET p == StoredNode(pattern)
      n == Len(p)
  IN  IF n > 0 /\ p[n] = ">"
      THEN n <= Len(topic) /\ \A i \in 1..(n - 1) : p[i] \in {"*", topic[i]}
      ELSE n = Len(topic) /\ \A i \in 1..n : p[i] \in {"*", topic[i]}
=============================================================================
