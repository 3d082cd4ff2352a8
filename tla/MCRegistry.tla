----------------------------- MODULE MCRegistry -----------------------------
(***************************************************************************)
(* Small instances of Registry for TLC, and the trie on its own against    *)
(* the reference definition of wildcard matching, for bounded patterns.    *)
(***************************************************************************)
EXTENDS Registry

CONSTANTS i1, i2, i3, T1, T2,
          MaxTokens \* bound on the length of the patterns and topics tried on the trie

McTypeOf == [id \in Ids |-> IF id = i3 THEN T2 ELSE T1]
\* i1 and i2 share a type; i1 subscribes by type. The patterns of i2 and i3 overlap, and
\* the last one of i3, which goes on after its `>`, is stored as another one.
McPatterns == [id \in Ids |-> CASE id = i1 -> {<<>>}
                                [] id = i2 -> {<<"a", ">">>, <<"*", "b">>}
                                [] id = i3 -> {<<"a", ">">>, <<"a", "*">>, <<"a", ">", "b">>}]
OnePattern == [id \in Ids |-> IF id = i1 THEN {<<>>} ELSE {<<"a", ">">>}]
\* A topic that `a.>` just fails to match, and one that all the patterns match.
McWanted == {<<T1, <<"a">>>>, <<T2, <<"a", "b">>>>}
\* One that concerns i1 and i2 alike.
RaceWanted == {<<T1, <<"a", "b">>>>}

\* Patterns whose only `>`, if any, is the last token, and literal topics: wildcards
\* in a topic mean nothing.
SomePatterns ==
  LET Words(n) == [1..n -> {"a", "b", "*"}]
  IN  UNION {Words(n) \cup {Append(w, ">") : w \in Words(n - 1)} : n \in 1..MaxTokens}

SomeTopics == UNION {[1..n -> {"a", "b", ">"}] : n \in 1..MaxTokens}

\* match_topic returns exactly the ids whose pattern the topic fits: of two patterns
\* neither shadows the other at a shared node, and removing one, by its topic or by the
\* full scan, takes out that one only.
ASSUME TrieMatchesReference ==
  \A p, q \in SomePatterns : \A topic \in SomeTopics :
    LET fitting(ids) == {id \in ids : Fits(IF id = 1 THEN p ELSE q, topic)}
        trie == insert(insert({}, p, 1), q, 2)
    IN  /\ match_topic(trie, topic) = fitting({1, 2})
        /\ match_topic(remove_topic(trie, p, 1), topic) = fitting({2})
        /\ match_topic(remove(trie, 1), topic) = fitting({2})
=============================================================================
