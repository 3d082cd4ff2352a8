------------------------------ MODULE Registry ------------------------------
(***************************************************************************)
(* DashMapRegistry: four concurrent maps and a trie that is replaced as a  *)
(* whole (arc_swap rcu), written by register, unregister and clear in      *)
(* several steps each, and read by SubscriptionManager::dispatch, also in  *)
(* several steps. Each step is one operation on one map.                   *)
(*                                                                         *)
(* An id is registered at most once (a fresh Uuid). It is unregistered at  *)
(* most once, by its owner, the cleaner or a graceful shutdown, which may  *)
(* do so while register still runs.                                        *)
(***************************************************************************)
EXTENDS TopicTrie, FiniteSets, Functions

CONSTANTS
  Ids,      \* subscription ids
  EarlyIds, \* the ones that are registered in the beginning
  Leavers,  \* the ones that may be unregistered
  Types,    \* event types (TypeId)
  TypeOf,   \* TypeOf[id]: the type id subscribes to
  Tokens,   \* what topics and patterns are made of
  Patterns, \* Patterns[id]: the topic patterns it may have, <<>> for none
  Wanted    \* pairs <<type, topic>> of the events to be routed

ASSUME RegistryConstants ==
  /\ EarlyIds \subseteq Ids
  /\ Leavers \subseteq Ids
  /\ TypeOf \in [Ids -> Types]
  /\ DOMAIN Patterns = Ids
  /\ {"*", ">"} \subseteq Tokens
  /\ UNION Range(Patterns) \subseteq Seq(Tokens)
  /\ \A w \in Wanted : w[1] \in Types /\ w[2] \in Seq(Tokens)

VARIABLES
  pattern,               \* the topic pattern of each id
  subscriptions,         \* TypeId -> the entries of that type
  subscription_to_type,  \* ids that have an entry in this map
  subscription_to_topic, \* ids that have an entry in this map
  topic_trie,
  reg,                   \* progress of register for each id
  unreg,                 \* progress of unregister for each id
  clearing,              \* progress of clear
  lookup,                \* progress of the lookups of one dispatch
  wanted,                \* the event they are for
  matching,              \* ids the trie returned
  left,                  \* types that get_topic_subscriptions has not visited
  found,                 \* entries found so far
  overlapped,            \* history: ids whose unregister began before register returned
  standing,              \* history: ids registered when the lookups began...
  gone                   \* ... and ids that were registered and unregistered by then

vars == <<pattern, subscriptions, subscription_to_type, subscription_to_topic, topic_trie,
          reg, unreg, clearing, overlapped, lookup, wanted, matching, left, found, standing, gone>>

\* The lookups of one dispatch, and what never changes.
lookupVars == <<pattern, lookup, wanted, matching, left, found, standing, gone>>

HasTopic(id) == pattern[id] # <<>>

Entries(type) == IF type \in DOMAIN subscriptions THEN subscriptions[type] ELSE {}

Init ==
  /\ pattern \in {p \in [Ids -> UNION Range(Patterns)] : \A id \in Ids : p[id] \in Patterns[id]}
  /\ subscriptions = [type \in {TypeOf[id] : id \in EarlyIds} |->
                        {id \in EarlyIds : TypeOf[id] = type}]
  /\ subscription_to_type = EarlyIds
  /\ subscription_to_topic = {id \in EarlyIds : HasTopic(id)}
  /\ topic_trie = {<<StoredNode(pattern[id]), id>> : id \in {i \in EarlyIds : HasTopic(i)}}
  /\ reg = [id \in Ids |-> IF id \in EarlyIds THEN "done" ELSE "new"]
  /\ unreg = [id \in Ids |-> "idle"]
  /\ clearing = "idle"
  /\ overlapped = {}
  /\ lookup = "idle"
  /\ wanted \in Wanted
  /\ matching = {}
  /\ left = {}
  /\ found = {}
  /\ standing = {}
  /\ gone = {}

-----------------------------------------------------------------------------
(* register                                                                *)

RegisterType(id) ==
  /\ reg[id] = "new"
  /\ reg' = [reg EXCEPT ![id] = "typed"]
  /\ subscription_to_type' = subscription_to_type \cup {id}
  /\ UNCHANGED <<subscriptions, subscription_to_topic, topic_trie, unreg, clearing,
                 overlapped, lookupVars>>

RegisterTopic(id) ==
  /\ reg[id] = "typed"
  /\ reg' = [reg EXCEPT ![id] = "indexed"]
  /\ subscription_to_topic' = subscription_to_topic \cup {i \in {id} : HasTopic(i)}
  /\ UNCHANGED <<subscriptions, subscription_to_type, topic_trie, unreg, clearing,
                 overlapped, lookupVars>>

\* subscriptions.entry(event_type).or_default().push(..), under the lock of the shard.
RegisterEntry(id) ==
  /\ reg[id] = "indexed"
  /\ reg' = [reg EXCEPT ![id] = "listed"]
  /\ subscriptions' = [type \in DOMAIN subscriptions \cup {TypeOf[id]} |->
                         Entries(type) \cup {i \in {id} : TypeOf[i] = type}]
  /\ UNCHANGED <<subscription_to_type, subscription_to_topic, topic_trie, unreg, clearing,
                 overlapped, lookupVars>>

RegisterTrie(id) ==
  /\ reg[id] = "listed"
  /\ reg' = [reg EXCEPT ![id] = "done"]
  /\ topic_trie' = IF HasTopic(id) THEN insert(topic_trie, pattern[id], id) ELSE topic_trie
  /\ UNCHANGED <<subscriptions, subscription_to_type, subscription_to_topic, unreg,
                 clearing,
                 overlapped, lookupVars>>

-----------------------------------------------------------------------------
(* unregister                                                              *)

\* The entry in subscription_to_type decides whether there is anything to do.
UnregisterType(id) ==
  /\ id \in Leavers
  /\ reg[id] # "new"
  /\ unreg[id] = "idle"
  /\ unreg' = [unreg EXCEPT ![id] = IF id \in subscription_to_type THEN "typed" ELSE "err"]
  /\ subscription_to_type' = subscription_to_type \ {id}
  /\ overlapped' = overlapped \cup {i \in {id} : reg[i] # "done"}
  /\ UNCHANGED <<subscriptions, subscription_to_topic, topic_trie, reg, clearing,
                 lookupVars>>

\* Whether the reverse index knows the topic decides how the trie is searched.
UnregisterTopic(id) ==
  /\ unreg[id] = "typed"
  /\ unreg' = [unreg EXCEPT ![id] =
                 IF id \in subscription_to_topic THEN "by_topic" ELSE "by_scan"]
  /\ subscription_to_topic' = subscription_to_topic \ {id}
  /\ UNCHANGED <<subscriptions, subscription_to_type, topic_trie, reg, clearing,
                 overlapped, lookupVars>>

\* Mutant of UnregisterTrie: the whole node goes, with the other subscriptions at it.
UnregisterTrie_Node(id) ==
  /\ unreg[id] \in {"by_topic", "by_scan"}
  /\ unreg' = [unreg EXCEPT ![id] = "unrouted"]
  /\ topic_trie' = {entry \in topic_trie : entry[1] # pattern[id]}
  /\ UNCHANGED <<subscriptions, subscription_to_type, subscription_to_topic, reg, clearing,
                 overlapped, lookupVars>>

UnregisterTrie(id) ==
  /\ unreg[id] \in {"by_topic", "by_scan"}
  /\ unreg' = [unreg EXCEPT ![id] = "unrouted"]
  /\ topic_trie' = IF unreg[id] = "by_topic" THEN remove_topic(topic_trie, pattern[id], id)
                   ELSE remove(topic_trie, id)
  /\ UNCHANGED <<subscriptions, subscription_to_type, subscription_to_topic, reg, clearing,
                 overlapped, lookupVars>>

\* Mutant of UnregisterEntry: the list of the type is left as it is.
UnregisterEntry_Kept(id) ==
  /\ unreg[id] = "unrouted"
  /\ unreg' = [unreg EXCEPT ![id] = "done"]
  /\ UNCHANGED <<subscriptions, subscription_to_type, subscription_to_topic, topic_trie,
                 reg,
                 clearing, overlapped, lookupVars>>

\* get_mut(&event_type), retain, is_empty, under the lock of the shard...
UnregisterEntry(id) ==
  /\ unreg[id] = "unrouted"
  /\ unreg' = [unreg EXCEPT ![id] = IF TypeOf[id] \in DOMAIN subscriptions
                                       /\ subscriptions[TypeOf[id]] \subseteq {id}
                                    THEN "empty" ELSE "done"]
  /\ subscriptions' = [type \in DOMAIN subscriptions |->
                         IF type = TypeOf[id] THEN Entries(type) \ {id} ELSE Entries(type)]
  /\ UNCHANGED <<subscription_to_type, subscription_to_topic, topic_trie, reg, clearing,
                 overlapped, lookupVars>>

\* ... and, with the lock released in between, remove(&event_type).
UnregisterEmptyType(id) ==
  /\ unreg[id] = "empty"
  /\ unreg' = [unreg EXCEPT ![id] = "done"]
  /\ subscriptions' = Restrict(subscriptions, DOMAIN subscriptions \ {TypeOf[id]})
  /\ UNCHANGED <<subscription_to_type, subscription_to_topic, topic_trie, reg, clearing,
                 overlapped, lookupVars>>

-----------------------------------------------------------------------------
(* clear, called by SubscriptionManager::shutdown                          *)

ClearEntries ==
  /\ clearing = "idle"
  /\ clearing' = "entries"
  /\ subscriptions' = <<>>
  /\ UNCHANGED <<subscription_to_type, subscription_to_topic, topic_trie, reg, unreg,
                 overlapped, lookupVars>>

ClearTypes ==
  /\ clearing = "entries"
  /\ clearing' = "types"
  /\ subscription_to_type' = {}
  /\ UNCHANGED <<subscriptions, subscription_to_topic, topic_trie, reg, unreg,
                 overlapped, lookupVars>>

\* The trie is replaced; subscription_to_topic keeps its entries.
ClearTrie ==
  /\ clearing = "types"
  /\ clearing' = "done"
  /\ topic_trie' = {}
  /\ UNCHANGED <<subscriptions, subscription_to_type, subscription_to_topic, reg, unreg,
                 overlapped, lookupVars>>

-----------------------------------------------------------------------------
(* The lookups of SubscriptionManager::dispatch                            *)

registryVars == <<pattern, subscriptions, subscription_to_type, subscription_to_topic,
                  topic_trie, reg, unreg, clearing, overlapped>>

\* get_subscriptions(event_type), without the entries that have a topic.
LookupType(w) ==
  /\ lookup = "idle"
  /\ lookup' = "typed"
  /\ wanted' = w
  /\ found' = {id \in Entries(w[1]) : ~HasTopic(id)}
  /\ standing' = {id \in Ids : reg[id] = "done"}
  /\ gone' = {id \in Ids \ overlapped : unreg[id] = "done"}
  /\ UNCHANGED <<registryVars, matching, left>>

\* get_topic_subscriptions loads the trie once...
LookupTrie ==
  /\ lookup = "typed"
  /\ lookup' = "listing"
  /\ matching' = match_topic(topic_trie, wanted[2])
  /\ left' = IF matching' = {} THEN {} ELSE Types
  /\ UNCHANGED <<registryVars, wanted, found, standing, gone>>

\* ... and then collects the matching entries, one shard after the other.
LookupEntries(type) ==
  /\ lookup = "listing"
  /\ type \in left
  /\ left' = left \ {type}
  /\ found' = found \cup (Entries(type) \cap matching)
  /\ UNCHANGED <<registryVars, lookup, wanted, matching, standing, gone>>

\* The event goes to what was found, and the next one is looked up.
LookupEnd ==
  /\ lookup = "listing"
  /\ left = {}
  /\ lookup' = "idle"
  /\ matching' = {}
  /\ found' = {}
  /\ standing' = {}
  /\ gone' = {}
  /\ UNCHANGED <<registryVars, wanted, left>>

-----------------------------------------------------------------------------
Register(id) == RegisterType(id) \/ RegisterTopic(id) \/ RegisterEntry(id) \/ RegisterTrie(id)

Unregister(id) ==
  \/ UnregisterType(id) \/ UnregisterTopic(id) \/ UnregisterTrie(id)
  \/ UnregisterEntry(id) \/ UnregisterEmptyType(id)

Clear == ClearEntries \/ ClearTypes \/ ClearTrie

Lookup ==
  \/ \E w \in Wanted : LookupType(w)
  \/ LookupTrie
  \/ \E type \in Types : LookupEntries(type)
  \/ LookupEnd

Next == (\E id \in Ids : Register(id) \/ Unregister(id)) \/ Clear \/ Lookup

Spec == Init /\ [][Next]_vars

-----------------------------------------------------------------------------
(* Properties                                                              *)

\* Whom dispatch selects: the subscriptions without a topic by type, the others by topic
\* alone, by the reference definition of wildcard matching. An event of another type reaches
\* the latter too; its get_event::<T> fails, it is retried and ends as a dead letter.
Selected(id, w) == IF HasTopic(id) THEN Fits(pattern[id], w[2]) ELSE TypeOf[id] = w[1]

\* Whom an event concerns according to EventBus::subscribe_topic: "The handler will only
\* execute if the event is both of type `T` AND published with a matching topic". The code
\* selects more than that.
Concerned(id, w) == TypeOf[id] = w[1] /\ (HasTopic(id) => Fits(pattern[id], w[2]))

Looked == lookup = "listing" /\ left = {}

\* Dispatch finds only whom its rule selects, and nobody whose unregister had returned Ok
\* before the lookups began, although it reads the trie and the shards at different times.
\* (The rule is that of SubscriptionManager::dispatch; the documented one, Concerned, would be
\* violated. An unregister that overlaps register may leave the entry behind.)
FindsNoOther ==
  Looked => \A id \in found : Selected(id, wanted) /\ id \notin gone

\* Still registered: nobody has begun to take id out.
Kept(id) == unreg[id] = "idle" /\ clearing = "idle"

\* Nobody takes out another subscription of the same type.
Alone(id) == \A i \in Ids \ {id} : TypeOf[i] = TypeOf[id] => unreg[i] = "idle"

\* Dispatch finds every subscription its rule selects that was registered before its lookups
\* began and is not being taken out, if no other subscription of that type is either, while
\* others come and go in the trie and in the maps.
FindsRegistered ==
  Looked => \A id \in standing :
              Selected(id, wanted) /\ Kept(id) /\ Alone(id) => id \in found

\* registry/mod.rs on EventRegistry: "the dispatcher queries the registry to find all
\* active subscriptions interested in that event", and implementations "must be
\* thread-safe".
FindsAllActive ==
  Looked => \A id \in standing : Concerned(id, wanted) /\ Kept(id) => id \in found
=============================================================================
