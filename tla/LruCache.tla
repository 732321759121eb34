------------------------------- MODULE LruCache -------------------------------
(***************************************************************************)
(* homemade-infra/LruCache: a list of key-value pairs, most recently used  *)
(* first, and a hash map from keys to their nodes.  A node of std::list    *)
(* keeps its identity while it is spliced, so a map entry is the name of a *)
(* node; a name may be used again once its node is gone, as memory is.     *)
(***************************************************************************)
EXTENDS Integers, Sequences, FiniteSets, SequencesExt

CONSTANTS
  LruKeys, LruValues,
  LruCapacity,  \* m_capacity; with 0 put() would call back() on an empty list
  Absent        \* nullopt

VARIABLES
  list,         \* m_cacheList: the nodes, front first
  node,         \* node[n]: the key and value of a node in the list
  map,          \* m_cacheMap: from keys to nodes
  found         \* what the last get returned

vars == <<list, node, map, found>>

\* What the constants must be; MCContainers assumes it.
LruAssumption ==
  /\ IsFiniteSet(LruKeys) /\ LruCapacity \in Nat \ {0} /\ Absent \notin LruValues

Init == list = << >> /\ node = << >> /\ map = << >> /\ found = Absent

--------------------------------------------------------------------------------
\* splice(begin(), list, n)
ToFront(n) == \E i \in DOMAIN list : list[i] = n /\ list' = <<n>> \o RemoveAt(list, i)

\* Mutant of get: a hit does not move the node.
get_stays(key) ==
  /\ found' = IF key \in DOMAIN map THEN node[map[key]].value ELSE Absent
  /\ UNCHANGED <<list, node, map>>

get(key) ==
  /\ IF key \in DOMAIN map
       THEN found' = node[map[key]].value /\ ToFront(map[key])
       ELSE found' = Absent /\ UNCHANGED list
  /\ UNCHANGED <<node, map>>

\* put of a key that is there: its node gets the value and goes to the front.
update(key, value) ==
  /\ key \in DOMAIN map
  /\ node' = [node EXCEPT ![map[key]].value = value]
  /\ ToFront(map[key])
  /\ UNCHANGED <<map, found>>

\* emplace_front of a new pair, when the list is kept and the map has the keys left.
Inserted(kept, left, key, value) ==
  LET n == CHOOSE m \in 1..Len(kept) + 1 : m \notin ToSet(kept)
  IN  /\ list' = <<n>> \o kept
      /\ node' = [m \in ToSet(list') |-> IF m = n THEN [key |-> key, value |-> value]
                                                  ELSE node[m]]
      /\ map' = [k \in left \cup {key} |-> IF k = key THEN n ELSE map[k]]

\* put of a new key: a full cache forgets its last node, and its key, first.
insert(key, value) ==
  /\ key \notin DOMAIN map
  /\ IF Len(list) = LruCapacity
       THEN Inserted(Front(list), DOMAIN map \ {node[Last(list)].key}, key, value)
       ELSE Inserted(list, DOMAIN map, key, value)
  /\ UNCHANGED found

put(key, value) == update(key, value) \/ insert(key, value)

Next == \E k \in LruKeys : get(k) \/ \E v \in LruValues : put(k, v)

Spec == Init /\ [][Next]_vars

--------------------------------------------------------------------------------
(***************************************************************************)
(* List and map agree: the map has the keys of the list's nodes and sends  *)
(* each to its node, so no iterator in the map dangles.                    *)
(***************************************************************************)
TypeOK ==
  /\ IsInjective(list) /\ Len(list) <= LruCapacity
  /\ node \in [ToSet(list) -> [key : LruKeys, value : LruValues]]
  /\ DOMAIN map = {node[n].key : n \in DOMAIN node}
  /\ \A n \in DOMAIN node : map[node[n].key] = n

(***************************************************************************)
(* The cache is its list read through the nodes: it holds the keys put or  *)
(* found last, each with the value last put, evicts the least recently     *)
(* used one and no other, and get answers what put stored, also when a new *)
(* node has taken the place of an old one.                                 *)
(***************************************************************************)
Recency == INSTANCE RecencyCache
  WITH CacheKeys <- LruKeys, CacheValues <- LruValues, Bound <- LruCapacity,
       NoValue <- Absent, recent <- [i \in DOMAIN list |-> node[list[i]]], answer <- found

ImplementsRecency == Recency!Spec
================================================================================
