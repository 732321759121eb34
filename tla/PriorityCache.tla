----------------------------- MODULE PriorityCache -----------------------------
(***************************************************************************)
(* priority_LRU.cpp: a cache that evicts expired items first and then the  *)
(* least recently used item of the lowest priority.  priorityMap sends a   *)
(* priority to a list of items, most recently used first; cache sends a    *)
(* key to its node in one of the lists.                                    *)
(*                                                                         *)
(* Get and Set erase a node and go on to read item.priority, which is then *)
(* in freed memory: the constant Priorities holds what they may find there *)
(* (the same value both times, as nothing of the node's size is allocated  *)
(* in between).  Set goes on to write there as well: it assigns the value  *)
(* to a string that was destroyed, which is harmless while both values fit *)
(* into the string object, and may damage the heap if one does not.        *)
(***************************************************************************)
EXTENDS Integers, Sequences, FiniteSets, FiniteSetsExt, SequencesExt

CONSTANTS
  Keys, Values,
  Long,       \* the values that do not fit into a std::string and have a buffer of their own
  Priorities, \* a finite set of integers
  Expiries,   \* what a client may give as expireTime
  MaxItems,   \* maxItems
  MaxTime,    \* bound of a run: how far the clock runs
  Empty       \* ""

\* What the constants must be; MCContainers assumes it.
CacheAssumption ==
  /\ IsFiniteSet(Keys) /\ IsFiniteSet(Priorities) /\ Priorities \subseteq Int
  /\ Long \subseteq Values
  /\ Expiries \subseteq Int /\ MaxItems \in Nat /\ MaxTime \in Nat
  /\ Empty \notin Values

VARIABLES
  lists,      \* priorityMap: its entries, each a sequence of nodes
  item,       \* item[n]: the CacheItem of a node that has not been freed
  cache,      \* from keys to nodes
  g_Time,
  result,     \* what the last Get returned
  corrupt,    \* the heap has been damaged
  last,       \* history: last[k] is the item of the last Set of a cached k
  newer       \* history: pairs of cached keys, the first's last Set or answered Get
              \* being the later one

storeVars == <<lists, item, cache>>
vars == <<storeVars, g_Time, result, corrupt, last, newer>>

Init ==
  /\ lists = << >> /\ item = << >> /\ cache = << >>
  /\ g_Time = 0
  /\ result = Empty
  /\ corrupt = FALSE
  /\ last = << >> /\ newer = {}

--------------------------------------------------------------------------------
\* What the functions work on.
Store(ls, it, ca) == [lists |-> ls, item |-> it, cache |-> ca]

Stored == Store(lists, item, cache)

\* Mutant of Expired: an item lives through the instant it expires at.
ExpiredLate(n) == item[n].expireTime < g_Time

Expired(n) == item[n].expireTime <= g_Time

\* if (priorityMap[p].empty()) priorityMap.erase(p): [] makes a missing entry.
EraseIfEmpty(ls, p) ==
  IF p \in DOMAIN ls /\ ls[p] # << >> THEN ls
  ELSE [q \in DOMAIN ls \ {p} |-> ls[q]]

\* A list without some nodes: place r has the node with r - 1 of those left before it.
Kept(list, nodes) ==
  LET left == {i \in DOMAIN list : list[i] \notin nodes}
  IN  [r \in 1..Cardinality(left) |->
         list[CHOOSE i \in left : Cardinality({j \in left : j < i}) = r - 1]]

\* The node n is erased from its list, and the list's entry if it looks empty,
\* where freed is the priority read after the erase.
Removed(n, freed) ==
  Store(EraseIfEmpty([lists EXCEPT ![item[n].priority] = Kept(@, {n})], freed),
        [m \in DOMAIN item \ {n} |-> item[m]], cache)

\* The name of a node that is not in use.
NewNode(it) == CHOOSE m \in 1..Cardinality(DOMAIN it) + 1 : m \notin DOMAIN it

\* push_front of a new node on the list of its priority, made if need be.
Pushed(store, k, it) ==
  LET n == NewNode(store.item)
      old == IF it.priority \in DOMAIN store.lists THEN store.lists[it.priority] ELSE << >>
  IN  Store([p \in DOMAIN store.lists \cup {it.priority} |->
               IF p = it.priority THEN <<n>> \o old ELSE store.lists[p]],
            [m \in DOMAIN store.item \cup {n} |-> IF m = n THEN it ELSE store.item[m]],
            [j \in DOMAIN store.cache \cup {k} |-> IF j = k THEN n ELSE store.cache[j]])

\* Nodes erased from their lists, whose entries stay, and their keys from cache.
Without(store, nodes) ==
  Store([p \in DOMAIN store.lists |-> Kept(store.lists[p], nodes)],
        [n \in DOMAIN store.item \ nodes |-> store.item[n]],
        [k \in DOMAIN store.cache \ {store.item[n].key : n \in nodes} |-> store.cache[k]])

\* Evict's scan meets m before n: the lowest priority first, each list from its front.
MetBefore(m, n) ==
  \/ item[m].priority < item[n].priority
  \/ \E p \in DOMAIN lists : \E i, j \in DOMAIN lists[p] :
       i < j /\ lists[p][i] = m /\ lists[p][j] = n

\* The expired nodes before which too few were erased to make room for one more.
FirstExpired ==
  LET expired == {n \in DOMAIN item : Expired(n)}
  IN  {n \in expired : Cardinality({m \in expired : MetBefore(m, n)})
                          <= Cardinality(DOMAIN cache) - MaxItems}

\* Step 1 of Evict.
EvictExpired == Without(Stored, FirstExpired)

\* The priorities with items.
InUse(store) == {p \in DOMAIN store.lists : store.lists[p] # << >>}

\* Empty lists lose their entries.
Cleaned(store) == Store([p \in InUse(store) |-> store.lists[p]], store.item, store.cache)

\* Mutant of EvictLowest: the front item of the lowest priority goes.
EvictLowestFront(store) ==
  Cleaned(IF InUse(store) = {} THEN store
          ELSE Without(store, {Head(store.lists[Min(InUse(store))])}))

\* Step 2, after empty lists are cleaned up: the last item of the lowest priority.
EvictLowest(store) ==
  Cleaned(IF InUse(store) = {} THEN store
          ELSE Without(store, {Last(store.lists[Min(InUse(store))])}))

Evicted ==
  LET store == EvictExpired
  IN  IF Cardinality(DOMAIN store.cache) < MaxItems THEN store ELSE EvictLowest(store)

--------------------------------------------------------------------------------
Becomes(store) ==
  lists' = store.lists /\ item' = store.item /\ cache' = store.cache

\* The histories after k was used, or after some keys have gone.
StillCached(pairs) == pairs \cap ((DOMAIN cache') \X (DOMAIN cache'))

Used(k) ==
  newer' = StillCached({pair \in newer : k \notin {pair[1], pair[2]}}
                         \cup {k} \X (DOMAIN cache \ {k}))

Forget ==
  /\ last' = [k \in DOMAIN cache' |-> last[k]]
  /\ newer' = StillCached(newer)

GetAbsent(key) ==
  /\ key \notin DOMAIN cache
  /\ result' = Empty
  /\ UNCHANGED <<storeVars, last, newer>>

GetExpired(key) ==
  /\ key \in DOMAIN cache /\ Expired(cache[key])
  /\ \E freed \in Priorities :
       \E store \in {Removed(cache[key], freed)} :
         Becomes(Store(store.lists, store.item, [k \in DOMAIN cache \ {key} |-> cache[k]]))
  /\ result' = Empty
  /\ Forget

\* A hit moves the node to the front of its list.
GetHit(key) ==
  /\ key \in DOMAIN cache /\ ~Expired(cache[key])
  /\ LET n == cache[key]
     IN  /\ lists' = [lists EXCEPT ![item[n].priority] = <<n>> \o Kept(@, {n})]
         /\ result' = item[n].value
  /\ UNCHANGED <<item, cache, last>>
  /\ Used(key)

\* Nothing is known of what a damaged heap answers, and it is not followed further.
GetDamaged ==
  /\ corrupt
  /\ result' \in Values \cup {Empty}
  /\ UNCHANGED <<storeVars, last, newer>>

Get(key) ==
  /\ \/ ~corrupt /\ (GetAbsent(key) \/ GetExpired(key) \/ GetHit(key))
     \/ GetDamaged
  /\ UNCHANGED <<g_Time, corrupt>>

\* item.value = value, where item was destroyed: the buffer of an old long value
\* has been freed, and is written or freed again; the buffer of a new long value
\* may be allocated where the item was, and its bytes replace the pointer to it.
Damage(old, new) == IF {old, new} \cap Long # {} THEN BOOLEAN ELSE {FALSE}

\* A key that is there loses its node and gets a new one; for a new key a full
\* cache evicts first.
Set(key, it) ==
  /\ ~corrupt
  /\ IF key \in DOMAIN cache
       THEN \E freed \in Priorities : Becomes(Pushed(Removed(cache[key], freed), key, it))
       ELSE Becomes(Pushed(IF Cardinality(DOMAIN cache) >= MaxItems THEN Evicted ELSE Stored,
                           key, it))
  /\ corrupt' \in IF key \in DOMAIN cache THEN Damage(item[cache[key]].value, it.value)
                                            ELSE {FALSE}
  /\ last' = [k \in DOMAIN cache' |-> IF k = key THEN it ELSE last[k]]
  /\ Used(key)
  /\ UNCHANGED <<g_Time, result>>

\* Whoever owns the clock moves it on.
Tick ==
  /\ g_Time < MaxTime
  /\ g_Time' = g_Time + 1
  /\ UNCHANGED <<storeVars, result, corrupt, last, newer>>

Next ==
  \/ \E k \in Keys : Get(k)
  \/ \E k \in Keys, v \in Values, p \in Priorities, e \in Expiries :
       Set(k, [key |-> k, value |-> v, priority |-> p, expireTime |-> e])
  \/ Tick

Spec == Init /\ [][Next]_vars

--------------------------------------------------------------------------------
(***************************************************************************)
(* The two containers agree, whatever was read from freed memory: every    *)
(* iterator in cache names a live node with its key, and every node is     *)
(* once in the list of its priority and in no other.  An entry with an     *)
(* empty list may be left behind.  The cache keeps to its size (one item   *)
(* if maxItems is 0, as Set evicts before it inserts).                     *)
(***************************************************************************)
TypeOK ==
  /\ DOMAIN item = {cache[k] : k \in DOMAIN cache}
  /\ \A k \in DOMAIN cache : item[cache[k]].key = k
  /\ \A p \in DOMAIN lists :
       /\ ToSet(lists[p]) = {n \in DOMAIN item : item[n].priority = p}
       /\ IsInjective(lists[p])
  /\ \A n \in DOMAIN item : item[n].priority \in DOMAIN lists
  /\ Cardinality(DOMAIN cache) <= Max({1, MaxItems})

(***************************************************************************)
(* An item that was set leaves the cache only when it has expired or when  *)
(* the cache is full, nothing in it has expired, no item has a lower       *)
(* priority and none of its priority was used less recently.               *)
(***************************************************************************)
Outdated(k) == last[k].expireTime <= g_Time

EvictsInOrder ==
  [][\A k \in DOMAIN cache \ DOMAIN cache' :
       \/ Outdated(k)
       \/ /\ Cardinality(DOMAIN cache) >= MaxItems
          /\ \A j \in DOMAIN cache \ {k} :
               /\ ~Outdated(j)
               /\ last[j].priority >= last[k].priority
               /\ last[j].priority = last[k].priority => <<j, k>> \in newer]_vars

\* What Get should answer: the value of the last Set until it expires or is
\* evicted, and nothing after that.
Due(k) == IF k \in DOMAIN last /\ ~Outdated(k) THEN last[k].value ELSE Empty

(***************************************************************************)
(* Get answers with the value of the last Set of its key until that value  *)
(* expires or is evicted, and never after, as long as no update of a long  *)
(* value has damaged the heap.                                             *)
(***************************************************************************)
AnswersLastSet == [][\A k \in Keys : ~corrupt /\ Get(k) => result' = Due(k)]_vars

(***************************************************************************)
(* What the comments in Set say of a key that is there: "the key exists,   *)
(* update", "update the entry".  After a Set every Get answers with the    *)
(* new value, whatever was stored before, until it expires or is evicted.  *)
(***************************************************************************)
SetUpdatesEntry == [][\A k \in Keys : Get(k) => result' = Due(k)]_vars
================================================================================
