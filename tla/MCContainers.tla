------------------------------ MODULE MCContainers ------------------------------
(***************************************************************************)
(* The containers and the graph on small instances, one of them per        *)
(* behaviour: program says which, and the others stand still.              *)
(***************************************************************************)
EXTENDS CircularBuffer

CONSTANTS
  LruKeys, LruValues, LruCapacity, Absent,
  Keys, Values, Long, Priorities, Expiries, MaxItems, MaxTime, Empty,
  V, MaxEdges, NoVertex

VARIABLES
  program,
  list, node, map, found,
  lists, item, cache, g_Time, result, corrupt, last, newer,
  adjList, call, start, visited, q, frames, topoStack, processed, order

lruVars == <<list, node, map, found>>
prioVars == <<lists, item, cache, g_Time, result, corrupt, last, newer>>
graphVars == <<adjList, call, start, visited, q, frames, topoStack, processed, order>>

Lru == INSTANCE LruCache
Prio == INSTANCE PriorityCache
G == INSTANCE AdjacencyListGraph

ASSUME ContainersAssumption == 
  Lru!LruAssumption /\ Prio!CacheAssumption /\ G!GraphAssumption

MCInit ==
  /\ program \in {"CircularBuffer", "LRUCache", "Cache", "Graph"}
  /\ Init /\ Lru!Init /\ Prio!Init /\ G!Init

MCNext ==
  /\ UNCHANGED program
  /\ \/ program = "CircularBuffer" /\ Next /\ UNCHANGED <<lruVars, prioVars, graphVars>>
     \/ program = "LRUCache" /\ Lru!Next /\ UNCHANGED <<vars, prioVars, graphVars>>
     \/ program = "Cache" /\ Prio!Next /\ UNCHANGED <<vars, lruVars, graphVars>>
     \/ program = "Graph" /\ G!Next /\ UNCHANGED <<vars, lruVars, prioVars>>

\* The fairness of the graph; calls of the others are one step.
MCSpec ==
  /\ MCInit /\ [][MCNext]_<<program, vars, lruVars, prioVars, graphVars>>
  /\ WF_graphVars(G!Step /\ UNCHANGED <<program, vars, lruVars, prioVars>>)

(***************************************************************************)
(* In each program the parts agree: counters with each other, iterators    *)
(* with the nodes they name, keys with items.                              *)
(***************************************************************************)
PartsAgree == TypeOK /\ Lru!TypeOK /\ Prio!TypeOK

(***************************************************************************)
(* homemade-infra/LruCache holds the pairs put or found last, and evicts   *)
(* the least recently used (LruCache.tla).                                 *)
(***************************************************************************)
ImplementsRecency == Lru!ImplementsRecency

(***************************************************************************)
(* The priority cache evicts what has expired, then the least recently     *)
(* used item of the lowest priority (PriorityCache.tla).                   *)
(***************************************************************************)
EvictsInOrder == Prio!EvictsInOrder

(***************************************************************************)
(* The priority cache answers with the last value set, until it expires or *)
(* is evicted, or the heap is damaged (PriorityCache.tla).                 *)
(***************************************************************************)
AnswersLastSet == Prio!AnswersLastSet

(***************************************************************************)
(* BFS and DFS print exactly the vertices that can be reached              *)
(* (AdjacencyListGraph.tla).                                               *)
(***************************************************************************)
SearchesExactly == G!SearchesExactly

(***************************************************************************)
(* topologicalSort is wrong on cycles only (AdjacencyListGraph.tla).       *)
(***************************************************************************)
SortsTopologically == G!SortsTopologically

(***************************************************************************)
(* Every call to the graph ends (AdjacencyListGraph.tla).                  *)
(***************************************************************************)
CallsEnd == G!CallsEnd
================================================================================
