--------------------------- MODULE AdjacencyListGraph ---------------------------
(***************************************************************************)
(* homemade-infra/graph: a directed graph as adjacency lists, searched     *)
(* breadth first and depth first, and sorted topologically.  A client adds *)
(* edges and makes calls; a call goes on edge by edge.  frames is the      *)
(* stack of loops over an adjacency list: DFSUtil's calls of itself, or    *)
(* the one inner loop of BFS.                                              *)
(***************************************************************************)
EXTENDS Integers, Sequences, FiniteSets, SequencesExt

CONSTANTS
  V,          \* _V
  MaxEdges,   \* bound of a run: how many edges clients add
  NoVertex

Vertices == 0..V - 1

\* What the constants must be; MCContainers assumes it.
GraphAssumption ==
  /\ V \in Nat \ {0} /\ MaxEdges \in Nat
  /\ NoVertex \notin Vertices

VARIABLES
  adjList,    \* _adjList
  call,       \* the call under way: "BFS", "DFS", "topologicalSort" or "none"
  start,      \* its argument, or NoVertex
  visited,    \* the vertices whose visited[] is true
  q,          \* BFS's queue
  frames,     \* the loops over adjacency lists, innermost first: the vertex,
              \* and how many of its edges have been looked at
  topoStack,  \* topoStack, top first
  processed,  \* the vertices printed as "processing", in order
  order       \* what topologicalSort has printed

callVars == <<call, start, visited, q, frames, topoStack, processed, order>>
vars == <<adjList, callVars>>

Init ==
  /\ adjList = [u \in Vertices |-> << >>]
  /\ call = "none" /\ start = NoVertex
  /\ visited = {} /\ q = << >> /\ frames = << >> /\ topoStack = << >>
  /\ processed = << >> /\ order = << >>

--------------------------------------------------------------------------------
\* What was printed before is of no interest once the graph has changed.
addEdge(u, v) ==
  /\ call = "none"
  /\ adjList' = [adjList EXCEPT ![u] = Append(@, v)]
  /\ start' = NoVertex /\ processed' = << >> /\ order' = << >>
  /\ UNCHANGED <<call, visited, q, frames, topoStack>>

Frame(u) == [vertex |-> u, seen |-> 0]

\* DFSUtil(u) begins: u is marked and printed, below the loops outer.
Enter(u, outer) ==
  /\ visited' = visited \cup {u}
  /\ processed' = Append(processed, u)
  /\ frames' = <<Frame(u)>> \o outer

Begin(name, u) ==
  /\ call = "none" /\ call' = name /\ start' = u
  /\ order' = << >>
  /\ UNCHANGED adjList

BFS(u) ==
  /\ Begin("BFS", u)
  /\ visited' = {u} /\ q' = <<u>> /\ processed' = << >>
  /\ UNCHANGED <<frames, topoStack>>

DFS(u) ==
  /\ Begin("DFS", u)
  /\ visited' = {u} /\ processed' = <<u>> /\ frames' = <<Frame(u)>>
  /\ UNCHANGED <<q, topoStack>>

topologicalSort ==
  /\ Begin("topologicalSort", NoVertex)
  /\ processed' = << >>
  /\ UNCHANGED <<visited, q, frames, topoStack>>

--------------------------------------------------------------------------------
\* The loop that is running, and the next edge it looks at.
Top == Head(frames)

HasEdge == frames # << >> /\ Top.seen < Len(adjList[Top.vertex])

Nxt == adjList[Top.vertex][Top.seen + 1]

\* The loops after this edge: the innermost one has seen it.
Looked == <<[Top EXCEPT !.seen = @ + 1]>> \o Tail(frames)

\* BFS takes the next vertex of the queue and begins the loop over its edges.
TakeNext ==
  /\ call = "BFS" /\ frames = << >> /\ q # << >>
  /\ processed' = Append(processed, Head(q))
  /\ q' = Tail(q)
  /\ frames' = <<Frame(Head(q))>>
  /\ UNCHANGED <<adjList, call, start, visited, topoStack, order>>

\* Mutant of LookBFS: the loop stays at an edge to a visited vertex.
LookBFSStays ==
  /\ call = "BFS" /\ HasEdge
  /\ IF Nxt \in visited THEN UNCHANGED <<q, visited, frames>>
       ELSE q' = Append(q, Nxt) /\ visited' = visited \cup {Nxt} /\ frames' = Looked
  /\ UNCHANGED <<adjList, call, start, topoStack, processed, order>>

\* Mutant of LookBFS: the vertex goes to the front of the queue.
LookBFSFront ==
  /\ call = "BFS" /\ HasEdge
  /\ frames' = Looked
  /\ IF Nxt \in visited THEN UNCHANGED <<q, visited>>
                        ELSE q' = <<Nxt>> \o q /\ visited' = visited \cup {Nxt}
  /\ UNCHANGED <<adjList, call, start, topoStack, processed, order>>

\* An edge to a vertex that is not visited puts it into the queue.
LookBFS ==
  /\ call = "BFS" /\ HasEdge
  /\ frames' = Looked
  /\ IF Nxt \in visited THEN UNCHANGED <<q, visited>>
                        ELSE q' = Append(q, Nxt) /\ visited' = visited \cup {Nxt}
  /\ UNCHANGED <<adjList, call, start, topoStack, processed, order>>

EndLoopBFS ==
  /\ call = "BFS" /\ frames # << >> /\ ~HasEdge
  /\ frames' = << >>
  /\ UNCHANGED <<adjList, call, start, visited, q, topoStack, processed, order>>

\* An edge to a vertex that is not visited makes DFSUtil call itself.
LookDFS ==
  /\ call \in {"DFS", "topologicalSort"} /\ HasEdge
  /\ IF Nxt \in visited THEN frames' = Looked /\ UNCHANGED <<visited, processed>>
                        ELSE Enter(Nxt, Looked)
  /\ UNCHANGED <<adjList, call, start, q, topoStack, order>>

\* DFSUtil pushes its vertex and returns.
ReturnDFS ==
  /\ call \in {"DFS", "topologicalSort"} /\ frames # << >> /\ ~HasEdge
  /\ topoStack' = <<Top.vertex>> \o topoStack
  /\ frames' = Tail(frames)
  /\ UNCHANGED <<adjList, call, start, visited, q, processed, order>>

\* topologicalSort's loop comes to the next vertex that is not visited.
NextRoot ==
  /\ call = "topologicalSort" /\ frames = << >>
  /\ \E u \in Vertices \ visited :
       /\ \A v \in Vertices \ visited : u <= v
       /\ Enter(u, << >>)
  /\ UNCHANGED <<adjList, call, start, q, topoStack, order>>

\* Mutant of Return: the stack is printed from the bottom.
ReturnReversed ==
  /\ call # "none" /\ frames = << >> /\ q = << >>
  /\ call = "topologicalSort" => visited = Vertices
  /\ order' = IF call = "topologicalSort" THEN Reverse(topoStack) ELSE << >>
  /\ call' = "none"
  /\ visited' = {} /\ topoStack' = << >>
  /\ UNCHANGED <<adjList, start, q, frames, processed>>

\* The call returns; topologicalSort prints its stack from the top.
Return ==
  /\ call # "none" /\ frames = << >> /\ q = << >>
  /\ call = "topologicalSort" => visited = Vertices
  /\ order' = IF call = "topologicalSort" THEN topoStack ELSE << >>
  /\ call' = "none"
  /\ visited' = {} /\ topoStack' = << >>
  /\ UNCHANGED <<adjList, start, q, frames, processed>>

Step ==
  \/ TakeNext \/ LookBFS \/ EndLoopBFS
  \/ LookDFS \/ ReturnDFS \/ NextRoot
  \/ Return

NrEdges == Len(FlattenSeq([i \in 1..V |-> adjList[i - 1]]))

Next ==
  \/ NrEdges < MaxEdges /\ \E u, v \in Vertices : addEdge(u, v)
  \/ \E u \in Vertices : BFS(u) \/ DFS(u)
  \/ topologicalSort
  \/ Step

Spec == Init /\ [][Next]_vars

\* A call that was made goes on.
FairSpec == Spec /\ WF_vars(Step)

--------------------------------------------------------------------------------
(***************************************************************************)
(* Reference definitions: what can be reached from u is in every set of    *)
(* vertices with u that no edge leaves; and n edges, one after the other,  *)
(* may lead from u to v.                                                   *)
(***************************************************************************)
Edge(u, v) == v \in ToSet(adjList[u])

Closed(S) == \A u \in S : ToSet(adjList[u]) \subseteq S

Reachable(u) == {v \in Vertices : \A S \in SUBSET Vertices : u \in S /\ Closed(S) => v \in S}

Leads(u, v, n) ==
  \E walk \in [0..n -> Vertices] :
    walk[0] = u /\ walk[n] = v /\ \A i \in 1..n : Edge(walk[i - 1], walk[i])

\* Marks, queue and printout agree, and nested calls of DFSUtil follow edges.
Consistent ==
  /\ IsInjective(processed \o q)
  /\ call # "none" => visited = ToSet(processed \o q)
  /\ \A i \in 1..Len(frames) - 1 :
       adjList[frames[i + 1].vertex][frames[i + 1].seen] = frames[i].vertex

\* What BFS meets later takes at least as many edges; no shortest way takes V.
NearestFirst ==
  LET met == processed \o q
  IN  \A i, j \in DOMAIN met, n \in 0..V - 1 :
        i < j /\ Leads(start, met[j], n) => \E m \in 0..n : Leads(start, met[i], m)

(***************************************************************************)
(* A search prints every vertex that can be reached from its start once,   *)
(* and no other, whatever cycles and duplicate edges there are; BFS prints *)
(* the nearer ones first.                                                  *)
(***************************************************************************)
SearchesExactly ==
  /\ Consistent
  /\ start # NoVertex =>
       /\ ToSet(processed \o q) \subseteq Reachable(start)
       /\ call = "none" => ToSet(processed) = Reachable(start)
       /\ call = "BFS" => NearestFirst

(***************************************************************************)
(* topologicalSort prints every vertex once and puts the tail of an edge   *)
(* before its head, unless a cycle leads back from the head to the tail:   *)
(* so the order is topological if the graph has no cycle, and otherwise    *)
(* wrong only on cycles.                                                   *)
(***************************************************************************)
SortsTopologically ==
  order # << >> =>
    /\ Len(order) = V /\ ToSet(order) = Vertices
    /\ \A i, j \in DOMAIN order :
         order[i] \in ToSet(adjList[order[j]]) /\ i < j => order[j] \in Reachable(order[i])

(***************************************************************************)
(* Every call ends, in spite of cycles and loops of the graph.             *)
(***************************************************************************)
CallsEnd == call # "none" ~> call = "none"
================================================================================
