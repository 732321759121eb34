----------------------- MODULE MultiProcessServerProofs -----------------------
(***************************************************************************)
(* Proofs about MultiProcessServer, for any clients and any number of      *)
(* signals.                                                                *)
(***************************************************************************)
EXTENDS MultiProcessServer, SequenceTheorems, TLAPS

\* While a socket waits to be accepted nobody has it open, and its child is to come.
QueueOK ==
  /\ \A i, j \in 1..Len(backlog) : backlog[i] = backlog[j] => i = j
  /\ \A i \in 1..Len(backlog) : at[backlog[i]] = "unborn" /\ holders[backlog[i]] = {}

\* The parent has a client between its accept() and the next.
ClientOK ==
  /\ at[Parent] = "accept" => client = Parent
  /\ at[Parent] \in {"fork", "closeClient"} => client \in Clients
  /\ at[Parent] = "fork" => at[client] = "unborn"

OwnersOK == \A c \in Clients : holders[c] = {p \in Alive : p = c \/ (p = Parent /\ client = c)}

\* A child that closed the listening socket keeps it closed.
ListenOK == \A c \in Clients : at[c] \in {"setTerm", "setInt", "serve"} => c \notin listening

\* The parent forks no more once it told its children to exit.
StopOK == stopped => at[Parent] = "gone" /\ \A c \in Clients : c \in Deaf \cup term

ServerInv == TypeOK /\ QueueOK /\ ClientOK /\ OwnersOK /\ ListenOK /\ StopOK

--------------------------------------------------------------------------------
\* Steps.

LEMMA InitInv == Init => ServerInv
<1> SUFFICES ASSUME Init  PROVE ServerInv
  OBVIOUS
<1> USE ProcessAssumption DEF Init, Processes
<1>1. << >> \in Seq(Clients) /\ Len(<< >>) = 0
  BY EmptySeq
<1>2. TypeOK
  <2>1. /\ at \in [Processes -> {"unborn", "accept", "fork", "closeClient", "closeListen",
                                 "setTerm", "setInt", "serve", "fathExit", "chldExit", "gone"}]
        /\ at[Parent] = "accept" /\ \A c \in Clients : at[c] = "unborn"
    OBVIOUS
  <2>2. backlog \in Seq(Clients) /\ holders \in [Clients -> SUBSET Processes]
        /\ signals \in 0..MaxSignals
    BY <1>1
  <2> QED  BY <2>1, <2>2 DEF TypeOK
<1>3. QueueOK
  BY <1>1 DEF QueueOK
<1>4. ClientOK /\ OwnersOK /\ ListenOK /\ StopOK
  BY DEF ClientOK, OwnersOK, Alive, ListenOK, StopOK
<1> QED  BY <1>2, <1>3, <1>4 DEF ServerInv

\* What a process that ends leaves behind.
LEMMA ExitKeeps ==
  ASSUME ServerInv, NEW p \in Processes, Exit(p), at[p] # "unborn",
         term \subseteq term', term' \subseteq Processes,
         int' = int, signals' = signals, stopped' \in BOOLEAN,
         stopped' => stopped \/ (p = Parent /\ Processes \ Deaf \subseteq term')
  PROVE  ServerInv'
<1>1. /\ at' = [at EXCEPT ![p] = "gone"] /\ listening' = listening \ {p}
      /\ holders' = [c \in Clients |-> holders[c] \ {p}]
      /\ UNCHANGED <<client, backlog, waiting, hungup>>
  BY DEF Exit, clientVars
<1>2. at'[p] = "gone" /\ \A q \in Processes \ {p} : at'[q] = at[q]
  BY <1>1 DEF ServerInv, TypeOK
<1>3. \A c \in Clients : c \in Processes /\ c # Parent
  BY ProcessAssumption DEF Processes
<1>4. Parent \in Processes
  BY DEF Processes
<1>5. TypeOK'
  <2>1. at' \in [Processes -> {"unborn", "accept", "fork", "closeClient", "closeListen",
                           "setTerm", "setInt", "serve", "fathExit", "chldExit", "gone"}]
    BY <1>1 DEF ServerInv, TypeOK
  <2>2. at'[Parent] \in {"accept", "fork", "closeClient", "fathExit", "gone"}
    BY <1>2, <1>4 DEF ServerInv, TypeOK
  <2>3. \A c \in Clients : at'[c] \notin {"accept", "fork", "closeClient"}
    BY <1>2, <1>3 DEF ServerInv, TypeOK
  <2>4. holders' \in [Clients -> SUBSET Processes] /\ listening' \subseteq Processes
    BY <1>1 DEF ServerInv, TypeOK
  <2> QED  BY <1>1, <2>1, <2>2, <2>3, <2>4 DEF ServerInv, TypeOK
<1>6. QueueOK'
  <2>1. \A i \in 1..Len(backlog) : backlog[i] \in Clients /\ backlog[i] # p
    BY ElementOfSeq DEF ServerInv, TypeOK, QueueOK
  <2> QED  BY <1>1, <1>2, <1>3, <2>1 DEF ServerInv, QueueOK
<1>7. ClientOK'
  BY <1>1, <1>2, <1>3, <1>4 DEF ServerInv, ClientOK, TypeOK
<1>8. OwnersOK'
  BY <1>1, <1>2, <1>3, <1>4 DEF ServerInv, OwnersOK, Alive
<1>9. ListenOK'
  BY <1>1, <1>2, <1>3 DEF ServerInv, ListenOK
<1>10. StopOK'
  BY <1>2, <1>3, <1>4 DEF ServerInv, StopOK, Deaf
<1> QED  BY <1>5, <1>6, <1>7, <1>8, <1>9, <1>10 DEF ServerInv

\* What a step of a process that stays where it was, or of a client, leaves alone.
Elsewhere == UNCHANGED <<at, client, listening, holders, stopped>>

LEMMA ClientsKeep ==
  ASSUME ServerInv, NEW c \in Clients, Connect(c) \/ Request(c) \/ HangUp(c) \/ ChildAnswer(c)
  PROVE  ServerInv'
<1>1. Elsewhere /\ UNCHANGED <<term, int, signals>>
  BY DEF Connect, Request, HangUp, ChildAnswer, Elsewhere, signalVars
<1>2. backlog' = backlog \/ (Connect(c) /\ backlog' = Append(backlog, c))
  BY DEF Connect, Request, HangUp, ChildAnswer
<1>3. waiting' \subseteq Clients /\ hungup' \subseteq Clients
  BY DEF Connect, Request, HangUp, ChildAnswer, ServerInv, TypeOK
<1>4. /\ backlog \in Seq(Clients) /\ Len(backlog) \in Nat
      /\ \A i \in 1..Len(backlog) : backlog[i] \in Clients
  BY LenProperties, ElementOfSeq DEF ServerInv, TypeOK
<1>5. backlog' \in Seq(Clients)
  BY <1>2, <1>4, AppendProperties
<1>6. TypeOK'
  BY <1>1, <1>3, <1>5 DEF ServerInv, TypeOK, Elsewhere
<1>7. QueueOK'
  <2>1. CASE backlog' = backlog
    BY <1>1, <2>1 DEF ServerInv, QueueOK, Elsewhere
  <2>2. CASE Connect(c) /\ backlog' = Append(backlog, c)
    <3>1. /\ Len(backlog') = Len(backlog) + 1 /\ backlog'[Len(backlog) + 1] = c
          /\ \A i \in 1..Len(backlog) : backlog'[i] = backlog[i]
      BY <1>4, <2>2, AppendProperties
    <3>2. /\ at[c] = "unborn" /\ holders[c] = {}
          /\ \A i \in 1..Len(backlog) : backlog[i] # c
      BY <2>2 DEF Connect, Connected, Queued
    <3>3. \A i \in 1..Len(backlog') : i \in 1..Len(backlog) \/ i = Len(backlog) + 1
      BY <1>4, <3>1
    <3> QED  BY <1>1, <3>1, <3>2, <3>3 DEF ServerInv, QueueOK, Elsewhere
  <2> QED  BY <1>2, <2>1, <2>2
<1>8. ClientOK' /\ OwnersOK' /\ ListenOK' /\ StopOK'
  BY <1>1 DEF ServerInv, ClientOK, OwnersOK, ListenOK, StopOK, Elsewhere, Alive, Deaf
<1> QED  BY <1>6, <1>7, <1>8 DEF ServerInv

LEMMA SignalsKeep ==
  ASSUME ServerInv, CtrlC \/ \E p \in Processes : KillProcess(p)
  PROVE  ServerInv'
<1>1. Elsewhere /\ UNCHANGED <<backlog, waiting, hungup>>
  BY DEF CtrlC, KillProcess, Elsewhere, clientVars
<1>2. /\ term \subseteq term' /\ term' \subseteq Processes
      /\ int' \subseteq Processes /\ signals' \in 0..MaxSignals
  BY ProcessAssumption DEF CtrlC, KillProcess, ServerInv, TypeOK
<1>3. TypeOK'
  BY <1>1, <1>2 DEF ServerInv, TypeOK, Elsewhere
<1>4. QueueOK' /\ ClientOK' /\ OwnersOK' /\ ListenOK'
  BY <1>1 DEF ServerInv, QueueOK, ClientOK, OwnersOK, ListenOK, Elsewhere, Alive
<1>5. StopOK'
  BY <1>1, <1>2 DEF ServerInv, StopOK, Elsewhere, Deaf
<1> QED  BY <1>3, <1>4, <1>5 DEF ServerInv

LEMMA AcceptKeeps ==
  ASSUME ServerInv, AcceptClient
  PROVE  ServerInv'
<1>0. PICK k : k = Head(backlog)
  OBVIOUS
<1>1. /\ at[Parent] = "accept" /\ backlog # << >> /\ backlog' = Tail(backlog)
      /\ client' = k /\ holders' = [holders EXCEPT ![k] = {Parent}]
      /\ at' = [at EXCEPT ![Parent] = "fork"]
      /\ UNCHANGED <<listening, waiting, hungup, term, int, stopped, signals>>
  BY <1>0 DEF AcceptClient, signalVars
<1>2. /\ Len(backlog) \in Nat /\ Len(backlog) >= 1 /\ k = backlog[1] /\ k \in Clients
      /\ Tail(backlog) \in Seq(Clients) /\ Len(Tail(backlog)) = Len(backlog) - 1
      /\ \A i \in 1..Len(Tail(backlog)) : Tail(backlog)[i] = backlog[i + 1]
  BY <1>0, <1>1, EmptySeq, LenProperties, HeadTailProperties DEF ServerInv, TypeOK
<1>3. \A i \in 1..Len(backlog) : backlog[i] \in Clients
  BY ElementOfSeq DEF ServerInv, TypeOK
<1>4. Parent \in Processes /\ Parent \notin Clients /\ Clients \subseteq Processes
  BY ProcessAssumption DEF Processes
<1>5. at[k] = "unborn" /\ holders[k] = {}
  BY <1>2 DEF ServerInv, QueueOK
<1>6. /\ at'[Parent] = "fork" /\ \A p \in Processes \ {Parent} : at'[p] = at[p]
      /\ holders'[k] = {Parent} /\ \A c \in Clients \ {k} : holders'[c] = holders[c]
  BY <1>1, <1>2, <1>4 DEF ServerInv, TypeOK
<1>7. TypeOK'
  <2>1. /\ at' \in [Processes -> {"unborn", "accept", "fork", "closeClient", "closeListen",
                                  "setTerm", "setInt", "serve", "fathExit", "chldExit", "gone"}]
        /\ holders' \in [Clients -> SUBSET Processes]
    BY <1>1, <1>2, <1>4 DEF ServerInv, TypeOK
  <2> QED  BY <1>1, <1>2, <1>4, <1>6, <2>1 DEF ServerInv, TypeOK
<1>8. QueueOK'
  <2>1. \A i \in 1..Len(backlog') : /\ i \in Int /\ i + 1 \in 1..Len(backlog) /\ i + 1 # 1
                                    /\ backlog'[i] = backlog[i + 1]
    <3>1. \A i \in 1..Len(Tail(backlog)) : i \in Int /\ i + 1 \in 1..Len(backlog) /\ i + 1 # 1
      BY <1>2
    <3> QED  BY <1>1, <1>2, <3>1
  <2>2. \A i, j \in 1..Len(backlog) : backlog[i] = backlog[j] => i = j
    BY DEF ServerInv, QueueOK
  <2>3. \A i, j \in 1..Len(backlog') : backlog'[i] = backlog'[j] => i = j
    <3> SUFFICES ASSUME NEW i \in 1..Len(backlog'), NEW j \in 1..Len(backlog'),
                        backlog'[i] = backlog'[j]
                 PROVE  i = j
      OBVIOUS
    <3>1. i + 1 = j + 1 /\ i \in Int /\ j \in Int
      BY <2>1, <2>2
    <3> QED  BY <3>1
  <2>4. \A i \in 1..Len(backlog') : backlog'[i] \in Clients \ {k}
    BY <1>2, <1>3, <2>1, <2>2
  <2>5. \A i \in 1..Len(backlog') : at[backlog'[i]] = "unborn" /\ holders[backlog'[i]] = {}
    <3>1. \A i \in 1..Len(backlog) : at[backlog[i]] = "unborn" /\ holders[backlog[i]] = {}
      BY DEF ServerInv, QueueOK
    <3> SUFFICES ASSUME NEW i \in 1..Len(backlog')
                 PROVE  at[backlog'[i]] = "unborn" /\ holders[backlog'[i]] = {}
      OBVIOUS
    <3>2. i + 1 \in 1..Len(backlog) /\ backlog'[i] = backlog[i + 1]
      BY <2>1
    <3> QED  BY <3>1, <3>2
  <2> QED  BY <1>4, <1>6, <2>3, <2>4, <2>5 DEF QueueOK
<1>9. ClientOK'
  BY <1>1, <1>2, <1>4, <1>5, <1>6 DEF ClientOK
<1>10. OwnersOK'
  <2>1. client = Parent
    BY <1>1 DEF ServerInv, ClientOK
  <2>2. holders'[k] = {p \in Alive' : p = k \/ (p = Parent /\ client' = k)}
    BY <1>1, <1>2, <1>4, <1>5, <1>6 DEF Alive
  <2>3. \A c \in Clients \ {k} :
          holders'[c] = {p \in Alive' : p = c \/ (p = Parent /\ client' = c)}
    BY <1>1, <1>4, <1>6, <2>1 DEF ServerInv, OwnersOK, Alive
  <2> QED  BY <2>2, <2>3 DEF OwnersOK
<1>11. ListenOK'
  BY <1>1, <1>4, <1>6 DEF ServerInv, ListenOK
<1>12. StopOK'
  BY <1>1 DEF ServerInv, StopOK
<1> QED  BY <1>7, <1>8, <1>9, <1>10, <1>11, <1>12 DEF ServerInv

LEMMA ForkKeeps ==
  ASSUME ServerInv, Fork
  PROVE  ServerInv'
<1>1. /\ at[Parent] = "fork"
      /\ at' = [at EXCEPT ![Parent] = "closeClient", ![client] = "closeListen"]
      /\ listening' = listening \cup {client}
      /\ holders' = [holders EXCEPT ![client] = @ \cup {client}]
      /\ UNCHANGED <<client, backlog, waiting, hungup, term, int, stopped, signals>>
  BY DEF Fork, clientVars, signalVars
<1>2. client \in Clients /\ at[client] = "unborn"
  BY <1>1 DEF ServerInv, ClientOK
<1>3. Parent \in Processes /\ Parent \notin Clients /\ Clients \subseteq Processes
  BY ProcessAssumption DEF Processes
<1>4. /\ at'[Parent] = "closeClient" /\ at'[client] = "closeListen"
      /\ \A p \in Processes \ {Parent, client} : at'[p] = at[p]
      /\ holders'[client] = holders[client] \cup {client}
      /\ \A c \in Clients \ {client} : holders'[c] = holders[c]
  BY <1>1, <1>2, <1>3 DEF ServerInv, TypeOK
<1>5. TypeOK'
  <2>1. /\ at' \in [Processes -> {"unborn", "accept", "fork", "closeClient", "closeListen",
                                  "setTerm", "setInt", "serve", "fathExit", "chldExit", "gone"}]
        /\ holders' \in [Clients -> SUBSET Processes]
    BY <1>1, <1>2, <1>3 DEF ServerInv, TypeOK
  <2> QED  BY <1>1, <1>2, <1>3, <1>4, <2>1 DEF ServerInv, TypeOK
<1>6. holders[client] = {Parent}
  BY <1>1, <1>2, <1>3 DEF ServerInv, OwnersOK, Alive
<1>7. QueueOK'
  <2>1. \A i \in 1..Len(backlog) : backlog[i] \in Clients \ {client}
    BY <1>6, ElementOfSeq DEF ServerInv, TypeOK, QueueOK
  <2>2. \A c \in Clients \ {client} : at'[c] = at[c] /\ holders'[c] = holders[c]
    BY <1>3, <1>4
  <2> QED  BY <1>1, <2>1, <2>2 DEF ServerInv, QueueOK
<1>8. ClientOK'
  BY <1>1, <1>2, <1>4 DEF ClientOK
<1>9. OwnersOK'
  <2>1. holders'[client] = {p \in Alive' : p = client \/ (p = Parent /\ client' = client)}
    BY <1>1, <1>2, <1>3, <1>4, <1>6 DEF Alive
  <2>2. \A c \in Clients \ {client} :
          holders'[c] = {p \in Alive' : p = c \/ (p = Parent /\ client' = c)}
    <3> SUFFICES ASSUME NEW c \in Clients \ {client}
                 PROVE  holders'[c] = {p \in Alive' : p = c \/ (p = Parent /\ client' = c)}
      OBVIOUS
    <3>1. c \in Alive <=> c \in Alive'
      BY <1>3, <1>4 DEF Alive
    <3>2. holders'[c] = {p \in Alive : p = c}
      BY <1>4 DEF ServerInv, OwnersOK
    <3>3. client' # c
      BY <1>1
    <3> QED  BY <3>1, <3>2, <3>3
  <2> QED  BY <2>1, <2>2 DEF OwnersOK
<1>10. ListenOK'
  BY <1>1, <1>2, <1>3, <1>4 DEF ServerInv, ListenOK
<1>11. StopOK'
  BY <1>1 DEF ServerInv, StopOK
<1> QED  BY <1>5, <1>7, <1>8, <1>9, <1>10, <1>11 DEF ServerInv

LEMMA CloseKeeps ==
  ASSUME ServerInv, CloseClient
  PROVE  ServerInv'
<1>1. /\ at[Parent] = "closeClient" /\ client' = Parent
      /\ holders' = [holders EXCEPT ![client] = @ \ {Parent}]
      /\ at' = [at EXCEPT ![Parent] = "accept"]
      /\ UNCHANGED <<listening, backlog, waiting, hungup, term, int, stopped, signals>>
  BY DEF CloseClient, clientVars, signalVars
<1>2. client \in Clients
  BY <1>1 DEF ServerInv, ClientOK
<1>3. Parent \in Processes /\ Parent \notin Clients /\ Clients \subseteq Processes
  BY ProcessAssumption DEF Processes
<1>4. /\ at'[Parent] = "accept" /\ \A p \in Processes \ {Parent} : at'[p] = at[p]
      /\ holders'[client] = holders[client] \ {Parent}
      /\ \A c \in Clients \ {client} : holders'[c] = holders[c]
  BY <1>1, <1>2, <1>3 DEF ServerInv, TypeOK
<1>5. TypeOK'
  <2>1. /\ at' \in [Processes -> {"unborn", "accept", "fork", "closeClient", "closeListen",
                                  "setTerm", "setInt", "serve", "fathExit", "chldExit", "gone"}]
        /\ holders' \in [Clients -> SUBSET Processes]
    BY <1>1, <1>2, <1>3 DEF ServerInv, TypeOK
  <2> QED  BY <1>1, <1>3, <1>4, <2>1 DEF ServerInv, TypeOK
<1>6. QueueOK'
  <2>1. \A i \in 1..Len(backlog) : backlog[i] \in Clients
    BY ElementOfSeq DEF ServerInv, TypeOK
  <2>2. \A c \in Clients : holders[c] = {} => holders'[c] = {}
    BY <1>2, <1>4
  <2> QED  BY <1>1, <1>3, <1>4, <2>1, <2>2 DEF ServerInv, QueueOK
<1>7. ClientOK'
  BY <1>1, <1>4 DEF ClientOK
<1>8. OwnersOK'
  BY <1>1, <1>2, <1>3, <1>4 DEF ServerInv, OwnersOK, Alive
<1>9. ListenOK' /\ StopOK'
  BY <1>1, <1>3, <1>4 DEF ServerInv, ListenOK, StopOK
<1> QED  BY <1>5, <1>6, <1>7, <1>8, <1>9 DEF ServerInv

\* A process that is alive goes on and keeps what it has open, but for a child that
\* closes the listening socket; it loses its signals when it enters a handler.
Moves(p, place) ==
  /\ at[p] \notin {"unborn", "gone"}
  /\ at' = [at EXCEPT ![p] = place]
  /\ listening' \subseteq listening /\ term' \subseteq term /\ int' \subseteq int
  /\ \A q \in Processes \ {p} : q \in term => q \in term'
  /\ UNCHANGED <<client, holders, backlog, waiting, hungup, stopped, signals>>
  /\ \/ place = "fathExit"
     \/ p \in Clients /\ place = "chldExit"
     \/ p \in Clients /\ place \in {"setTerm", "setInt", "serve"} /\ p \notin listening'
          /\ p \notin Deaf /\ term' = term

LEMMA MovesKeeps ==
  ASSUME ServerInv, NEW p \in Processes, NEW place, Moves(p, place)
  PROVE  ServerInv'
<1>1. /\ at'[p] = place /\ \A q \in Processes \ {p} : at'[q] = at[q]
      /\ at' \in [Processes -> {"unborn", "accept", "fork", "closeClient", "closeListen",
                                "setTerm", "setInt", "serve", "fathExit", "chldExit", "gone"}]
  BY DEF Moves, ServerInv, TypeOK
<1>2. Parent \in Processes /\ Parent \notin Clients /\ Clients \subseteq Processes
  BY ProcessAssumption DEF Processes
<1>3. TypeOK'
  <2>1. at'[Parent] \in {"accept", "fork", "closeClient", "fathExit", "gone"}
    BY <1>1, <1>2 DEF ServerInv, TypeOK, Moves
  <2>2. \A c \in Clients : at'[c] \notin {"accept", "fork", "closeClient"}
    BY <1>1, <1>2 DEF ServerInv, TypeOK, Moves
  <2> QED  BY <1>1, <2>1, <2>2 DEF ServerInv, TypeOK, Moves
<1>4. QueueOK'
  <2>1. \A i \in 1..Len(backlog) : backlog[i] \in Clients \ {p}
    BY ElementOfSeq DEF ServerInv, TypeOK, QueueOK, Moves
  <2> QED  BY <1>1, <1>2, <2>1 DEF ServerInv, QueueOK, Moves
<1>5. ClientOK'
  BY <1>1, <1>2 DEF ServerInv, ClientOK, TypeOK, Moves
<1>6. OwnersOK'
  <2>1. Alive' = Alive
    BY <1>1 DEF Alive, Moves
  <2> QED  BY <2>1 DEF ServerInv, OwnersOK, Moves
<1>7. ListenOK'
  BY <1>1, <1>2 DEF ServerInv, ListenOK, Moves
<1>8. StopOK'
  <2> SUFFICES ASSUME stopped  PROVE at'[Parent] = "gone" /\ \A c \in Clients : (c \in Deaf \cup term)'
    BY DEF StopOK, Moves
  <2>1. at[Parent] = "gone" /\ p # Parent
    BY DEF ServerInv, StopOK, Moves
  <2>2. \A c \in Clients \ {p} : (c \in Deaf \cup term)'
    BY <1>1, <1>2 DEF ServerInv, StopOK, Deaf, Moves
  <2>3. p \in Clients => (p \in Deaf \cup term)'
    BY <1>1 DEF ServerInv, StopOK, Deaf, Moves
  <2> QED  BY <1>1, <1>2, <2>1, <2>2, <2>3
<1> QED  BY <1>3, <1>4, <1>5, <1>6, <1>7, <1>8 DEF ServerInv

LEMMA ChildKeeps ==
  ASSUME ServerInv, NEW c \in Clients, ChildStep(c)
  PROVE  ServerInv'
<1>1. c \in Processes /\ c # Parent
  BY ProcessAssumption DEF Processes
<1>2. CASE ChildCloseListen(c)
  <2>1. Moves(c, "setTerm")
    BY <1>2 DEF ChildCloseListen, Moves, Deaf, clientVars, signalVars
  <2> QED  BY <1>1, <2>1, MovesKeeps
<1>3. CASE ChildSetSignal(c)
  <2>1. c \notin listening
    BY <1>3 DEF ChildSetSignal, ServerInv, ListenOK
  <2>2. Moves(c, "setInt") \/ Moves(c, "serve")
    BY <1>3, <2>1 DEF ChildSetSignal, Moves, Deaf, clientVars
  <2> QED  BY <1>1, <2>2, MovesKeeps
<1>4. CASE ChildAnswer(c)
  BY <1>4, ClientsKeep
<1>5. CASE ChildLeaves(c)
  <2>1. /\ Exit(c) /\ at[c] # "unborn"
        /\ UNCHANGED <<term, int, stopped, signals>>
    BY <1>5 DEF ChildLeaves, signalVars
  <2> QED  BY <1>1, <2>1, ExitKeeps DEF ServerInv, TypeOK
<1> QED  BY <1>2, <1>3, <1>4, <1>5 DEF ChildStep

LEMMA HandlerKeeps ==
  ASSUME ServerInv, NEW p \in Processes, HandlerStep(p)
  PROVE  ServerInv'
<1>1. CASE EnterHandler(p)
  <2>1. p \in Clients \/ p = Parent
    BY DEF Processes
  <2>2. p = Parent => RunsFath(p, Inherited)
    BY DEF RunsFath
  <2>3. \E place \in {"fathExit", "chldExit"} :
          at' = [at EXCEPT ![p] = place] /\ (place = "chldExit" => p \in Clients)
    BY <1>1, <2>1, <2>2 DEF EnterHandler
  <2>4. Moves(p, "fathExit") \/ Moves(p, "chldExit")
    BY <1>1, <2>3 DEF EnterHandler, Moves, Deaf, clientVars
  <2> QED  BY <2>4, MovesKeeps
<1>2. CASE FathEXIT(p)
  <2>1. /\ Exit(p) /\ at[p] # "unborn" /\ int' = int /\ signals' = signals
        /\ term' = term \cup (Processes \ Deaf) /\ stopped' = (stopped \/ p = Parent)
    BY <1>2 DEF FathEXIT
  <2>2. term \subseteq term' /\ term' \subseteq Processes /\ Processes \ Deaf \subseteq term'
    BY <2>1 DEF ServerInv, TypeOK
  <2>3. stopped' \in BOOLEAN /\ (stopped' => stopped \/ p = Parent)
    BY <2>1 DEF ServerInv, TypeOK
  <2> QED  BY <2>1, <2>2, <2>3, ExitKeeps
<1>3. CASE ChldEXIT(p)
  <2>1. /\ Exit(p) /\ at[p] # "unborn"
        /\ UNCHANGED <<term, int, stopped, signals>>
    BY <1>3 DEF ChldEXIT, signalVars
  <2> QED  BY <2>1, ExitKeeps DEF ServerInv, TypeOK
<1> QED  BY <1>1, <1>2, <1>3 DEF HandlerStep

LEMMA NextInv == ServerInv /\ [Next]_vars => ServerInv'
<1> SUFFICES ASSUME ServerInv, [Next]_vars  PROVE ServerInv'
  OBVIOUS
<1>1. CASE UNCHANGED vars
  <2>1. UNCHANGED <<at, client, listening, holders, backlog, waiting, hungup, term, int,
                    stopped, signals>>
    BY <1>1 DEF vars, clientVars, signalVars
  <2> QED  BY <2>1 DEF ServerInv, TypeOK, QueueOK, ClientOK, OwnersOK, ListenOK, StopOK, Alive, Deaf
<1>2. CASE ParentStep
  BY <1>2, AcceptKeeps, ForkKeeps, CloseKeeps DEF ParentStep
<1>3. CASE ParentFails
  <2>1. /\ Parent \in Processes /\ Exit(Parent) /\ at[Parent] # "unborn"
        /\ UNCHANGED <<term, int, stopped, signals>>
    BY <1>3 DEF ParentFails, signalVars, Processes
  <2> QED  BY <2>1, ExitKeeps DEF ServerInv, TypeOK
<1>4. ASSUME NEW c \in Clients, ChildStep(c) \/ Connect(c) \/ Request(c) \/ HangUp(c)
      PROVE  ServerInv'
  BY <1>4, ChildKeeps, ClientsKeep
<1>5. ASSUME NEW p \in Processes, HandlerStep(p) \/ KillProcess(p)
      PROVE  ServerInv'
  BY <1>5, HandlerKeeps, SignalsKeep
<1>6. CASE CtrlC
  BY <1>6, SignalsKeep
<1> QED  BY <1>1, <1>2, <1>3, <1>4, <1>5, <1>6 DEF Next

--------------------------------------------------------------------------------
\* The invariant, and what it says of the server.

(***************************************************************************)
(* Whatever clients and operator do, and however the steps of parent and   *)
(* children interleave with signals: who has which socket open, what waits *)
(* to be accepted and where the processes are agree.                       *)
(***************************************************************************)
THEOREM ServerInvariance == Spec => []ServerInv
BY InitInv, NextInv, PTL DEF Spec

(***************************************************************************)
(* The variables have their types, and parent and children keep to their   *)
(* own parts of main: no child comes back to accept().                     *)
(***************************************************************************)
THEOREM ServerTypeCorrect == Spec => []TypeOK
<1>1. ServerInv => TypeOK
  BY DEF ServerInv
<1> QED  BY <1>1, ServerInvariance, PTL

(***************************************************************************)
(* fork() leaks no descriptor: a client's socket is open in its child and, *)
(* until it closes it, in the parent, and nowhere else; and a child that   *)
(* serves does not keep the port.                                          *)
(***************************************************************************)
THEOREM OneOwnerPerSocket == Spec => []SocketsHaveOneOwner
<1>1. ServerInv => SocketsHaveOneOwner
  BY DEF ServerInv, OwnersOK, ListenOK, SocketsHaveOneOwner
<1> QED  BY <1>1, ServerInvariance, PTL

(***************************************************************************)
(* When the parent has run FathEXIT, every child has ended, is on its way  *)
(* out, or has the SIGTERM still to come, also one that had just been      *)
(* forked; and nobody forks another.                                       *)
(***************************************************************************)
THEOREM EveryChildIsTold == Spec => []NoChildLeftBehind
<1>1. ServerInv => NoChildLeftBehind
  BY DEF ServerInv, StopOK, NoChildLeftBehind
<1> QED  BY <1>1, ServerInvariance, PTL

================================================================================
