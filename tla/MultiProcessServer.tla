-------------------------- MODULE MultiProcessServer --------------------------
(***************************************************************************)
(* network/multi_process_server.cpp: a parent accepts clients and forks a  *)
(* child for each.  The children inherit the parent's descriptors, which   *)
(* they close, and its signal handlers, which they replace; until then a   *)
(* signal to a child runs FathEXIT in it.  All processes are in one group. *)
(* A child is named by its client; each client connects once.              *)
(***************************************************************************)
EXTENDS Integers, Sequences, FiniteSets

CONSTANTS
  Parent,
  Clients,
  MaxSignals  \* bound of a run: signals sent from the shell

ASSUME ProcessAssumption ==
  IsFiniteSet(Clients) /\ Parent \notin Clients /\ MaxSignals \in Nat

VARIABLES
  at,         \* at[p]: where process p is
  backlog,    \* clients connected and not accepted yet
  client,     \* the client whose socket the parent has in m_clientfd, or Parent
  listening,  \* the processes that have the listening socket open
  holders,    \* holders[c]: the processes that have the socket of c open
  waiting,    \* the clients that wait for an answer
  hungup,     \* the clients that have closed their end
  term, int,  \* the processes with SIGTERM, and SIGINT, pending
  stopped,    \* the parent has run FathEXIT
  signals     \* signals sent from the shell so far

clientVars == <<backlog, waiting, hungup>>
signalVars == <<term, int, stopped, signals>>
vars == <<at, client, listening, holders, clientVars, signalVars>>

Processes == Clients \cup {Parent}

\* Places of a child before it serves: its signal() calls are still to come.
Inherited == {"closeListen", "setTerm"}
Starting == Inherited \cup {"setInt"}

Alive == {p \in Processes : at[p] \notin {"unborn", "gone"}}

Init ==
  /\ at = [p \in Processes |-> IF p = Parent THEN "accept" ELSE "unborn"]
  /\ backlog = << >>
  /\ client = Parent
  /\ listening = {Parent}
  /\ holders = [c \in Clients |-> {}]
  /\ waiting = {}
  /\ hungup = {}
  /\ term = {} /\ int = {}
  /\ stopped = FALSE
  /\ signals = 0

--------------------------------------------------------------------------------
\* Clients: they connect, send a request when they have the answer to the last
\* one, and hang up.

Queued(c) == \E k \in 1..Len(backlog) : backlog[k] = c

Connected(c) == Queued(c) \/ holders[c] # {}

\* The port takes connections while any process has the listening socket open.
Connect(c) ==
  /\ listening # {}
  /\ at[c] = "unborn" /\ c \notin hungup /\ ~Connected(c)
  /\ backlog' = Append(backlog, c)
  /\ UNCHANGED <<at, client, listening, holders, waiting, hungup, signalVars>>

Request(c) ==
  /\ Connected(c) /\ c \notin hungup \cup waiting
  /\ waiting' = waiting \cup {c}
  /\ UNCHANGED <<at, client, listening, holders, backlog, hungup, signalVars>>

HangUp(c) ==
  /\ Connected(c) /\ c \notin hungup
  /\ hungup' = hungup \cup {c}
  /\ UNCHANGED <<at, client, listening, holders, backlog, waiting, signalVars>>

--------------------------------------------------------------------------------
\* The end of a process, by exit() or return: the kernel closes what it held.
Exit(p) ==
  /\ at' = [at EXCEPT ![p] = "gone"]
  /\ listening' = listening \ {p}
  /\ holders' = [c \in Clients |-> holders[c] \ {p}]
  /\ UNCHANGED <<client, clientVars>>

AcceptClient ==
  /\ at[Parent] = "accept"
  /\ backlog # << >>
  /\ client' = Head(backlog)
  /\ backlog' = Tail(backlog)
  /\ holders' = [holders EXCEPT ![client'] = {Parent}]
  /\ at' = [at EXCEPT ![Parent] = "fork"]
  /\ UNCHANGED <<listening, waiting, hungup, signalVars>>

\* fork(): the child starts with the parent's open descriptors and handlers, and
\* with no signal pending.
Fork ==
  /\ at[Parent] = "fork"
  /\ at' = [at EXCEPT ![Parent] = "closeClient", ![client] = "closeListen"]
  /\ listening' = listening \cup {client}
  /\ holders' = [holders EXCEPT ![client] = @ \cup {client}]
  /\ UNCHANGED <<client, clientVars, signalVars>>

\* accept() or fork() fails and main returns.
ParentFails ==
  /\ at[Parent] \in {"accept", "fork"}
  /\ Exit(Parent)
  /\ UNCHANGED signalVars

\* Mutant of CloseClient: the parent goes on to accept without closing.
CloseClientForgotten ==
  /\ at[Parent] = "closeClient"
  /\ client' = Parent
  /\ at' = [at EXCEPT ![Parent] = "accept"]
  /\ UNCHANGED <<listening, holders, clientVars, signalVars>>

CloseClient ==
  /\ at[Parent] = "closeClient"
  /\ holders' = [holders EXCEPT ![client] = @ \ {Parent}]
  /\ client' = Parent
  /\ at' = [at EXCEPT ![Parent] = "accept"]
  /\ UNCHANGED <<listening, clientVars, signalVars>>

ChildCloseListen(c) ==
  /\ at[c] = "closeListen"
  /\ listening' = listening \ {c}
  /\ at' = [at EXCEPT ![c] = "setTerm"]
  /\ UNCHANGED <<client, holders, clientVars, signalVars>>

\* Mutant of ChildSetSignal: SIGTERM is ignored first, as a pending one then is.
ChildIgnoresFirst(c) ==
  /\ \/ at[c] = "setTerm" /\ at' = [at EXCEPT ![c] = "setInt"]
     \/ at[c] = "setInt" /\ at' = [at EXCEPT ![c] = "serve"]
  /\ term' = term \ {c}
  /\ int' = IF at[c] = "setInt" THEN int \ {c} ELSE int
  /\ UNCHANGED <<client, listening, holders, clientVars, stopped, signals>>

\* signal(SIGTERM, ChldEXIT), then signal(SIGINT, SIG_IGN), which discards a
\* pending SIGINT.
ChildSetSignal(c) ==
  /\ \/ /\ at[c] = "setTerm"
        /\ at' = [at EXCEPT ![c] = "setInt"]
        /\ UNCHANGED int
     \/ /\ at[c] = "setInt"
        /\ at' = [at EXCEPT ![c] = "serve"]
        /\ int' = int \ {c}
  /\ UNCHANGED <<client, listening, holders, clientVars, term, stopped, signals>>

\* Mutant of ChildAnswer: the child leaves its loop instead of answering.
ChildAnswerBreaks(c) ==
  /\ at[c] = "serve" /\ c \in waiting
  /\ Exit(c)
  /\ UNCHANGED signalVars

\* One turn of the child's loop: recv() a request and send() the answer.
ChildAnswer(c) ==
  /\ at[c] = "serve" /\ c \in waiting
  /\ waiting' = waiting \ {c}
  /\ UNCHANGED <<at, client, listening, holders, backlog, hungup, signalVars>>

\* Mutant of ChildLeaves: the child falls out of its loop without returning.
ChildLeavesToAccept(c) ==
  /\ at[c] = "serve" /\ c \in hungup
  /\ at' = [at EXCEPT ![c] = "accept"]
  /\ UNCHANGED <<client, listening, holders, clientVars, signalVars>>

\* recv() meets the end of the stream, or send() the closed peer; main returns.
ChildLeaves(c) ==
  /\ at[c] = "serve" /\ c \in hungup
  /\ Exit(c)
  /\ UNCHANGED signalVars

--------------------------------------------------------------------------------
\* Signals.  A handler is at[p] = "fathExit" or "chldExit": it first sets both
\* signals to SIG_IGN, so nothing is delivered to p any more.

Deaf == {p \in Processes : at[p] \in {"unborn", "gone", "fathExit", "chldExit"}}

\* The handler of a signal: the parent's until a child has set its own.
RunsFath(p, places) == p = Parent \/ at[p] \in places

EnterHandler(p) ==
  /\ p \notin Deaf
  /\ \/ p \in term /\ at' = [at EXCEPT ![p] =
                        IF RunsFath(p, Inherited) THEN "fathExit" ELSE "chldExit"]
     \/ p \in int /\ RunsFath(p, Starting) /\ at' = [at EXCEPT ![p] = "fathExit"]
  /\ term' = term \ {p}
  /\ int' = int \ {p}
  /\ UNCHANGED <<client, listening, holders, clientVars, stopped, signals>>

\* Mutant of FathEXIT: the signal goes to the children that serve only.
FathEXITServingOnly(p) ==
  /\ at[p] = "fathExit"
  /\ term' = term \cup {q \in Clients : at[q] = "serve"}
  /\ stopped' = (stopped \/ p = Parent)
  /\ Exit(p)
  /\ UNCHANGED <<int, signals>>

\* kill(0, SIGTERM) to the group, then exit().
FathEXIT(p) ==
  /\ at[p] = "fathExit"
  /\ term' = term \cup (Processes \ Deaf)
  /\ stopped' = (stopped \/ p = Parent)
  /\ Exit(p)
  /\ UNCHANGED <<int, signals>>

ChldEXIT(p) ==
  /\ at[p] = "chldExit"
  /\ Exit(p)
  /\ UNCHANGED signalVars

\* "kill <pid>" in the shell.
KillProcess(p) ==
  /\ signals < MaxSignals
  /\ p \in Alive
  /\ term' = term \cup ({p} \ Deaf)
  /\ signals' = signals + 1
  /\ UNCHANGED <<at, client, listening, holders, clientVars, int, stopped>>

\* Ctrl+c in the shell: SIGINT to the group; children that serve ignore it.
CtrlC ==
  /\ signals < MaxSignals
  /\ int' = int \cup {p \in Processes \ Deaf : RunsFath(p, Starting)}
  /\ signals' = signals + 1
  /\ UNCHANGED <<at, client, listening, holders, clientVars, term, stopped>>

ParentStep == AcceptClient \/ Fork \/ CloseClient

ChildStep(c) ==
  ChildCloseListen(c) \/ ChildSetSignal(c) \/ ChildAnswer(c) \/ ChildLeaves(c)

HandlerStep(p) == EnterHandler(p) \/ FathEXIT(p) \/ ChldEXIT(p)

Next ==
  \/ ParentStep \/ ParentFails
  \/ \E c \in Clients : ChildStep(c) \/ Connect(c) \/ Request(c) \/ HangUp(c)
  \/ \E p \in Processes : HandlerStep(p) \/ KillProcess(p)
  \/ CtrlC

Spec == Init /\ [][Next]_vars

(***************************************************************************)
(* Processes run on and pending signals are delivered.  Clients and the    *)
(* operator are under no obligation, and accept() or fork() need not fail. *)
(***************************************************************************)
FairSpec ==
  /\ Spec
  /\ WF_vars(ParentStep)
  /\ \A c \in Clients : WF_vars(ChildStep(c))
  /\ \A p \in Processes : WF_vars(HandlerStep(p))

--------------------------------------------------------------------------------
(***************************************************************************)
(* Types, and each process keeps to its own part of main: a child never    *)
(* comes back to accept(), as the comment at its return warns.             *)
(***************************************************************************)
TypeOK ==
  /\ at \in [Processes -> {"unborn", "accept", "fork", "closeClient", "closeListen",
                           "setTerm", "setInt", "serve", "fathExit", "chldExit", "gone"}]
  /\ at[Parent] \in {"accept", "fork", "closeClient", "fathExit", "gone"}
  /\ \A c \in Clients : at[c] \notin {"accept", "fork", "closeClient"}
  /\ backlog \in Seq(Clients)
  /\ client \in Processes
  /\ listening \subseteq Processes
  /\ holders \in [Clients -> SUBSET Processes]
  /\ waiting \subseteq Clients /\ hungup \subseteq Clients
  /\ term \subseteq Processes /\ int \subseteq Processes
  /\ stopped \in BOOLEAN
  /\ signals \in 0..MaxSignals

(***************************************************************************)
(* Descriptors do not leak through fork(): a client's socket is open in no *)
(* process but its child and, until it closes it, the parent, so that the  *)
(* client sees the end of its connection when its child ends; and no child *)
(* that serves keeps the port busy.                                        *)
(***************************************************************************)
SocketsHaveOneOwner ==
  /\ \A c \in Clients :
       holders[c] = {p \in Alive : p = c \/ (p = Parent /\ client = c)}
  /\ \A c \in Clients : at[c] = "serve" => c \notin listening

(***************************************************************************)
(* "Tell all the children to exit": when the parent has run FathEXIT no    *)
(* child is left that is not on its way out, not even one it had just      *)
(* forked and that was about to change its handlers.                       *)
(***************************************************************************)
NoChildLeftBehind ==
  stopped => \A c \in Clients : c \in Deaf \cup term

(***************************************************************************)
(* After FathEXIT the whole server is gone, and the port is free.          *)
(***************************************************************************)
StopsCompletely == stopped ~> (Alive = {} /\ listening = {})

(***************************************************************************)
(* A request that reaches a child is answered, unless its client hangs up  *)
(* or someone signals the server; the end of the parent does not stop it.  *)
(***************************************************************************)
AnswersRequests ==
  \A c \in Clients :
    c \in waiting /\ at[c] = "serve" ~> c \notin waiting \/ c \in hungup \/ signals > 0
================================================================================
