------------------------------ MODULE EpollServer ------------------------------
(***************************************************************************)
(* network/tcpepoll.cpp: the echo server with epoll.  The kernel hands     *)
(* back, with each event, the data its descriptor was registered with.     *)
(* For listensock the program writes data.fd and then data.ptr, members of *)
(* one union, so that data.fd is the low half of a string's address.       *)
(***************************************************************************)
EXTENDS Sockets

CONSTANTS
  ListenData, \* what is left in data.fd of the listening socket's event: no
              \* descriptor the process has open
  MaxEvents   \* sizeof(evs)

VARIABLES
  data,       \* data[fd]: data.fd of a descriptor in the epoll set
  evs         \* the data.fd of the events still to be handled, in order

serverVars == <<data, evs>>
vars == <<socketVars, serverVars>>

Init ==
  /\ SocketsInit
  /\ data = [fd \in {Listen} |-> ListenData]
  /\ evs = << >>

\* epoll_wait() without a timeout: up to MaxEvents of the ready descriptors.
EpollWait ==
  /\ evs = << >>
  /\ \E ready \in SUBSET {fd \in DOMAIN data : Readable(fd)} :
       /\ ready # {} /\ Cardinality(ready) <= MaxEvents
       /\ \E order \in [1..Cardinality(ready) -> ready] :
            /\ \A i, j \in DOMAIN order : order[i] = order[j] => i = j
            /\ evs' = [i \in DOMAIN order |-> data[order[i]]]
  /\ UNCHANGED <<socketVars, data>>

AcceptClient ==
  /\ evs # << >> /\ Head(evs) = Listen
  /\ \/ \E fd \in ClientFds :
          /\ Accept(fd)
          /\ data' = [f \in DOMAIN data \cup {fd} |-> IF f = fd THEN fd ELSE data[f]]
     \/ AcceptFails /\ UNCHANGED <<socketVars, data>>
  /\ evs' = Tail(evs)

ReceiveFrom ==
  /\ evs # << >> /\ Open(Head(evs))
  /\ Receive(Head(evs))
  /\ UNCHANGED serverVars

SendBack ==
  /\ Reply
  /\ evs' = Tail(evs)
  /\ UNCHANGED data

\* close() takes the descriptor out of the epoll set.
DropClient ==
  /\ evs # << >> /\ Open(Head(evs))
  /\ Disconnect(Head(evs))
  /\ data' = [f \in DOMAIN data \ {Head(evs)} |-> data[f]]
  /\ evs' = Tail(evs)

\* recv() and close() of something that is not an open descriptor: both fail.
RecvFails ==
  /\ evs # << >> /\ Head(evs) # Listen /\ ~Open(Head(evs))
  /\ evs' = Tail(evs)
  /\ UNCHANGED <<socketVars, data>>

ServerStep == EpollWait \/ AcceptClient \/ ReceiveFrom \/ SendBack \/ DropClient
              \/ RecvFails \/ (SigPipe /\ UNCHANGED serverVars)

Next == ~killed /\ (ServerStep \/ (ClientStep /\ UNCHANGED serverVars))

Spec == Init /\ [][Next]_vars

FairSpec == Spec /\ WF_vars(~killed /\ ServerStep)

--------------------------------------------------------------------------------
(***************************************************************************)
(* "If the event is on listensock a new client has connected" (the comment *)
(* at the test in the loop): whoever connects is accepted in the end.      *)
(***************************************************************************)
AcceptsClients == \A c \in Clients : link[c] = "queued" ~> link[c] # "queued"
================================================================================
