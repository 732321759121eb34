------------------------------ MODULE PollServer ------------------------------
(***************************************************************************)
(* network/tcppoll.cpp: the echo server with poll().  fds[] has an entry   *)
(* per descriptor; poll() writes revents in the entries up to maxfd only,  *)
(* and the scan reads whatever revents the entry of a client accepted in   *)
(* the same scan has: what the stack held, or what a poll() long past      *)
(* wrote for an earlier client of the same descriptor.                     *)
(***************************************************************************)
EXTENDS Sockets

VARIABLES
  watched,    \* the descriptors whose entry is not -1
  revents,    \* revents[fd]: the POLLIN bit of the entry
  maxfd,
  eventfd,    \* the descriptor the scan has come to; None outside the scan
  fresh       \* history: the descriptor accepted since the last poll(), or None

serverVars == <<watched, revents, maxfd, eventfd, fresh>>
vars == <<socketVars, serverVars>>

\* fds[2048] is a local array: only its fd members are initialised.
Init ==
  /\ SocketsInit
  /\ watched = {Listen}
  /\ revents \in [Fds -> BOOLEAN]
  /\ maxfd = Listen
  /\ eventfd = None
  /\ fresh = None

Ready == {fd \in watched : fd <= maxfd /\ Readable(fd)}

\* poll() returns, with an event or after its 10 seconds, and has written the
\* revents of every entry it was given.
Poll ==
  /\ eventfd = None
  /\ revents' = [fd \in Fds |-> IF fd <= maxfd THEN fd \in Ready ELSE revents[fd]]
  /\ eventfd' = IF Ready = {} THEN None ELSE Listen
  /\ fresh' = None
  /\ UNCHANGED <<socketVars, watched, maxfd>>

\* Mutant of Advance: the scan ends before maxfd.
AdvanceShort(newMax) ==
  eventfd' = IF eventfd + 1 < newMax THEN eventfd + 1 ELSE None

\* The for loop: next descriptor, or the end of the scan.
Advance(newMax) ==
  eventfd' = IF eventfd + 1 <= newMax THEN eventfd + 1 ELSE None

Event(fd) == fd \in watched /\ revents[fd]

SkipFd ==
  /\ eventfd \in Fds /\ ~Event(eventfd)
  /\ Advance(maxfd)
  /\ UNCHANGED <<socketVars, watched, revents, maxfd, fresh>>

\* The new client's entry gets its fd and its events; revents is left alone.
AcceptClient ==
  /\ eventfd = Listen /\ Event(Listen)
  /\ \/ \E fd \in ClientFds :
          /\ Accept(fd)
          /\ watched' = watched \cup {fd}
          /\ maxfd' = Max({maxfd, fd})
          /\ fresh' = fd
     \/ AcceptFails /\ UNCHANGED <<socketVars, watched, maxfd, fresh>>
  /\ Advance(maxfd')
  /\ UNCHANGED revents

\* recv() blocks while there is neither data nor the end of the stream: then
\* no action of the server is enabled and the scan stands still.
ReceiveFrom ==
  /\ eventfd \in ClientFds /\ Event(eventfd)
  /\ Receive(eventfd)
  /\ UNCHANGED serverVars

\* Mutant of SendBack: the scan stays and receives until there is nothing left.
SendBackStays == Reply /\ UNCHANGED serverVars

SendBack ==
  /\ Reply
  /\ Advance(maxfd)
  /\ UNCHANGED <<watched, revents, maxfd, fresh>>

DropClient ==
  /\ eventfd \in ClientFds /\ Event(eventfd)
  /\ Disconnect(eventfd)
  /\ watched' = watched \ {eventfd}
  /\ maxfd' = IF eventfd = maxfd THEN Max(watched') ELSE maxfd
  /\ Advance(maxfd')
  /\ UNCHANGED <<revents, fresh>>

ServerStep == Poll \/ SkipFd \/ AcceptClient \/ ReceiveFrom \/ SendBack \/ DropClient
              \/ (SigPipe /\ UNCHANGED serverVars)

Next == ~killed /\ (ServerStep \/ (ClientStep /\ UNCHANGED serverVars))

Spec == Init /\ [][Next]_vars

\* The server process runs on, and clients that stay read what they are sent.
FairSpec ==
  /\ Spec
  /\ WF_vars(~killed /\ ServerStep)
  /\ \A c \in Clients : WF_vars(~killed /\ ClientRead(c) /\ UNCHANGED serverVars)

--------------------------------------------------------------------------------
(***************************************************************************)
(* The variables have their types, and the server has received no more of  *)
(* a client's bytes than the client has sent.                              *)
(***************************************************************************)
TypeOK ==
  /\ SocketsTypeOK
  /\ watched \subseteq Fds
  /\ revents \in [Fds -> BOOLEAN]
  /\ maxfd \in Fds
  /\ eventfd \in Fds \cup {None}
  /\ fresh \in ClientFds \cup {None}

(***************************************************************************)
(* The array and maxfd agree with the sockets that are open: no connection *)
(* goes unwatched and poll() is given no closed descriptor.                *)
(***************************************************************************)
WatchesOpenSockets ==
  /\ watched = {Listen} \cup {fd \in ClientFds : Open(fd)}
  /\ maxfd = Max(watched)

(***************************************************************************)
(* Once every client has hung up, every socket is closed and what was sent *)
(* has been received, if the server has survived: a recv() that the stale  *)
(* revents made block, or a send() to a client that did not read, ends     *)
(* when its client leaves, and then nothing is left undone.                *)
(***************************************************************************)
AllHangUp == \A c \in Clients : link[c] # "new" => c \in hungup

DrainsWhenAllHangUp ==
  <>[]AllHangUp => <>[](\/ killed
                        \/ \A c \in Clients : /\ link[c] \in {"new", "closed"}
                                              /\ taken[c] = Len(sent[c]))

(***************************************************************************)
(* recv() is called on a socket that has nothing to read, and blocks the   *)
(* one process that serves all clients, only for a client accepted in the  *)
(* same scan, whose revents poll() has not written: the comment in the     *)
(* scan, "if there is no read event, continue", holds for all the others,  *)
(* however descriptors and entries were used before.                       *)
(***************************************************************************)
BlocksOnlyOnFresh ==
  eventfd \in ClientFds /\ Event(eventfd) /\ reply = None /\ ~Readable(eventfd)
    => eventfd = fresh
================================================================================
