----------------------------- MODULE SelectServer -----------------------------
(***************************************************************************)
(* network/tcpselect.cpp: a server that echoes what its clients send, with *)
(* select().  readfds and maxfd are kept by hand; one turn of the loop     *)
(* copies readfds to tmpfds, waits, and scans the descriptors from 0 to    *)
(* maxfd.  The steps of a scan interleave with what clients do.            *)
(***************************************************************************)
EXTENDS Sockets

VARIABLES
  readfds,    \* the descriptors to watch
  tmpfds,     \* the copy that select() leaves the ready ones in
  maxfd,
  eventfd     \* the descriptor the scan has come to; None outside the scan

serverVars == <<readfds, tmpfds, maxfd, eventfd>>
vars == <<socketVars, serverVars>>

Init ==
  /\ SocketsInit
  /\ readfds = {Listen}
  /\ tmpfds = {}
  /\ maxfd = Listen
  /\ eventfd = None

\* select() sleeps until a watched descriptor is readable: its timeout argument
\* is 0, so it never gives up.
Select ==
  /\ eventfd = None
  /\ tmpfds' = {fd \in readfds : fd <= maxfd /\ Readable(fd)}
  /\ tmpfds' # {}
  /\ eventfd' = Listen
  /\ UNCHANGED <<socketVars, readfds, maxfd>>

\* The for loop: next descriptor, or the end of the scan.  newMax is the value
\* maxfd has by then.
Advance(newMax) ==
  eventfd' = IF eventfd + 1 <= newMax THEN eventfd + 1 ELSE None

SkipFd ==
  /\ eventfd \in Fds \ tmpfds
  /\ Advance(maxfd)
  /\ UNCHANGED <<socketVars, readfds, tmpfds, maxfd>>

\* Mutant of AcceptClient: maxfd is set to the new socket, even to a smaller one.
AcceptSetsMax ==
  /\ eventfd = Listen /\ Listen \in tmpfds
  /\ \/ \E fd \in ClientFds :
          /\ Accept(fd)
          /\ readfds' = readfds \cup {fd}
          /\ maxfd' = fd
     \/ AcceptFails /\ UNCHANGED <<socketVars, readfds, maxfd>>
  /\ Advance(maxfd')
  /\ UNCHANGED tmpfds

\* Mutant of AcceptClient: the client's bit is set in the copy too.
AcceptMarksReady ==
  /\ eventfd = Listen /\ Listen \in tmpfds
  /\ \/ \E fd \in ClientFds :
          /\ Accept(fd)
          /\ readfds' = readfds \cup {fd}
          /\ tmpfds' = tmpfds \cup {fd}
          /\ maxfd' = Max({maxfd, fd})
     \/ AcceptFails /\ UNCHANGED <<socketVars, readfds, tmpfds, maxfd>>
  /\ Advance(maxfd')

AcceptClient ==
  /\ eventfd = Listen /\ Listen \in tmpfds
  /\ \/ \E fd \in ClientFds :
          /\ Accept(fd)
          /\ readfds' = readfds \cup {fd}
          /\ maxfd' = Max({maxfd, fd})
     \/ AcceptFails /\ UNCHANGED <<socketVars, readfds, maxfd>>
  /\ Advance(maxfd')
  /\ UNCHANGED tmpfds

ReceiveFrom ==
  /\ eventfd \in tmpfds \ {Listen}
  /\ Receive(eventfd)
  /\ UNCHANGED serverVars

SendBack ==
  /\ Reply
  /\ Advance(maxfd)
  /\ UNCHANGED <<readfds, tmpfds, maxfd>>

\* A closed client leaves readfds, and maxfd is searched for again if it was it.
DropClient ==
  /\ eventfd \in tmpfds \ {Listen}
  /\ Disconnect(eventfd)
  /\ readfds' = readfds \ {eventfd}
  /\ maxfd' = IF eventfd = maxfd THEN Max(readfds') ELSE maxfd
  /\ Advance(maxfd')
  /\ UNCHANGED tmpfds

ServerStep == Select \/ SkipFd \/ AcceptClient \/ ReceiveFrom \/ SendBack \/ DropClient
              \/ (SigPipe /\ UNCHANGED serverVars)

Next == ~killed /\ (ServerStep \/ (ClientStep /\ UNCHANGED serverVars))

Spec == Init /\ [][Next]_vars

\* The server process runs on, and clients that stay read what they are sent.
FairSpec ==
  /\ Spec
  /\ WF_vars(~killed /\ ServerStep)
  /\ \A c \in Clients : WF_vars(~killed /\ ClientRead(c) /\ UNCHANGED serverVars)

--------------------------------------------------------------------------------
(***************************************************************************)
(* The variables have their types, and the server has received no more of  *)
(* a client's bytes than the client has sent.                              *)
(***************************************************************************)
TypeOK ==
  /\ SocketsTypeOK
  /\ readfds \subseteq Fds /\ tmpfds \subseteq Fds
  /\ maxfd \in Fds
  /\ eventfd \in Fds \cup {None}

(***************************************************************************)
(* The hand-kept set and maximum agree with the sockets that are open: no  *)
(* connection goes unwatched, no closed descriptor is watched, and maxfd   *)
(* is the largest one, also after the largest was closed.                  *)
(***************************************************************************)
WatchesOpenSockets ==
  /\ readfds = {Listen} \cup {fd \in ClientFds : Open(fd)}
  /\ maxfd = Max(readfds)

(***************************************************************************)
(* The server, one process for all its clients, never calls a recv() that  *)
(* blocks: when the scan comes to a bit that select() set, there still is  *)
(* something to read there.                                                *)
(***************************************************************************)
NeverBlocksInRecv == eventfd \in tmpfds /\ reply = None => Readable(eventfd)

\* The server has something to do for cl: to accept it, unless descriptors have
\* run out, to echo what it sent, or to close its socket.
Waits(cl) ==
  \/ link[cl] = "queued" /\ FreeFds # {}
  \/ link[cl] = "open" /\ (Owed(cl) \/ cl \in hungup)

(***************************************************************************)
(* As long as clients read what they are sent, and unless one hangs up     *)
(* before it has everything back, nobody waits for ever, however the       *)
(* others behave.  (One that leaves early may kill the server, one that    *)
(* stops reading may stop it.)                                             *)
(***************************************************************************)
Served == \A cl \in Clients : Waits(cl) ~> ~Waits(cl) \/ LeftEarly
================================================================================
