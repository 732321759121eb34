-------------------------------- MODULE Sockets --------------------------------
(***************************************************************************)
(* What the servers under network/ run on: the kernel's listening socket,  *)
(* the process's descriptors, and clients that connect, send bytes and     *)
(* hang up whenever they like.  A connection carries a stream of bytes; a  *)
(* recv returns what has arrived, up to the size of the buffer, and blocks *)
(* when nothing has; a send blocks while the client leaves too much unread.*)
(* Each client connects once.                                              *)
(***************************************************************************)
EXTENDS Integers, Sequences, FiniteSets, FiniteSetsExt

CONSTANTS
  Clients,
  Bytes,      \* the bytes clients send
  Nul,        \* the byte 0, which ends a C string; it may be among Bytes
  Junk,       \* a byte the server reads from beyond its buffer
  None,       \* no client, no descriptor, no reply
  Listen,     \* listensock
  LastFd,     \* the largest descriptor the process may open
  Backlog,    \* the argument of listen()
  BufferSize, \* sizeof(buffer)
  MaxSend,    \* bound of a run: bytes a client sends
  Window      \* bytes a client sends before the server has received them

\* Descriptors above the listening socket; those below are taken for good.
ClientFds == Listen + 1 .. LastFd

Fds == Listen .. LastFd

\* A send(): the socket, and the bytes that strlen() found in the buffer.
Replies == [fd : ClientFds, text : Seq(Bytes \cup {Junk})]

ASSUME SocketsAssumption ==
  /\ IsFiniteSet(Clients)
  /\ None \notin Clients /\ None \notin Fds /\ None \notin Replies
  /\ Listen \in Nat /\ LastFd \in Nat /\ Listen < LastFd
  /\ Backlog \in Nat \ {0} /\ BufferSize \in Nat \ {0}
  /\ MaxSend \in Nat /\ Window \in Nat

VARIABLES
  backlog,    \* clients connected and not accepted yet, oldest first
  fds,        \* fds[fd]: the client at the other end of the open socket fd
  link,       \* link[c]: "new", "queued", "open", or "closed" by the server
  hungup,     \* the clients that have closed their end
  sent,       \* sent[c]: every byte c has sent
  taken,      \* taken[c]: how many of them the server has received
  full,       \* the clients that have so much to read that a send() to them blocks
  reply,      \* the send() under way, or None
  echoed,     \* echoed[c]: every byte the server has sent to c
  killed,     \* the server has died of SIGPIPE
  mangled     \* history: the clients of whose messages one had a NUL or filled the buffer

socketVars ==
  <<backlog, fds, link, hungup, sent, taken, full, reply, echoed, killed, mangled>>

SocketsInit ==
  /\ backlog = << >>
  /\ fds = [fd \in ClientFds |-> None]
  /\ link = [c \in Clients |-> "new"]
  /\ hungup = {}
  /\ sent = [c \in Clients |-> << >>]
  /\ taken = [c \in Clients |-> 0]
  /\ full = {} /\ reply = None
  /\ echoed = [c \in Clients |-> << >>]
  /\ killed = FALSE /\ mangled = {}

--------------------------------------------------------------------------------
\* What clients do.

Connect(c) ==
  /\ link[c] = "new"
  /\ Len(backlog) < Backlog
  /\ link' = [link EXCEPT ![c] = "queued"]
  /\ backlog' = Append(backlog, c)
  /\ UNCHANGED <<fds, hungup, sent, taken, full, reply, echoed, killed, mangled>>

ClientSend(c, b) ==
  /\ link[c] \in {"queued", "open"}
  /\ c \notin hungup
  /\ Len(sent[c]) < MaxSend
  /\ Len(sent[c]) - taken[c] < Window
  /\ sent' = [sent EXCEPT ![c] = Append(@, b)]
  /\ UNCHANGED <<backlog, fds, link, hungup, taken, full, reply, echoed, killed, mangled>>

HangUp(c) ==
  /\ link[c] \in {"queued", "open"}
  /\ c \notin hungup
  /\ hungup' = hungup \cup {c}
  /\ full' = full \ {c}
  /\ UNCHANGED <<backlog, fds, link, sent, taken, reply, echoed, killed, mangled>>

\* A client reads what has been sent to it, which makes room for more.
ClientRead(c) ==
  /\ c \in full
  /\ full' = full \ {c}
  /\ UNCHANGED <<backlog, fds, link, hungup, sent, taken, reply, echoed, killed, mangled>>

ClientStep ==
  \E c \in Clients :
    Connect(c) \/ (\E b \in Bytes : ClientSend(c, b)) \/ HangUp(c) \/ ClientRead(c)

--------------------------------------------------------------------------------
\* What the system calls of a server do.

Open(fd) == fd \in ClientFds /\ fds[fd] # None

FreeFds == {fd \in ClientFds : fds[fd] = None}

\* The bytes that have arrived for client c.
Arrived(c) == SubSeq(sent[c], taken[c] + 1, Len(sent[c]))

\* A read event: a client to accept, bytes to receive, or the end of a stream.
Readable(fd) ==
  IF fd = Listen THEN backlog # << >>
  ELSE Open(fd) /\ (Arrived(fds[fd]) # << >> \/ fds[fd] \in hungup)

\* accept() gives the oldest client the lowest free descriptor.
Accept(fd) ==
  /\ backlog # << >>
  /\ FreeFds # {} /\ fd = Min(FreeFds)
  /\ fds' = [fds EXCEPT ![fd] = Head(backlog)]
  /\ link' = [link EXCEPT ![Head(backlog)] = "open"]
  /\ backlog' = Tail(backlog)
  /\ UNCHANGED <<hungup, sent, taken, full, reply, echoed, killed, mangled>>

\* accept() fails when the process has no descriptor left.
AcceptFails == backlog # << >> /\ FreeFds = {}

\* strlen(): the bytes before the first NUL.  A buffer that recv has filled has
\* no NUL of its own, and what lies beyond it may be read as well.
Text(chunk) ==
  LET nuls == {i \in 1..Len(chunk) : chunk[i] = Nul}
  IN  IF nuls = {} THEN chunk ELSE SubSeq(chunk, 1, Min(nuls) - 1)

Texts(chunk) ==
  {Text(chunk)} \cup
    IF Text(chunk) = chunk /\ Len(chunk) = BufferSize THEN {Append(chunk, Junk)} ELSE {}

\* What strlen() finds the length of.
IsPlain(chunk) == Len(chunk) < BufferSize /\ \A i \in 1..Len(chunk) : chunk[i] # Nul

\* The bytes a recv() takes of what has arrived for c.
Chunk(c) == SubSeq(Arrived(c), 1, Min({BufferSize, Len(Arrived(c))}))

\* Mutant of Receive: the buffer is not cleared, and the end of an earlier, longer
\* message of the client goes back with this one.
ReceiveUncleared(fd) ==
  /\ reply = None /\ Chunk(fds[fd]) # << >>
  /\ taken' = [taken EXCEPT ![fds[fd]] = @ + Len(Chunk(fds[fd]))]
  /\ \E rest \in {SubSeq(sent[fds[fd]], Len(Chunk(fds[fd])) + 1, taken[fds[fd]])} :
       \E text \in Texts(Chunk(fds[fd])) : reply' = [fd |-> fd, text |-> text \o rest]
  /\ mangled' = IF IsPlain(Chunk(fds[fd])) THEN mangled ELSE mangled \cup {fds[fd]}
  /\ UNCHANGED <<backlog, fds, link, hungup, sent, full, echoed, killed>>

\* recv() into the cleared buffer, of which strlen() bytes are to be sent back.
Receive(fd) ==
  /\ reply = None /\ Chunk(fds[fd]) # << >>
  /\ taken' = [taken EXCEPT ![fds[fd]] = @ + Len(Chunk(fds[fd]))]
  /\ \E text \in Texts(Chunk(fds[fd])) : reply' = [fd |-> fd, text |-> text]
  /\ mangled' = IF IsPlain(Chunk(fds[fd])) THEN mangled ELSE mangled \cup {fds[fd]}
  /\ UNCHANGED <<backlog, fds, link, hungup, sent, full, echoed, killed>>

\* send() returns when there is room for the reply, which it may fill, or when
\* the client has hung up.
Reply ==
  /\ reply # None
  /\ LET c == fds[reply.fd]
     IN  /\ c \notin full
         /\ echoed' = [echoed EXCEPT ![c] = @ \o reply.text]
         /\ full' \in {full, full \cup ({c} \ hungup)}
  /\ reply' = None
  /\ UNCHANGED <<backlog, fds, link, hungup, sent, taken, killed, mangled>>

\* A connection whose client has hung up is reset by what is sent to it.  A
\* send() that finds it reset raises SIGPIPE, which no server handles.
SigPipe ==
  /\ reply # None /\ fds[reply.fd] \in hungup
  /\ killed' = TRUE
  /\ UNCHANGED <<backlog, fds, link, hungup, sent, taken, full, reply, echoed, mangled>>

\* recv() returns 0 at the end of the stream, and the server closes its socket.
Disconnect(fd) ==
  /\ reply = None
  /\ Arrived(fds[fd]) = << >>
  /\ fds[fd] \in hungup
  /\ link' = [link EXCEPT ![fds[fd]] = "closed"]
  /\ fds' = [fds EXCEPT ![fd] = None]
  /\ UNCHANGED <<backlog, hungup, sent, taken, full, reply, echoed, killed, mangled>>

--------------------------------------------------------------------------------
SocketsTypeOK ==
  /\ backlog \in Seq(Clients) /\ Len(backlog) <= Backlog
  /\ fds \in [ClientFds -> Clients \cup {None}]
  /\ link \in [Clients -> {"new", "queued", "open", "closed"}]
  /\ hungup \subseteq Clients /\ full \subseteq Clients \ hungup
  /\ sent \in [Clients -> Seq(Bytes)] /\ taken \in [Clients -> Nat]
  /\ \A c \in Clients : taken[c] <= Len(sent[c])
  /\ echoed \in [Clients -> Seq(Bytes \cup {Junk})]
  /\ reply \in Replies \cup {None}
  /\ reply # None => Open(reply.fd)
  /\ killed \in BOOLEAN /\ mangled \subseteq Clients

\* What is on its way to c in the send() under way.
Replying(c) == IF reply # None /\ fds[reply.fd] = c THEN reply.text ELSE << >>

\* What a client gets back is what the server has received from it, byte for
\* byte, in order and once.
SentBack(c) == echoed[c] \o Replying(c) = SubSeq(sent[c], 1, taken[c])

(***************************************************************************)
(* Every byte received goes back, in order and once, however messages are  *)
(* cut into chunks, until a chunk has had a NUL in it or has filled the    *)
(* buffer, of which strlen() sees too little or too much.                  *)
(***************************************************************************)
EchoIsExact == \A c \in Clients \ mangled : SentBack(c)

(***************************************************************************)
(* The comment at send(): the content of the message goes back unchanged,  *)
(* whatever it is.                                                         *)
(***************************************************************************)
SentBackUnchanged == \A c \in Clients : SentBack(c)

\* Of what c has sent, something is still to be received or is on its way back.
Owed(c) == taken[c] # Len(sent[c]) \/ (reply # None /\ fds[reply.fd] = c)

\* A client has hung up while the server still owes it something.
LeftEarly == \E c \in hungup : Owed(c)
================================================================================
