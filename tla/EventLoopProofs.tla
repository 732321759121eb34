---------------------------- MODULE EventLoopProofs ----------------------------
(***************************************************************************)
(* The select and the poll server (SelectServer, PollServer): proofs for   *)
(* every number of clients and descriptors.  What the calls they share do  *)
(* to the sockets is proved first, then one inductive invariant for each   *)
(* scan.  P is the instance of PollServer that MCEventLoops declares.      *)
(***************************************************************************)
EXTENDS MCEventLoops, SequenceTheorems, FiniteSetTheorems, TLAPS

\* A socket's client is open, one in the backlog queued, and no client is in two
\* places: clients and descriptors are paired up.
Paired ==
  /\ \A i \in 1..Len(backlog) : link[backlog[i]] = "queued"
  /\ \A i, j \in 1..Len(backlog) : backlog[i] = backlog[j] => i = j
  /\ \A fd \in ClientFds : fds[fd] # None => link[fds[fd]] = "open"
  /\ \A fd, fe \in ClientFds : fds[fd] # None /\ fds[fd] = fds[fe] => fd = fe

SocketInv == SocketsTypeOK /\ Paired

\* The scan has yet to come to fd, or is there and has not received.
Ahead(fd) ==
  eventfd # None /\ (eventfd < fd \/ (eventfd = fd /\ reply = None))

\* The select server: the set and the maximum are right, a send() belongs to the
\* scan, and every bit that the scan has yet to come to is still true.
SelectInv ==
  /\ SocketInv
  /\ readfds = {Listen} \cup {fd \in ClientFds : Open(fd)}
  /\ maxfd \in readfds /\ \A fd \in readfds : fd <= maxfd
  /\ tmpfds \subseteq Fds
  /\ eventfd \in Fds \cup {None}
  /\ reply # None => eventfd = reply.fd /\ eventfd \in tmpfds \ {Listen}
  /\ \A fd \in tmpfds : Ahead(fd) => Readable(fd)

\* The poll server: the same, but for the client accepted in this scan.
PollInv ==
  /\ SocketInv
  /\ readfds = {Listen} \cup {fd \in ClientFds : Open(fd)}
  /\ maxfd \in readfds /\ \A fd \in readfds : fd <= maxfd
  /\ revents \in [Fds -> BOOLEAN]
  /\ eventfd \in Fds \cup {None}
  /\ fresh \in ClientFds \cup {None}
  /\ eventfd = Listen => fresh = None
  /\ reply # None => eventfd = reply.fd /\ eventfd \in ClientFds /\ revents[eventfd]
  /\ \A fd \in readfds : revents[fd] /\ Ahead(fd) => Readable(fd) \/ fd = fresh

\* What clients must not send for strlen() to see all of it.
PlainText == Nul \notin Bytes /\ Window < BufferSize

\* No more is waiting than the window has room for, what was received goes back,
\* and of plain text strlen() sees all.
EchoInv ==
  /\ \A c \in Clients : Len(sent[c]) - taken[c] <= Window
  /\ EchoIsExact
  /\ PlainText => mangled = {}

--------------------------------------------------------------------------------
\* Largest and smallest numbers.

\* A non-empty set of natural numbers has a smallest element, which Min is: the
\* one whose initial segment has no other among its subsets.
LEMMA MinIs ==
  ASSUME NEW S \in SUBSET Nat, S # {}
  PROVE  Min(S) \in S /\ \A x \in S : Min(S) <= x
<1> DEFINE Up(x) == 0..x
           T == {Up(x) : x \in S}
<1>1. T # {}
  OBVIOUS
<1>2. T \subseteq FiniteSubsetsOf(Nat)
  <2> SUFFICES ASSUME NEW x \in S  PROVE Up(x) \in FiniteSubsetsOf(Nat)
    OBVIOUS
  <2>1. x \in Int /\ IsFiniteSet(0..x)
    BY FS_Interval
  <2> QED  BY <2>1 DEF FiniteSubsetsOf
<1>3. PICK m \in S : \A X \in T : <<X, Up(m)>> \notin StrictSubsetOrdering(Nat)
  <2> HIDE DEF T
  <2>1. \E X \in T : \A Y \in T : <<Y, X>> \notin StrictSubsetOrdering(Nat)
    BY <1>1, <1>2, FS_StrictSubsetOrderingWellFounded, WFMin
  <2> QED  BY <2>1 DEF T
<1>4. \A x \in S : m <= x
  <2> SUFFICES ASSUME NEW x \in S, x < m  PROVE FALSE
    OBVIOUS
  <2>1. Up(x) \subseteq Up(m) /\ Up(x) # Up(m)
    OBVIOUS
  <2>2. <<Up(x), Up(m)>> \notin StrictSubsetOrdering(Nat)
    BY <1>3
  <2> QED  BY <2>1, <2>2 DEF StrictSubsetOrdering
<1> QED  BY <1>4 DEF Min

\* So is Max of a bounded set its largest element.
LEMMA MaxIs ==
  ASSUME NEW n \in Nat, NEW S \in SUBSET (0..n), S # {}
  PROVE  Max(S) \in S /\ \A x \in S : x <= Max(S)
<1> DEFINE T == {n - x : x \in S}
<1>1. T \in SUBSET Nat /\ T # {}
  <2>1. \A x \in S : x \in Int /\ 0 <= x /\ x <= n
    OBVIOUS
  <2>2. \A x \in S : n - x \in Nat
    BY <2>1
  <2> QED  BY <2>2
<1>2. Min(T) \in T /\ \A x \in T : Min(T) <= x
  <2> HIDE DEF T
  <2> QED  BY <1>1, MinIs
<1>3. PICK m \in S : \A x \in S : n - m <= n - x
  BY <1>2
<1>4. \A x \in S : x <= m
  BY <1>3
<1> QED  BY <1>4 DEF Max

\* What is at least everything in a set it belongs to is its Max.
LEMMA MaxUnique ==
  ASSUME NEW n \in Nat, NEW S \in SUBSET (0..n), NEW m \in S, \A x \in S : x <= m
  PROVE  Max(S) = m
<1>1. Max(S) \in S /\ \A x \in S : x <= Max(S)
  BY MaxIs
<1>2. m <= Max(S) /\ Max(S) <= m
  BY <1>1
<1>3. \A x \in S : x \in Int
  OBVIOUS
<1>4. Max(S) \in Int /\ m \in Int
  BY <1>1, <1>3
<1> QED  BY <1>2, <1>4

--------------------------------------------------------------------------------
\* Streams of bytes.

\* The bytes taken and the next chunk are the bytes taken by then.
LEMMA PrefixGrows ==
  ASSUME NEW S, NEW s \in Seq(S), NEW t \in Nat, NEW n \in Nat, t + n <= Len(s)
  PROVE  SubSeq(s, 1, t) \o SubSeq(s, t + 1, t + n) = SubSeq(s, 1, t + n)
<1>1. t + 1 \in 1..Len(s) + 1 /\ t \in 0..Len(s) /\ t + n \in t..Len(s)
  BY LenProperties
<1> QED  BY <1>1, ConcatAdjacentSubSeq

\* What a client sends later does not change what was taken.
LEMMA PrefixStays ==
  ASSUME NEW S, NEW s \in Seq(S), NEW b \in S, NEW t \in Nat, t <= Len(s)
  PROVE  SubSeq(Append(s, b), 1, t) = SubSeq(s, 1, t)
<1>1. Len(s) \in Nat /\ Append(s, b) \in Seq(S)
  BY LenProperties, AppendProperties
<1>2. \A i \in 1..t : s[i] \in S /\ Append(s, b)[i] = s[i]
  BY <1>1, ElementOfSeq, AppendProperties
<1>3. /\ SubSeq(s, 1, t) \in Seq(S) /\ Len(SubSeq(s, 1, t)) = t
      /\ \A i \in 1..t : SubSeq(s, 1, t)[i] = s[i]
  BY <1>2, SubSeqProperties, 1 \in Int
<1>4. /\ SubSeq(Append(s, b), 1, t) \in Seq(S) /\ Len(SubSeq(Append(s, b), 1, t)) = t
      /\ \A i \in 1..t : SubSeq(Append(s, b), 1, t)[i] = Append(s, b)[i]
  BY <1>2, SubSeqProperties, 1 \in Int
<1> QED  BY <1>2, <1>3, <1>4, SeqEqual

\* What a piece of a stream consists of.
LEMMA PieceIs ==
  ASSUME NEW S, NEW s \in Seq(S), NEW t \in Nat, NEW n \in Nat, t + n <= Len(s)
  PROVE  /\ SubSeq(s, t + 1, t + n) \in Seq(S)
         /\ Len(SubSeq(s, t + 1, t + n)) = n
         /\ \A i \in 1..n : SubSeq(s, t + 1, t + n)[i] = s[t + i]
<1>1. \A i \in t + 1..t + n : s[i] \in S
  BY LenProperties, ElementOfSeq
<1>2. t + 1 \in Int /\ t + n \in Int
  OBVIOUS
<1>3. /\ SubSeq(s, t + 1, t + n) \in Seq(S)
      /\ Len(SubSeq(s, t + 1, t + n)) = IF t + 1 <= t + n THEN t + n - (t + 1) + 1 ELSE 0
      /\ \A i \in 1..t + n - (t + 1) + 1 : SubSeq(s, t + 1, t + n)[i] = s[t + 1 + i - 1]
  BY <1>1, <1>2, SubSeqProperties
<1>4. t + n - (t + 1) + 1 = n /\ \A i \in 1..n : t + 1 + i - 1 = t + i
  OBVIOUS
<1> QED  BY <1>3, <1>4

\* Arrived(c) are the bytes after the ones taken.
LEMMA ArrivedIs ==
  ASSUME NEW c \in Clients, SocketsTypeOK
  PROVE  /\ Arrived(c) \in Seq(Bytes)
         /\ Len(Arrived(c)) = Len(sent[c]) - taken[c]
         /\ Len(Arrived(c)) \in Nat
         /\ Arrived(c) = << >> <=> taken[c] = Len(sent[c])
<1>1. sent[c] \in Seq(Bytes) /\ taken[c] \in Nat /\ taken[c] <= Len(sent[c])
  BY DEF SocketsTypeOK
<1>2. Len(sent[c]) \in Nat
  BY <1>1, LenProperties
<1>3. \A i \in taken[c] + 1..Len(sent[c]) : sent[c][i] \in Bytes
  BY <1>1, <1>2, ElementOfSeq
<1>4. Arrived(c) \in Seq(Bytes) /\ Len(Arrived(c)) = Len(sent[c]) - taken[c]
  BY <1>1, <1>2, <1>3, SubSeqProperties DEF Arrived
<1> QED  BY <1>1, <1>2, <1>4, EmptySeq

\* Chunk(c) are the first of them, at most a buffer full.
LEMMA ChunkIs ==
  ASSUME NEW c \in Clients, SocketsTypeOK
  PROVE  /\ Chunk(c) \in Seq(Bytes)
         /\ Len(Chunk(c)) \in 0..BufferSize
         /\ Len(Chunk(c)) <= Len(Arrived(c))
         /\ Chunk(c) = SubSeq(sent[c], taken[c] + 1, taken[c] + Len(Chunk(c)))
         /\ Chunk(c) = << >> <=> Arrived(c) = << >>
<1> DEFINE n == Min({BufferSize, Len(Arrived(c))})
<1>1. sent[c] \in Seq(Bytes) /\ taken[c] \in Nat /\ taken[c] <= Len(sent[c])
  BY DEF SocketsTypeOK
<1>2. Len(sent[c]) \in Nat
  BY <1>1, LenProperties
<1>3. BufferSize \in Nat /\ BufferSize > 0
  BY SocketsAssumption
<1>4. n \in Nat /\ n <= BufferSize /\ n <= Len(Arrived(c))
      /\ (n = BufferSize \/ n = Len(Arrived(c)))
  <2> DEFINE T == {BufferSize, Len(Arrived(c))}
  <2>1. T \in SUBSET Nat /\ T # {}
    BY <1>3, ArrivedIs
  <2>2. Min(T) \in T /\ \A x \in T : Min(T) <= x
    <3> HIDE DEF T
    <3> QED  BY <2>1, MinIs
  <2> QED  BY <2>1, <2>2
<1> HIDE DEF n
<1>5. \A i \in 1..n : Arrived(c)[i] \in Bytes
  BY <1>4, ArrivedIs, ElementOfSeq
<1>6. Chunk(c) \in Seq(Bytes) /\ Len(Chunk(c)) = n
      /\ \A i \in 1..n : Chunk(c)[i] = Arrived(c)[i]
  <2>1. Chunk(c) = SubSeq(Arrived(c), 1, n)
    BY DEF Chunk, n
  <2> QED  BY <1>4, <1>5, <2>1, SubSeqProperties, 1 \in Int
<1>7. Chunk(c) = SubSeq(sent[c], taken[c] + 1, taken[c] + n)
  <2> DEFINE r == SubSeq(sent[c], taken[c] + 1, taken[c] + n)
             m == Len(sent[c]) - taken[c]
  <2>1. m \in Nat /\ taken[c] + m = Len(sent[c]) /\ n <= m /\ taken[c] + n <= Len(sent[c])
    BY <1>1, <1>2, <1>4, ArrivedIs
  <2>2. r \in Seq(Bytes) /\ Len(r) = n /\ \A i \in 1..n : r[i] = sent[c][taken[c] + i]
    <3> SUFFICES ASSUME NEW q \in Seq(Bytes), NEW t \in Nat, t + n <= Len(q)
                 PROVE  LET p == SubSeq(q, t + 1, t + n)
                        IN  p \in Seq(Bytes) /\ Len(p) = n /\ \A i \in 1..n : p[i] = q[t + i]
      BY <1>1, <2>1
    <3> QED  BY <1>4, PieceIs
  <2>3. \A i \in 1..m : Arrived(c)[i] = sent[c][taken[c] + i]
    BY <1>1, <2>1, PieceIs DEF Arrived
  <2> HIDE DEF r, m
  <2>4. \A i \in 1..n : Chunk(c)[i] = r[i]
    <3> SUFFICES ASSUME NEW i \in 1..n  PROVE Chunk(c)[i] = r[i]
      OBVIOUS
    <3>1. i \in 1..m
      BY <1>4, <2>1
    <3> QED  BY <1>6, <2>2, <2>3, <3>1
  <2> QED  BY <1>4, <1>6, <2>2, <2>4, SeqEqual DEF r
<1>8. Chunk(c) = << >> <=> n = 0
  BY <1>6, EmptySeq
<1>9. Arrived(c) = << >> <=> Len(Arrived(c)) = 0
  BY ArrivedIs
<1> QED  BY <1>3, <1>4, <1>6, <1>7, <1>8, <1>9, ArrivedIs

--------------------------------------------------------------------------------
\* What the steps of clients and the calls of a server do to the sockets.

\* What makes a descriptor readable, in numbers.
ReadEvents ==
  \A fd \in Fds : Readable(fd) <=>
    \/ fd = Listen /\ backlog # << >>
    \/ /\ fd # Listen /\ fds[fd] # None
       /\ taken[fds[fd]] # Len(sent[fds[fd]]) \/ fds[fd] \in hungup

LEMMA ReadableIs == SocketsTypeOK => ReadEvents
<1> SUFFICES ASSUME SocketsTypeOK, NEW fd \in Fds, fd # Listen
             PROVE  Readable(fd) <=>
                      /\ fds[fd] # None
                      /\ taken[fds[fd]] # Len(sent[fds[fd]]) \/ fds[fd] \in hungup
  BY DEF Readable, ReadEvents
<1>1. fd \in ClientFds
  BY SocketsAssumption DEF Fds, ClientFds
<1>2. fds[fd] # None => fds[fd] \in Clients
  BY <1>1 DEF SocketsTypeOK
<1> QED  BY <1>1, <1>2, ArrivedIs DEF Readable, Open

LEMMA ReadableIsNext == SocketsTypeOK' => ReadEvents'
BY ReadableIs, PTL

\* Clients connect.
LEMMA ConnectKeeps ==
  ASSUME SocketInv, NEW c \in Clients, Connect(c)
  PROVE  SocketInv' /\ \A fd \in Fds : Readable(fd) => Readable(fd)'
<1> USE DEF SocketInv
<1>1. backlog' = Append(backlog, c) /\ backlog \in Seq(Clients)
  BY DEF Connect, SocketsTypeOK
<1>2. /\ Len(backlog) \in Nat /\ backlog' \in Seq(Clients) /\ Len(backlog') = Len(backlog) + 1
      /\ \A i \in 1..Len(backlog) : backlog'[i] = backlog[i]
      /\ backlog'[Len(backlog) + 1] = c /\ backlog' # << >>
  BY <1>1, LenProperties, AppendProperties
<1>3. \A i \in 1..Len(backlog) : backlog[i] \in Clients /\ backlog[i] # c
  BY <1>1, ElementOfSeq DEF Connect, Paired
<1>4. SocketsTypeOK'
  <2>1. backlog' \in Seq(Clients) /\ Len(backlog') <= Backlog
    BY <1>2, SocketsAssumption DEF Connect
  <2>2. link' \in [Clients -> {"new", "queued", "open", "closed"}]
    BY DEF SocketsTypeOK, Connect
  <2>3. UNCHANGED <<fds, hungup, sent, taken, full, reply, echoed, killed, mangled>>
    BY DEF Connect
  <2> QED  BY <2>1, <2>2, <2>3 DEF SocketsTypeOK, Open
<1>5. Paired'
  <2>1. \A d \in Clients \ {c} : link'[d] = link[d]
    BY DEF Connect, SocketsTypeOK
  <2>2. link'[c] = "queued" /\ link[c] = "new"
    BY DEF Connect, SocketsTypeOK
  <2>3. \A fd \in ClientFds : fds[fd] # None => fds[fd] \in Clients
    BY DEF SocketsTypeOK
  <2> QED  BY <1>2, <1>3, <2>1, <2>2, <2>3 DEF Paired, Connect
<1>6. \A fd \in Fds : Readable(fd) => Readable(fd)'
  BY <1>2, <1>4, ReadableIs, ReadableIsNext DEF ReadEvents, Connect
<1> QED  BY <1>4, <1>5, <1>6

\* Clients send.
LEMMA ClientSendKeeps ==
  ASSUME SocketInv, NEW c \in Clients, NEW b \in Bytes, ClientSend(c, b)
  PROVE  SocketInv' /\ \A fd \in Fds : Readable(fd) => Readable(fd)'
<1> USE DEF SocketInv
<1>1. /\ sent[c] \in Seq(Bytes) /\ Len(sent[c]) \in Nat
      /\ Append(sent[c], b) \in Seq(Bytes) /\ Len(Append(sent[c], b)) = Len(sent[c]) + 1
  BY LenProperties, AppendProperties DEF SocketsTypeOK
<1>2. /\ sent' \in [Clients -> Seq(Bytes)] /\ sent'[c] = Append(sent[c], b)
      /\ \A d \in Clients \ {c} : sent'[d] = sent[d]
  BY <1>1 DEF ClientSend, SocketsTypeOK
<1>3. \A d \in Clients : taken[d] <= Len(sent'[d]) /\ Len(sent'[d]) >= Len(sent[d])
  <2> SUFFICES ASSUME NEW d \in Clients
               PROVE  taken[d] <= Len(sent'[d]) /\ Len(sent'[d]) >= Len(sent[d])
    OBVIOUS
  <2>1. Len(sent[d]) \in Nat /\ taken[d] \in Nat /\ taken[d] <= Len(sent[d])
    BY LenProperties DEF SocketsTypeOK
  <2> QED  BY <1>1, <1>2, <2>1
<1>4. SocketsTypeOK'
  BY <1>2, <1>3 DEF SocketsTypeOK, ClientSend, Open
<1>5. Paired'
  BY DEF Paired, ClientSend
<1>6. \A fd \in Fds : Readable(fd) => Readable(fd)'
  <2>1. \A d \in Clients : taken[d] # Len(sent[d]) => taken'[d] # Len(sent'[d])
    BY <1>1, <1>2 DEF ClientSend, SocketsTypeOK
  <2>2. \A fd \in Fds : fd # Listen /\ fds[fd] # None => fds[fd] \in Clients
    BY SocketsAssumption DEF SocketsTypeOK, Fds, ClientFds
  <2> QED  BY <1>4, <2>1, <2>2, ReadableIs, ReadableIsNext DEF ReadEvents, ClientSend
<1> QED  BY <1>4, <1>5, <1>6

\* Clients hang up, or read.
LEMMA ClientQuietKeeps ==
  ASSUME SocketInv, NEW c \in Clients, HangUp(c) \/ ClientRead(c)
  PROVE  SocketInv' /\ \A fd \in Fds : Readable(fd) => Readable(fd)'
<1> USE DEF SocketInv
<1>1. SocketsTypeOK'
  BY DEF SocketsTypeOK, HangUp, ClientRead, Open
<1>2. Paired'
  BY DEF Paired, HangUp, ClientRead
<1>3. \A fd \in Fds : Readable(fd) => Readable(fd)'
  BY <1>1, ReadableIs, ReadableIsNext DEF ReadEvents, HangUp, ClientRead
<1> QED  BY <1>1, <1>2, <1>3

\* No step of a client takes a read event away, nor touches the server.
LEMMA ClientStepKeeps ==
  ASSUME SocketInv, ClientStep
  PROVE  /\ SocketInv' /\ \A fd \in Fds : Readable(fd) => Readable(fd)'
         /\ fds' = fds /\ reply' = reply
<1>1. fds' = fds /\ reply' = reply
  BY DEF ClientStep, Connect, ClientSend, HangUp, ClientRead
<1> QED  BY <1>1, ConnectKeeps, ClientSendKeeps, ClientQuietKeeps DEF ClientStep

\* The server accepts a client: its socket is the only one that changes.
LEMMA AcceptKeeps ==
  ASSUME SocketInv, NEW fd \in ClientFds, Accept(fd)
  PROVE  /\ SocketInv'
         /\ fds[fd] = None /\ fds'[fd] # None /\ reply' = reply
         /\ \A fe \in ClientFds \ {fd} : fds'[fe] = fds[fe]
         /\ \A fe \in ClientFds : Readable(fe) => Readable(fe)'
<1> USE DEF SocketInv
<1>1. fds[fd] = None
  <2>1. FreeFds \in SUBSET Nat /\ FreeFds # {} /\ fd = Min(FreeFds)
    BY SocketsAssumption DEF Accept, FreeFds, ClientFds
  <2>2. fd \in FreeFds
    BY <2>1, MinIs
  <2> QED  BY <2>2 DEF FreeFds
<1>2. /\ Head(backlog) \in Clients /\ Tail(backlog) \in Seq(Clients)
      /\ Len(backlog) \in Nat /\ Len(backlog) > 0 /\ Len(Tail(backlog)) = Len(backlog) - 1
      /\ \A i \in 1..Len(backlog) - 1 : Tail(backlog)[i] = backlog[i + 1]
  BY HeadTailProperties, EmptySeq, LenProperties DEF Accept, SocketsTypeOK
<1>3. Head(backlog) = backlog[1] /\ \A i \in 1..Len(backlog) : backlog[i] \in Clients
  BY <1>2, ElementOfSeq DEF SocketsTypeOK
<1>4. /\ fds'[fd] = Head(backlog) /\ fds'[fd] # None
      /\ \A fe \in ClientFds \ {fd} : fds'[fe] = fds[fe]
  BY <1>2, SocketsAssumption DEF Accept, SocketsTypeOK
<1>5. SocketsTypeOK'
  <2>1. backlog' \in Seq(Clients) /\ Len(backlog') <= Backlog
    BY <1>2, SocketsAssumption DEF Accept, SocketsTypeOK
  <2>2. /\ fds' \in [ClientFds -> Clients \cup {None}]
        /\ link' \in [Clients -> {"new", "queued", "open", "closed"}]
    BY <1>2 DEF Accept, SocketsTypeOK
  <2>3. (reply # None => Open(reply.fd))'
    BY <1>4 DEF Accept, SocketsTypeOK, Open
  <2> QED  BY <2>1, <2>2, <2>3 DEF Accept, SocketsTypeOK
<1>6. Paired'
  <2>1. /\ link'[Head(backlog)] = "open" /\ link[Head(backlog)] = "queued"
        /\ \A d \in Clients \ {Head(backlog)} : link'[d] = link[d]
    BY <1>2, <1>3 DEF Accept, SocketsTypeOK, Paired
  <2>2. \A i \in 1..Len(backlog) - 1 : i + 1 \in 1..Len(backlog) /\ i + 1 # 1
    BY <1>2
  <2>3. \A i \in 1..Len(backlog') : /\ i + 1 \in 1..Len(backlog) /\ i + 1 # 1
                                    /\ backlog'[i] = backlog[i + 1]
    BY <1>2, <2>2 DEF Accept
  <2>4. \A i \in 1..Len(backlog') : backlog'[i] \in Clients \ {Head(backlog)}
    BY <1>2, <1>3, <2>3 DEF Paired
  <2>5. \A i \in 1..Len(backlog') : link'[backlog'[i]] = "queued"
    BY <2>1, <2>3, <2>4 DEF Paired
  <2>6. \A i, j \in 1..Len(backlog') : backlog'[i] = backlog'[j] => i = j
    <3> SUFFICES ASSUME NEW i \in 1..Len(backlog'), NEW j \in 1..Len(backlog'),
                        backlog'[i] = backlog'[j]
                 PROVE  i = j
      OBVIOUS
    <3>1. i + 1 = j + 1
      BY <2>3 DEF Paired
    <3> QED  BY <3>1, <2>3, <1>2
  <2>7. \A fe \in ClientFds : fds[fe] # None => fds[fe] \in Clients \ {Head(backlog)}
    BY <2>1 DEF SocketsTypeOK, Paired
  <2> QED  BY <1>4, <2>1, <2>5, <2>6, <2>7 DEF Paired
<1>7. \A fe \in ClientFds : Readable(fe) => Readable(fe)'
  <2>1. \A fe \in ClientFds : fe # Listen /\ fe \in Fds
    BY SocketsAssumption DEF ClientFds, Fds
  <2> QED  BY <1>1, <1>4, <1>5, <2>1, ReadableIs, ReadableIsNext DEF ReadEvents, Accept
<1> QED  BY <1>1, <1>4, <1>5, <1>6, <1>7 DEF Accept

\* The server closes a socket: no other changes.
LEMMA DisconnectKeeps ==
  ASSUME SocketInv, NEW fd \in ClientFds, Disconnect(fd)
  PROVE  /\ SocketInv'
         /\ fds[fd] # None /\ fds'[fd] = None /\ reply = None /\ reply' = None
         /\ \A fe \in ClientFds \ {fd} : fds'[fe] = fds[fe]
         /\ \A fe \in Fds \ {fd} : Readable(fe) => Readable(fe)'
<1> USE DEF SocketInv
<1>1. fds[fd] \in Clients /\ fds[fd] # None
  BY SocketsAssumption DEF Disconnect, SocketsTypeOK
<1>2. fds'[fd] = None /\ \A fe \in ClientFds \ {fd} : fds'[fe] = fds[fe]
  BY DEF Disconnect, SocketsTypeOK
<1>3. SocketsTypeOK'
  BY <1>1 DEF Disconnect, SocketsTypeOK
<1>4. Paired'
  <2>1. \A i \in 1..Len(backlog) : backlog[i] \in Clients
    BY ElementOfSeq DEF SocketsTypeOK
  <2>2. \A d \in Clients \ {fds[fd]} : link'[d] = link[d]
    BY DEF Disconnect, SocketsTypeOK
  <2>3. \A i \in 1..Len(backlog) : backlog[i] # fds[fd]
    BY <1>1 DEF Paired
  <2>4. \A fe \in ClientFds : fds[fe] # None => fds[fe] \in Clients
    BY DEF SocketsTypeOK
  <2>5. backlog' = backlog
    BY DEF Disconnect
  <2> QED  BY <1>1, <1>2, <2>1, <2>2, <2>3, <2>4, <2>5 DEF Paired
<1>5. \A fe \in Fds \ {fd} : Readable(fe) => Readable(fe)'
  <2>1. \A fe \in Fds : fe # Listen => fe \in ClientFds
    BY SocketsAssumption DEF ClientFds, Fds
  <2> QED  BY <1>2, <1>3, <2>1, ReadableIs, ReadableIsNext DEF ReadEvents, Disconnect
<1> QED  BY <1>1, <1>2, <1>3, <1>4, <1>5 DEF Disconnect

\* What strlen() finds consists of bytes of the chunk, and of one from beyond the
\* buffer at most.
LEMMA TextsAre ==
  ASSUME NEW chunk \in Seq(Bytes)
  PROVE  Texts(chunk) \subseteq Seq(Bytes \cup {Junk})
<1> DEFINE nuls == {i \in 1..Len(chunk) : chunk[i] = Nul}
<1>1. Text(chunk) \in Seq(Bytes)
  <2>1. CASE nuls = {}
    BY <2>1 DEF Text
  <2>2. CASE nuls # {}
    <3>1. nuls \in SUBSET Nat
      OBVIOUS
    <3>2. Min(nuls) \in nuls
      <4> HIDE DEF nuls
      <4> QED  BY <2>2, <3>1, MinIs
    <3>3. Min(nuls) - 1 \in Int /\ 1 \in Int /\ \A i \in 1..Min(nuls) - 1 : i \in 1..Len(chunk)
      <4>1. Len(chunk) \in Nat /\ Min(nuls) \in 1..Len(chunk)
        BY <3>2, LenProperties
      <4> HIDE DEF nuls
      <4> QED  BY <4>1
    <3>4. \A i \in 1..Min(nuls) - 1 : chunk[i] \in Bytes
      BY <3>3, ElementOfSeq
    <3>5. SubSeq(chunk, 1, Min(nuls) - 1) \in Seq(Bytes)
      <4> HIDE DEF nuls
      <4> QED  BY <3>3, <3>4, SubSeqProperties
    <3> QED  BY <2>2, <3>5 DEF Text
  <2> QED  BY <2>1, <2>2
<1>2. chunk \in Seq(Bytes \cup {Junk}) /\ Text(chunk) \in Seq(Bytes \cup {Junk})
  BY <1>1, SeqMonotonic
<1>3. Append(chunk, Junk) \in Seq(Bytes \cup {Junk})
  BY <1>2, AppendProperties
<1> QED  BY <1>2, <1>3 DEF Texts

\* The server receives: fewer bytes are waiting at this one socket.
LEMMA ReceiveKeeps ==
  ASSUME SocketInv, NEW fd \in ClientFds, fds[fd] # None, Receive(fd)
  PROVE  /\ SocketInv'
         /\ fds' = fds /\ reply = None /\ reply' # None /\ reply'.fd = fd
         /\ \A fe \in Fds \ {fd} : Readable(fe) => Readable(fe)'
<1> USE DEF SocketInv
<1> DEFINE c == fds[fd]
<1>1. c \in Clients
  BY DEF SocketsTypeOK
<1>2. /\ taken[c] \in Nat /\ Len(Chunk(c)) \in Nat /\ Len(sent[c]) \in Nat
      /\ taken[c] + Len(Chunk(c)) <= Len(sent[c])
  <2>1. sent[c] \in Seq(Bytes) /\ taken[c] \in Nat
    BY <1>1 DEF SocketsTypeOK
  <2> HIDE DEF c
  <2>2. /\ Len(Chunk(c)) \in Nat /\ Len(Chunk(c)) <= Len(Arrived(c))
        /\ Len(Arrived(c)) = Len(sent[c]) - taken[c]
    BY <1>1, ChunkIs, ArrivedIs, SocketsAssumption
  <2> QED  BY <2>1, <2>2, LenProperties
<1>3. /\ taken' \in [Clients -> Nat] /\ taken'[c] = taken[c] + Len(Chunk(c))
      /\ \A d \in Clients \ {c} : taken'[d] = taken[d]
  BY <1>1, <1>2 DEF Receive, SocketsTypeOK
<1>4. reply' \in Replies /\ reply'.fd = fd /\ reply' # None
  <2>1. Chunk(c) \in Seq(Bytes)
    BY <1>1, ChunkIs
  <2>2. PICK text \in Seq(Bytes \cup {Junk}) : reply' = [fd |-> fd, text |-> text]
    BY <2>1, TextsAre DEF Receive
  <2> QED  BY <2>2, SocketsAssumption DEF Replies
<1>5. SocketsTypeOK'
  <2>1. \A d \in Clients : taken'[d] <= Len(sent[d])
    BY <1>2, <1>3 DEF SocketsTypeOK
  <2> QED  BY <1>3, <1>4, <2>1 DEF Receive, SocketsTypeOK, Open
<1>6. Paired'
  BY DEF Paired, Receive
<1>7. \A fe \in Fds \ {fd} : Readable(fe) => Readable(fe)'
  <2>1. \A fe \in Fds : fe # Listen => fe \in ClientFds
    BY SocketsAssumption DEF ClientFds, Fds
  <2>2. \A fe \in ClientFds \ {fd} : fds[fe] # None => fds[fe] \in Clients \ {c}
    BY DEF Paired, SocketsTypeOK
  <2> QED  BY <1>3, <1>5, <2>1, <2>2, ReadableIs, ReadableIsNext DEF ReadEvents, Receive
<1> QED  BY <1>4, <1>5, <1>6, <1>7 DEF Receive

\* The server sends.
LEMMA ReplyKeeps ==
  ASSUME SocketInv, Reply
  PROVE  /\ SocketInv'
         /\ fds' = fds /\ reply # None /\ reply' = None
         /\ \A fe \in Fds : Readable(fe) => Readable(fe)'
<1> USE DEF SocketInv
<1>1. reply \in Replies /\ reply.fd \in ClientFds /\ fds[reply.fd] \in Clients
  BY DEF Reply, SocketsTypeOK, Open, Replies
<1>2. echoed' \in [Clients -> Seq(Bytes \cup {Junk})]
  <2>1. \A c \in Clients : echoed[c] \o reply.text \in Seq(Bytes \cup {Junk})
    BY <1>1, ConcatProperties DEF SocketsTypeOK, Replies
  <2> QED  BY <1>1, <2>1 DEF Reply, SocketsTypeOK
<1>3. full' \subseteq Clients \ hungup
  BY <1>1 DEF Reply, SocketsTypeOK
<1>4. SocketsTypeOK'
  BY <1>2, <1>3 DEF Reply, SocketsTypeOK
<1>5. Paired'
  BY DEF Paired, Reply
<1>6. \A fe \in Fds : Readable(fe) => Readable(fe)'
  BY <1>4, ReadableIs, ReadableIsNext DEF ReadEvents, Reply
<1> QED  BY <1>4, <1>5, <1>6 DEF Reply

\* A fatal send() or a failed accept(): the sockets stay as they are.
LEMMA UnchangedKeeps ==
  ASSUME SocketInv, SigPipe \/ UNCHANGED socketVars
  PROVE  /\ SocketInv'
         /\ fds' = fds /\ reply' = reply
         /\ \A fe \in Fds : Readable(fe) => Readable(fe)'
<1> USE DEF SocketInv, SigPipe, socketVars
<1>1. SocketsTypeOK'
  BY DEF SocketsTypeOK, Open
<1>2. Paired'
  BY DEF Paired
<1>3. \A fe \in Fds : Readable(fe) => Readable(fe)'
  BY <1>1, ReadableIs, ReadableIsNext DEF ReadEvents
<1> QED  BY <1>1, <1>2, <1>3

LEMMA SocketInvInit == SocketsInit => SocketInv
<1> SUFFICES ASSUME SocketsInit  PROVE SocketInv
  OBVIOUS
<1> USE SocketsAssumption DEF SocketsInit
<1>1. /\ << >> \in Seq(Clients) /\ << >> \in Seq(Bytes) /\ << >> \in Seq(Bytes \cup {Junk})
      /\ Len(<< >>) = 0
  BY EmptySeq
<1>2. /\ backlog \in Seq(Clients) /\ Len(backlog) <= Backlog
      /\ sent \in [Clients -> Seq(Bytes)] /\ taken \in [Clients -> Nat]
      /\ echoed \in [Clients -> Seq(Bytes \cup {Junk})]
  BY <1>1
<1>3. \A c \in Clients : taken[c] <= Len(sent[c])
  BY <1>1
<1>4. SocketsTypeOK
  BY <1>2, <1>3 DEF SocketsTypeOK
<1>5. Paired
  BY <1>1 DEF Paired
<1> QED  BY <1>4, <1>5 DEF SocketInv

--------------------------------------------------------------------------------
\* The select server.

\* The scan goes on to the next descriptor, or ends.
LEMMA AdvanceIs ==
  ASSUME eventfd \in Fds, NEW newMax \in Fds, Advance(newMax)
  PROVE  eventfd' = None \/ (eventfd' \in Fds \ {Listen} /\ eventfd' = eventfd + 1)
<1>1. /\ Listen \in Int /\ LastFd \in Int /\ eventfd \in Int /\ newMax \in Int
      /\ Listen <= eventfd /\ newMax <= LastFd
  BY SocketsAssumption DEF Fds
<1>2. eventfd + 1 <= newMax => eventfd + 1 \in Listen..LastFd /\ eventfd + 1 # Listen
  BY <1>1
<1> QED  BY <1>2 DEF Advance, Fds

\* So what the scan has yet to come to after that, it had to before, and it is not
\* where it was.
LEMMA AheadAfter ==
  ASSUME eventfd \in Fds, NEW newMax \in Fds, Advance(newMax), NEW fd \in Fds, Ahead(fd)'
  PROVE  Ahead(fd) /\ fd # eventfd /\ fd # Listen
<1>1. eventfd # None /\ eventfd \in Nat /\ fd \in Nat /\ Listen \in Nat /\ eventfd >= Listen
  BY SocketsAssumption DEF Fds
<1>2. eventfd' # None /\ eventfd' = eventfd + 1 /\ eventfd' <= fd
  BY <1>1, AdvanceIs DEF Ahead
<1> QED  BY <1>1, <1>2 DEF Ahead

\* Descriptors of clients, and the listening one.
LEMMA FdsAre ==
  /\ Listen \in Fds /\ Listen \notin ClientFds /\ Fds = {Listen} \cup ClientFds
  /\ None \notin Fds /\ Fds \in SUBSET (0..LastFd) /\ LastFd \in Nat
BY SocketsAssumption DEF Fds, ClientFds

\* The larger of two descriptors.
LEMMA MaxOfTwo ==
  ASSUME NEW m \in Fds, NEW n \in Fds
  PROVE  /\ Max({m, n}) \in {m, n} /\ m <= Max({m, n}) /\ n <= Max({m, n})
<1> DEFINE S == {m, n}
<1>1. LastFd \in Nat /\ S \in SUBSET (0..LastFd) /\ S # {}
  BY FdsAre
<1>2. Max(S) \in S /\ \A x \in S : x <= Max(S)
  <2> HIDE DEF S
  <2> QED  BY <1>1, MaxIs
<1> QED  BY <1>2

\* The largest descriptor of a set without another one.
LEMMA MaxOfRest ==
  ASSUME NEW S \in SUBSET Fds, NEW m \in S, \A fd \in S : fd <= m, NEW fe \in Fds, S \ {fe} # {}
  PROVE  LET n == IF fe = m THEN Max(S \ {fe}) ELSE m
         IN  n \in S \ {fe} /\ \A fd \in S \ {fe} : fd <= n
<1> DEFINE R == S \ {fe}
<1>1. LastFd \in Nat /\ R \in SUBSET (0..LastFd) /\ R # {}
  BY FdsAre
<1>2. Max(R) \in R /\ \A x \in R : x <= Max(R)
  <2> HIDE DEF R
  <2> QED  BY <1>1, MaxIs
<1> QED  BY <1>2

LEMMA SelectInvInit == Init => SelectInv
<1> SUFFICES ASSUME Init  PROVE SelectInv
  OBVIOUS
<1>1. SocketInv /\ reply = None /\ \A fd \in ClientFds : fds[fd] = None
  BY SocketInvInit DEF Init, SocketsInit
<1> QED  BY <1>1, FdsAre DEF Init, SelectInv, Open, Ahead

LEMMA SelectInvNext == SelectInv /\ [Next]_vars => SelectInv'
<1> SUFFICES ASSUME SelectInv, [Next]_vars  PROVE SelectInv'
  OBVIOUS
<1> USE FdsAre
<1>0. /\ SocketInv /\ eventfd \in Fds \cup {None} /\ tmpfds \subseteq Fds
      /\ readfds \subseteq Fds /\ maxfd \in Fds
      /\ \A fd \in Fds : Open(fd) <=> fd \in ClientFds /\ fds[fd] # None
  BY DEF SelectInv, Open
<1>1. CASE Select
  <2>1. SocketInv' /\ fds' = fds /\ reply' = reply
        /\ \A fd \in Fds : Readable(fd) => Readable(fd)'
    BY <1>0, <1>1, UnchangedKeeps DEF Select
  <2>2. tmpfds' \subseteq Fds /\ \A fd \in tmpfds' : Readable(fd)'
    BY <1>0, <1>1, <2>1 DEF Select
  <2>3. reply = None
    BY <1>0, <1>1 DEF Select, SelectInv
  <2> QED  BY <1>0, <1>1, <2>1, <2>2, <2>3 DEF Select, SelectInv, Open
<1>2. CASE SkipFd
  <2>1. SocketInv' /\ fds' = fds /\ reply' = reply
        /\ \A fd \in Fds : Readable(fd) => Readable(fd)'
    BY <1>0, <1>2, UnchangedKeeps DEF SkipFd
  <2>2. eventfd \in Fds /\ Advance(maxfd)
    BY <1>2 DEF SkipFd
  <2>3. \A fd \in tmpfds' : Ahead(fd)' => Readable(fd)'
    BY <1>0, <1>2, <2>1, <2>2, AheadAfter DEF SkipFd, SelectInv
  <2>4. reply = None
    BY <1>2, <2>2 DEF SkipFd, SelectInv
  <2> QED  BY <1>0, <1>2, <2>1, <2>2, <2>3, <2>4, AdvanceIs DEF SkipFd, SelectInv, Open
<1>3. CASE AcceptClient
  <2>1. eventfd = Listen /\ reply = None /\ Advance(maxfd') /\ tmpfds' = tmpfds
    BY <1>3 DEF AcceptClient, SelectInv
  <2>2. CASE \E fd \in ClientFds : /\ Accept(fd)
                                   /\ readfds' = readfds \cup {fd}
                                   /\ maxfd' = Max({maxfd, fd})
    <3>1. PICK fd \in ClientFds : /\ Accept(fd)
                                   /\ readfds' = readfds \cup {fd}
                                   /\ maxfd' = Max({maxfd, fd})
      BY <2>2
    <3>2. /\ SocketInv' /\ fds[fd] = None /\ fds'[fd] # None /\ reply' = reply
          /\ \A fe \in ClientFds \ {fd} : fds'[fe] = fds[fe]
          /\ \A fe \in ClientFds : Readable(fe) => Readable(fe)'
      BY <1>0, <3>1, AcceptKeeps
    <3>3. maxfd' \in {maxfd, fd} /\ maxfd <= maxfd' /\ fd <= maxfd'
      BY <1>0, <3>1, MaxOfTwo
    <3>4. maxfd' \in readfds' /\ maxfd' \in Fds /\ \A fe \in readfds' : fe <= maxfd'
      <4>1. \A fe \in Fds : fe \in Int
        BY SocketsAssumption DEF Fds
      <4> QED  BY <1>0, <3>1, <3>3, <4>1 DEF SelectInv
    <3>5. readfds' = {Listen} \cup {fe \in ClientFds : Open(fe)'}
      BY <1>0, <3>1, <3>2 DEF SelectInv, Open
    <3>6. \A fe \in tmpfds' : Ahead(fe)' => Readable(fe)'
      BY <1>0, <2>1, <3>2, <3>4, AheadAfter DEF SelectInv
    <3> QED  BY <1>0, <2>1, <3>2, <3>4, <3>5, <3>6, AdvanceIs DEF SelectInv
  <2>3. CASE AcceptFails /\ UNCHANGED <<socketVars, readfds, maxfd>>
    <3>1. SocketInv' /\ fds' = fds /\ reply' = reply
          /\ \A fd \in Fds : Readable(fd) => Readable(fd)'
      BY <1>0, <2>3, UnchangedKeeps
    <3>2. \A fd \in tmpfds' : Ahead(fd)' => Readable(fd)'
      BY <1>0, <2>1, <2>3, <3>1, AheadAfter DEF SelectInv
    <3> QED  BY <1>0, <2>1, <2>3, <3>1, <3>2, AdvanceIs DEF SelectInv, Open
  <2> QED  BY <1>3, <2>2, <2>3 DEF AcceptClient
<1>4. CASE ReceiveFrom
  <2>1. eventfd \in ClientFds /\ eventfd \in tmpfds /\ UNCHANGED serverVars /\ reply = None
    BY <1>0, <1>4 DEF ReceiveFrom, Receive
  <2>2. fds[eventfd] # None
    BY <1>0, <2>1 DEF SelectInv, Ahead, Readable, Open
  <2>3. /\ SocketInv' /\ fds' = fds /\ reply' # None /\ reply'.fd = eventfd
        /\ \A fe \in Fds \ {eventfd} : Readable(fe) => Readable(fe)'
    BY <1>0, <1>4, <2>1, <2>2, ReceiveKeeps DEF ReceiveFrom
  <2>4. \A fe \in tmpfds' : Ahead(fe)' => Readable(fe)'
    <3> SUFFICES ASSUME NEW fe \in tmpfds', Ahead(fe)'  PROVE Readable(fe)'
      OBVIOUS
    <3>1. fe \in tmpfds /\ eventfd < fe
      BY <2>1, <2>3 DEF Ahead, serverVars
    <3>2. fe # eventfd /\ fe \in Fds
      BY <1>0, <3>1, SocketsAssumption DEF Fds
    <3> QED  BY <2>1, <2>3, <3>1, <3>2 DEF SelectInv, Ahead
  <2> QED  BY <1>0, <2>1, <2>3, <2>4 DEF SelectInv, serverVars, Open
<1>5. CASE SendBack
  <2>1. eventfd \in Fds /\ Advance(maxfd) /\ UNCHANGED <<readfds, tmpfds, maxfd>>
    BY <1>0, <1>5 DEF SendBack, Reply, SelectInv
  <2>2. /\ SocketInv' /\ fds' = fds /\ reply' = None
        /\ \A fe \in Fds : Readable(fe) => Readable(fe)'
    BY <1>0, <1>5, ReplyKeeps DEF SendBack
  <2>3. \A fe \in tmpfds' : Ahead(fe)' => Readable(fe)'
    BY <1>0, <2>1, <2>2, AheadAfter DEF SelectInv
  <2> QED  BY <1>0, <2>1, <2>2, <2>3, AdvanceIs DEF SelectInv, Open
<1>6. CASE DropClient
  <2>1. /\ eventfd \in ClientFds /\ Disconnect(eventfd) /\ Advance(maxfd') /\ tmpfds' = tmpfds
        /\ readfds' = readfds \ {eventfd}
        /\ maxfd' = IF eventfd = maxfd THEN Max(readfds \ {eventfd}) ELSE maxfd
    BY <1>0, <1>6 DEF DropClient
  <2>2. /\ SocketInv' /\ fds'[eventfd] = None /\ reply' = None
        /\ \A fe \in ClientFds \ {eventfd} : fds'[fe] = fds[fe]
        /\ \A fe \in Fds \ {eventfd} : Readable(fe) => Readable(fe)'
    BY <1>0, <2>1, DisconnectKeeps
  <2>3. maxfd' \in readfds' /\ maxfd' \in Fds /\ \A fe \in readfds' : fe <= maxfd'
    <3>1. Listen \in readfds \ {eventfd}
      BY <2>1 DEF SelectInv
    <3>2. /\ readfds \in SUBSET Fds /\ maxfd \in readfds /\ \A fd \in readfds : fd <= maxfd
          /\ eventfd \in Fds /\ readfds \ {eventfd} # {}
      BY <1>0, <2>1, <3>1 DEF SelectInv
    <3>3. maxfd' \in readfds \ {eventfd} /\ \A fe \in readfds \ {eventfd} : fe <= maxfd'
      BY <2>1, <3>2, MaxOfRest
    <3> QED  BY <2>1, <3>2, <3>3
  <2>4. readfds' = {Listen} \cup {fe \in ClientFds : Open(fe)'}
    BY <1>0, <2>1, <2>2 DEF SelectInv, Open
  <2>5. \A fe \in tmpfds' : Ahead(fe)' => Readable(fe)'
    BY <1>0, <2>1, <2>2, <2>3, AheadAfter DEF SelectInv
  <2> QED  BY <1>0, <2>1, <2>2, <2>3, <2>4, <2>5, AdvanceIs DEF SelectInv
<1>7. CASE (SigPipe \/ UNCHANGED socketVars \/ ClientStep) /\ UNCHANGED serverVars
  <2>1. SocketInv' /\ fds' = fds /\ reply' = reply
        /\ \A fd \in Fds : Readable(fd) => Readable(fd)'
    BY <1>0, <1>7, UnchangedKeeps, ClientStepKeeps
  <2>2. UNCHANGED <<readfds, tmpfds, maxfd, eventfd>>
    BY <1>7 DEF serverVars
  <2> QED  BY <1>0, <2>1, <2>2 DEF SelectInv, Open, Ahead
<1> QED  BY <1>1, <1>2, <1>3, <1>4, <1>5, <1>6, <1>7 DEF Next, ServerStep, vars

\* What the select server's scan relies on holds in every behaviour.
THEOREM SelectInvariance == Spec => []SelectInv
BY SelectInvInit, SelectInvNext, PTL DEF Spec

(***************************************************************************)
(* Variables keep their types, and no more is received than was sent.      *)
(***************************************************************************)
THEOREM SelectTypeCorrect == Spec => []TypeOK
<1>1. SelectInv => TypeOK
  BY FdsAre DEF SelectInv, SocketInv, TypeOK
<1> QED  BY <1>1, SelectInvariance, PTL

(***************************************************************************)
(* readfds and maxfd of tcpselect.cpp, kept by hand, agree with the sockets*)
(* that are open, however clients come and go.                             *)
(***************************************************************************)
THEOREM SelectWatches == Spec => []WatchesOpenSockets
<1>1. SelectInv => WatchesOpenSockets
  <2> SUFFICES ASSUME SelectInv  PROVE WatchesOpenSockets
    OBVIOUS
  <2>1. LastFd \in Nat /\ readfds \in SUBSET (0..LastFd)
    BY FdsAre DEF SelectInv
  <2> QED  BY <2>1, MaxUnique DEF SelectInv, WatchesOpenSockets
<1> QED  BY <1>1, SelectInvariance, PTL

(***************************************************************************)
(* The one process of tcpselect.cpp never calls a recv() that blocks.      *)
(***************************************************************************)
THEOREM SelectNeverBlocks == Spec => []NeverBlocksInRecv
<1>1. SelectInv => NeverBlocksInRecv
  BY FdsAre DEF SelectInv, NeverBlocksInRecv, Ahead
<1> QED  BY <1>1, SelectInvariance, PTL

--------------------------------------------------------------------------------
\* The echo.

\* What a server and its clients do to the sockets in one step.
SocketStep ==
  \/ ClientStep \/ Reply \/ SigPipe \/ UNCHANGED socketVars
  \/ \E fd \in ClientFds : Accept(fd) \/ Disconnect(fd) \/ (fds[fd] # None /\ Receive(fd))

\* Steps that neither move bytes nor change whom the reply is for.
LEMMA EchoQuiet ==
  ASSUME SocketInv, EchoInv, UNCHANGED <<sent, taken, echoed, reply, mangled>>,
         reply # None => fds'[reply.fd] = fds[reply.fd]
  PROVE  EchoInv'
BY DEF EchoInv, EchoIsExact, SentBack, Replying

\* A client that sends does not touch what was taken, and keeps to the window.
LEMMA EchoClientSend ==
  ASSUME SocketInv, EchoInv, NEW c \in Clients, NEW b \in Bytes, ClientSend(c, b)
  PROVE  EchoInv'
<1>1. /\ sent[c] \in Seq(Bytes) /\ Len(sent[c]) \in Nat /\ taken[c] \in Nat
      /\ taken[c] <= Len(sent[c]) /\ Len(Append(sent[c], b)) = Len(sent[c]) + 1
  BY LenProperties, AppendProperties DEF SocketInv, SocketsTypeOK
<1>2. sent'[c] = Append(sent[c], b) /\ \A d \in Clients \ {c} : sent'[d] = sent[d]
  BY DEF ClientSend, SocketInv, SocketsTypeOK
<1>3. SubSeq(Append(sent[c], b), 1, taken[c]) = SubSeq(sent[c], 1, taken[c])
  BY <1>1, PrefixStays
<1>4. \A d \in Clients : Replying(d)' = Replying(d)
  BY DEF Replying, ClientSend
<1>5. Len(sent[c]) + 1 - taken[c] <= Window
  BY <1>1, SocketsAssumption DEF ClientSend
<1>6. taken' = taken /\ echoed' = echoed
  BY DEF ClientSend
<1>7. \A d \in Clients : Len(sent'[d]) - taken'[d] <= Window
  <2> SUFFICES ASSUME NEW d \in Clients  PROVE Len(sent'[d]) - taken'[d] <= Window
    OBVIOUS
  <2>1. CASE d = c
    BY <1>1, <1>2, <1>5, <1>6, <2>1
  <2>2. CASE d # c
    BY <1>2, <1>6, <2>2 DEF EchoInv
  <2> QED  BY <2>1, <2>2
<1>8. \A d \in Clients : SentBack(d) => SentBack(d)'
  BY <1>2, <1>3, <1>4, <1>6 DEF SentBack
<1>9. mangled' = mangled
  BY DEF ClientSend
<1> QED  BY <1>7, <1>8, <1>9 DEF EchoInv, EchoIsExact

\* strlen() finds all of a chunk without NUL that does not fill the buffer.
LEMMA TextIsAll ==
  ASSUME NEW chunk \in Seq(Bytes), IsPlain(chunk)
  PROVE  Texts(chunk) = {chunk}
<1>1. Text(chunk) = chunk
  BY DEF IsPlain, Text
<1>2. Len(chunk) # BufferSize
  BY LenProperties, SocketsAssumption DEF IsPlain
<1> QED  BY <1>1, <1>2 DEF Texts

\* Plain text comes in such chunks.
LEMMA PlainChunks ==
  ASSUME PlainText, NEW chunk \in Seq(Bytes), Len(chunk) <= Window
  PROVE  IsPlain(chunk)
<1>1. \A i \in 1..Len(chunk) : chunk[i] # Nul
  BY ElementOfSeq DEF PlainText
<1>2. Len(chunk) < BufferSize
  BY LenProperties, SocketsAssumption DEF PlainText
<1> QED  BY <1>1, <1>2 DEF IsPlain

\* What is received is on its way back, or its client is among the mangled.
LEMMA EchoReceive ==
  ASSUME SocketInv, EchoInv, NEW fd \in ClientFds, fds[fd] # None, Receive(fd)
  PROVE  EchoInv'
<1>1. PICK c \in Clients : c = fds[fd]
  BY DEF SocketInv, SocketsTypeOK
<1>2. SocketsTypeOK
  BY DEF SocketInv
<1> DEFINE k == Len(Chunk(c))
<1>3. /\ sent[c] \in Seq(Bytes) /\ Len(sent[c]) \in Nat /\ taken[c] \in Nat
      /\ echoed[c] \in Seq(Bytes \cup {Junk})
  BY <1>2, LenProperties DEF SocketsTypeOK
<1>4. /\ Chunk(c) \in Seq(Bytes) /\ k \in Nat
      /\ Chunk(c) = SubSeq(sent[c], taken[c] + 1, taken[c] + k)
      /\ k <= Len(sent[c]) - taken[c]
  BY <1>2, <1>3, ChunkIs, ArrivedIs, SocketsAssumption
<1>5. /\ reply = None /\ reply' # None /\ reply'.fd = fd
      /\ fds' = fds /\ sent' = sent /\ echoed' = echoed
      /\ mangled' = IF IsPlain(Chunk(c)) THEN mangled ELSE mangled \cup {c}
  BY <1>1, ReceiveKeeps DEF Receive
<1>6. taken'[c] = taken[c] + k /\ \A d \in Clients \ {c} : taken'[d] = taken[d]
  BY <1>2, <1>1 DEF Receive, SocketsTypeOK
<1>7. \A d \in Clients : Replying(d) = << >>
  BY <1>5 DEF Replying
<1>8. \A d \in Clients \ {c} : Replying(d)' = << >>
  BY <1>1, <1>5 DEF Replying
<1>9. \A d \in Clients \ {c} : SentBack(d) => SentBack(d)'
  BY <1>5, <1>6, <1>7, <1>8 DEF SentBack
<1>10. ASSUME IsPlain(Chunk(c)), SentBack(c)  PROVE SentBack(c)'
  <2>1. Replying(c)' = Chunk(c)
    <3>1. Texts(Chunk(c)) = {Chunk(c)}
      BY <1>4, <1>10, TextIsAll
    <3>2. reply' = [fd |-> fd, text |-> Chunk(c)]
      BY <1>1, <3>1 DEF Receive
    <3> QED  BY <1>1, <1>5, <3>2 DEF Replying
  <2>2. echoed[c] = SubSeq(sent[c], 1, taken[c])
    <3>1. echoed[c] \o << >> = echoed[c]
      BY <1>3, ConcatEmptySeq
    <3> QED  BY <1>7, <1>10, <3>1 DEF SentBack
  <2>3. echoed[c] \o Chunk(c) = SubSeq(sent[c], 1, taken[c] + k)
    <3> HIDE DEF k
    <3>1. taken[c] + k <= Len(sent[c])
      <4> SUFFICES ASSUME NEW t \in Nat, NEW l \in Nat, k <= l - t  PROVE t + k <= l
        BY <1>3, <1>4
      <4> QED  BY <1>4
    <3> QED  BY <1>3, <1>4, <2>2, <3>1, PrefixGrows
  <2> QED  BY <1>5, <1>6, <2>1, <2>3 DEF SentBack
<1>11. \A d \in Clients : Len(sent'[d]) - taken'[d] <= Window
  <2>1. Len(sent[c]) - (taken[c] + k) <= Window
    BY <1>3, <1>4, SocketsAssumption DEF EchoInv
  <2> QED  BY <1>5, <1>6, <2>1 DEF EchoInv
<1>12. EchoIsExact'
  <2> SUFFICES ASSUME NEW d \in Clients, d \notin mangled'  PROVE SentBack(d)'
    BY DEF EchoIsExact
  <2>1. d \notin mangled /\ (d = c => IsPlain(Chunk(c)))
    BY <1>5
  <2>2. SentBack(d)
    BY <2>1 DEF EchoInv, EchoIsExact
  <2> QED  BY <1>9, <1>10, <2>1, <2>2
<1>13. PlainText => mangled' = {}
  <2> SUFFICES ASSUME PlainText  PROVE mangled' = {}
    OBVIOUS
  <2>1. k <= Window
    BY <1>3, <1>4, SocketsAssumption DEF EchoInv
  <2>2. IsPlain(Chunk(c))
    BY <1>4, <2>1, PlainChunks
  <2> QED  BY <1>5, <2>2 DEF EchoInv
<1> QED  BY <1>11, <1>12, <1>13 DEF EchoInv

\* What was on its way arrives.
LEMMA EchoReply ==
  ASSUME SocketInv, EchoInv, Reply
  PROVE  EchoInv'
<1>1. /\ reply \in Replies /\ reply.text \in Seq(Bytes \cup {Junk})
      /\ fds[reply.fd] \in Clients
  BY DEF Reply, SocketInv, SocketsTypeOK, Open, Replies
<1> DEFINE c == fds[reply.fd]
<1>2. echoed'[c] = echoed[c] \o reply.text /\ \A d \in Clients \ {c} : echoed'[d] = echoed[d]
  BY <1>1 DEF Reply, SocketInv, SocketsTypeOK
<1>3. Replying(c) = reply.text /\ \A d \in Clients \ {c} : Replying(d) = << >>
  BY DEF Replying, Reply
<1>4. /\ \A d \in Clients : Replying(d)' = << >>
      /\ sent' = sent /\ taken' = taken
  BY DEF Replying, Reply
<1>5. (echoed[c] \o reply.text) \o << >> = echoed[c] \o reply.text
  <2>1. echoed[c] \o reply.text \in Seq(Bytes \cup {Junk})
    BY <1>1, ConcatProperties DEF SocketInv, SocketsTypeOK
  <2> QED  BY <2>1, ConcatEmptySeq
<1>6. \A d \in Clients : SentBack(d) => SentBack(d)'
  BY <1>1, <1>2, <1>3, <1>4, <1>5 DEF SentBack
<1>7. mangled' = mangled
  BY DEF Reply
<1> QED  BY <1>4, <1>6, <1>7 DEF EchoInv, EchoIsExact

LEMMA EchoStep == SocketInv /\ EchoInv /\ SocketStep => EchoInv'
<1> SUFFICES ASSUME SocketInv, EchoInv, SocketStep  PROVE EchoInv'
  OBVIOUS
<1>1. CASE ClientStep
  <2>1. CASE \E c \in Clients, b \in Bytes : ClientSend(c, b)
    BY <2>1, EchoClientSend
  <2>2. CASE \E c \in Clients : Connect(c) \/ HangUp(c) \/ ClientRead(c)
    BY <2>2, EchoQuiet DEF Connect, HangUp, ClientRead
  <2> QED  BY <1>1, <2>1, <2>2 DEF ClientStep
<1>2. CASE Reply
  BY <1>2, EchoReply
<1>3. CASE SigPipe \/ UNCHANGED socketVars
  BY <1>3, EchoQuiet DEF SigPipe, socketVars
<1>4. CASE \E fd \in ClientFds : fds[fd] # None /\ Receive(fd)
  BY <1>4, EchoReceive
<1>5. ASSUME NEW fd \in ClientFds, Accept(fd)  PROVE EchoInv'
  <2>1. reply # None => reply.fd \in ClientFds /\ fds[reply.fd] # None
    BY DEF SocketInv, SocketsTypeOK, Open
  <2>2. reply # None => fds'[reply.fd] = fds[reply.fd]
    BY <1>5, <2>1, AcceptKeeps
  <2> QED  BY <1>5, <2>2, EchoQuiet DEF Accept
<1>6. ASSUME NEW fd \in ClientFds, Disconnect(fd)  PROVE EchoInv'
  BY <1>6, EchoQuiet DEF Disconnect
<1> QED  BY <1>1, <1>2, <1>3, <1>4, <1>5, <1>6 DEF SocketStep

LEMMA EchoInit == SocketsInit => EchoInv
<1> SUFFICES ASSUME SocketsInit  PROVE EchoInv
  OBVIOUS
<1>1. \A c \in Clients : /\ sent[c] = << >> /\ taken[c] = 0 /\ echoed[c] = << >>
                         /\ Replying(c) = << >>
  BY DEF SocketsInit, Replying
<1>2. << >> \o << >> = << >> /\ SubSeq(<< >>, 1, 0) = << >> /\ Len(<< >>) = 0
  BY SubSeqEmpty, ConcatEmptySeq, EmptySeq
<1>3. \A c \in Clients : Len(sent[c]) - taken[c] <= Window
  BY <1>1, <1>2, SocketsAssumption
<1>4. EchoIsExact
  BY <1>1, <1>2 DEF EchoIsExact, SentBack
<1>5. mangled = {}
  BY DEF SocketsInit
<1> QED  BY <1>3, <1>4, <1>5 DEF EchoInv

\* The select server is one of the servers that use sockets like this.
LEMMA SelectSocketStep == SelectInv /\ [Next]_vars => SocketStep
<1> SUFFICES ASSUME SelectInv, [Next]_vars  PROVE SocketStep
  OBVIOUS
<1>1. eventfd \in tmpfds \ {Listen} => eventfd \in ClientFds
  BY FdsAre DEF SelectInv
<1>2. eventfd \in tmpfds \ {Listen} /\ reply = None => fds[eventfd] # None
  BY <1>1, FdsAre DEF SelectInv, Ahead, Readable, Open
<1> QED  BY <1>1, <1>2 DEF SocketStep, Next, ServerStep, Select, SkipFd, AcceptClient, ReceiveFrom,
                           Receive, SendBack, DropClient, vars

LEMMA SelectEchoInv == Spec => []EchoInv
<1>1. Init => EchoInv
  BY EchoInit DEF Init
<1>2. SelectInv /\ EchoInv /\ [Next]_vars => EchoInv'
  BY SelectSocketStep, EchoStep DEF SelectInv
<1> QED  BY <1>1, <1>2, SelectInvariance, PTL DEF Spec

(***************************************************************************)
(* A client of tcpselect.cpp gets back exactly the bytes that have been    *)
(* received from it, in order, until one of its chunks has a NUL in it or  *)
(* fills the buffer, whatever the other clients send.                      *)
(***************************************************************************)
THEOREM SelectEchoes == Spec => []EchoIsExact
<1>1. EchoInv => EchoIsExact
  BY DEF EchoInv
<1> QED  BY <1>1, SelectEchoInv, PTL

(***************************************************************************)
(* So all content goes back unchanged, as the comment at send() has it,    *)
(* when no client sends a NUL, or as much as the buffer holds at a time.   *)
(***************************************************************************)
THEOREM SelectEchoesPlainText ==
  ASSUME PlainText
  PROVE  Spec => []SentBackUnchanged
<1>1. EchoInv => SentBackUnchanged
  BY DEF EchoInv, EchoIsExact, SentBackUnchanged
<1> QED  BY <1>1, SelectEchoInv, PTL

--------------------------------------------------------------------------------
\* The poll server.

\* Its sockets are the ones above, although PollServer has an instance of its own.
LEMMA PollSockets ==
  /\ P!Fds = Fds /\ P!ClientFds = ClientFds
  /\ UNCHANGED P!socketVars <=> UNCHANGED socketVars
  /\ P!SocketsInit <=> SocketsInit
  /\ P!ClientStep <=> ClientStep
  /\ \A fd : P!Open(fd) <=> Open(fd)
  /\ \A fd : P!Readable(fd) <=> Readable(fd)
  /\ \A S : P!Max(S) = Max(S) /\ P!Min(S) = Min(S)
<1>1. P!Fds = Fds /\ P!ClientFds = ClientFds
  BY DEF P!Fds, Fds, P!ClientFds, ClientFds
<1>2. \A fd : P!Open(fd) <=> Open(fd)
  BY <1>1 DEF P!Open, Open
<1>3. \A fd : P!Readable(fd) <=> Readable(fd)
  BY <1>2 DEF P!Readable, Readable, P!Arrived, Arrived
<1>4. \A S : P!Max(S) = Max(S) /\ P!Min(S) = Min(S)
  BY DEF P!Max, Max, P!Min, Min
<1>5. P!ClientStep <=> ClientStep
  BY DEF P!ClientStep, ClientStep, P!Connect, Connect, P!ClientSend, ClientSend, P!HangUp, HangUp,
         P!ClientRead, ClientRead
<1>6. P!SocketsInit <=> SocketsInit
  BY <1>1 DEF P!SocketsInit, SocketsInit
<1>7. UNCHANGED P!socketVars <=> UNCHANGED socketVars
  BY DEF P!socketVars, socketVars
<1> QED  BY <1>1, <1>2, <1>3, <1>4, <1>5, <1>6, <1>7

LEMMA PollCalls ==
  /\ P!Reply <=> Reply
  /\ P!SigPipe <=> SigPipe
  /\ \A fd : /\ P!Accept(fd) <=> Accept(fd)
             /\ P!Disconnect(fd) <=> Disconnect(fd)
             /\ P!Receive(fd) <=> Receive(fd)
<1>1. P!Reply <=> Reply
  BY DEF P!Reply, Reply
<1>2. P!SigPipe <=> SigPipe
  BY DEF P!SigPipe, SigPipe
<1>3. \A fd : P!Accept(fd) <=> Accept(fd)
  <2>1. P!FreeFds = FreeFds
    BY PollSockets DEF P!FreeFds, FreeFds
  <2> QED  BY <2>1, PollSockets DEF P!Accept, Accept
<1>4. \A fd : P!Disconnect(fd) <=> Disconnect(fd)
  BY DEF P!Disconnect, Disconnect, P!Arrived, Arrived
<1>5. \A fd : P!Receive(fd) <=> Receive(fd)
  <2>1. \A c : P!Chunk(c) = Chunk(c)
    BY PollSockets DEF P!Chunk, Chunk, P!Arrived, Arrived
  <2>2. \A k : P!Text(k) = Text(k)
    BY PollSockets DEF P!Text, Text
  <2>3. \A k : P!Texts(k) = Texts(k)
    BY <2>2 DEF P!Texts, Texts
  <2> QED  BY <2>1, <2>3 DEF P!Receive, Receive, P!IsPlain, IsPlain
<1> QED  BY <1>1, <1>2, <1>3, <1>4, <1>5

LEMMA PollInvInit == P!Init => PollInv
<1> SUFFICES ASSUME P!Init  PROVE PollInv
  OBVIOUS
<1>1. /\ SocketsInit /\ readfds = {Listen} /\ revents \in [Fds -> BOOLEAN] /\ maxfd = Listen
      /\ eventfd = None /\ fresh = None
  BY PollSockets DEF P!Init
<1>2. SocketInv /\ reply = None /\ \A fd \in ClientFds : fds[fd] = None
  BY <1>1, SocketInvInit DEF SocketsInit
<1> QED  BY <1>1, <1>2, FdsAre DEF PollInv, Open, Ahead

LEMMA PollInvNext == PollInv /\ [P!Next]_P!vars => PollInv'
<1> SUFFICES ASSUME PollInv, [P!Next]_P!vars  PROVE PollInv'
  OBVIOUS
<1> USE FdsAre, PollSockets, PollCalls
<1>0. /\ SocketInv /\ eventfd \in Fds \cup {None} /\ readfds \subseteq Fds /\ maxfd \in Fds
      /\ \A fd \in Fds : Open(fd) <=> fd \in ClientFds /\ fds[fd] # None
      /\ \A m : P!Advance(m) <=> Advance(m)
  BY DEF PollInv, Open, P!Advance, Advance
<1>1. CASE P!Poll
  <2>1. SocketInv' /\ fds' = fds /\ reply' = reply
        /\ \A fd \in Fds : Readable(fd) => Readable(fd)'
    BY <1>0, <1>1, UnchangedKeeps DEF P!Poll
  <2>2. reply = None
    BY <1>0, <1>1 DEF P!Poll, PollInv
  <2>3. /\ revents' \in [Fds -> BOOLEAN] /\ fresh' = None
        /\ UNCHANGED <<readfds, maxfd>> /\ eventfd' \in Fds \cup {None}
        /\ \A fd \in readfds : revents'[fd] => Readable(fd)
    <3>1. \A fd \in P!Ready : fd \in readfds /\ Readable(fd)
      BY DEF P!Ready
    <3>2. \A fd \in readfds : fd <= maxfd
      BY DEF PollInv
    <3>3. revents' = [fd \in Fds |-> IF fd <= maxfd THEN fd \in P!Ready ELSE revents[fd]]
      BY <1>1 DEF P!Poll
    <3>4. \A fd \in readfds : revents'[fd] => Readable(fd)
      BY <1>0, <3>1, <3>2, <3>3
    <3>5. revents' \in [Fds -> BOOLEAN]
      <4>1. \A fd \in Fds : revents[fd] \in BOOLEAN
        BY DEF PollInv
      <4>2. \A fd \in Fds : (IF fd <= maxfd THEN fd \in P!Ready ELSE revents[fd]) \in BOOLEAN
        <5> SUFFICES ASSUME NEW fd \in Fds
                     PROVE  (IF fd <= maxfd THEN fd \in P!Ready ELSE revents[fd]) \in BOOLEAN
          OBVIOUS
        <5>1. CASE fd <= maxfd
          BY <5>1
        <5>2. CASE ~(fd <= maxfd)
          BY <4>1, <5>2
        <5> QED  BY <5>1, <5>2
      <4> QED  BY <3>3, <4>2
    <3> QED  BY <1>0, <1>1, <3>4, <3>5 DEF P!Poll
  <2>4. \A fd \in readfds' : revents'[fd] /\ Ahead(fd)' => Readable(fd)' \/ fd = fresh'
    BY <1>0, <2>1, <2>3
  <2> QED  BY <1>0, <2>1, <2>2, <2>3, <2>4 DEF PollInv, Open
<1>2. CASE P!SkipFd
  <2>1. SocketInv' /\ fds' = fds /\ reply' = reply
        /\ \A fd \in Fds : Readable(fd) => Readable(fd)'
    BY <1>0, <1>2, UnchangedKeeps DEF P!SkipFd
  <2>2. eventfd \in Fds /\ Advance(maxfd) /\ UNCHANGED <<readfds, revents, maxfd, fresh>>
        /\ ~(eventfd \in readfds /\ revents[eventfd])
    BY <1>0, <1>2 DEF P!SkipFd, P!Event
  <2>3. \A fd \in readfds' : revents'[fd] /\ Ahead(fd)' => Readable(fd)' \/ fd = fresh'
    BY <1>0, <2>1, <2>2, AheadAfter DEF PollInv
  <2>4. reply = None
    BY <1>0, <2>2 DEF PollInv, SocketInv, SocketsTypeOK
  <2> QED  BY <1>0, <2>1, <2>2, <2>3, <2>4, AdvanceIs DEF PollInv, Open
<1>3. CASE P!AcceptClient
  <2>1. eventfd = Listen /\ reply = None /\ fresh = None /\ Advance(maxfd') /\ revents' = revents
    BY <1>0, <1>3 DEF P!AcceptClient, PollInv
  <2>2. CASE \E fd \in ClientFds : /\ Accept(fd)
                                   /\ readfds' = readfds \cup {fd}
                                   /\ maxfd' = Max({maxfd, fd})
                                   /\ fresh' = fd
    <3>1. PICK fd \in ClientFds : /\ Accept(fd)
                                   /\ readfds' = readfds \cup {fd}
                                   /\ maxfd' = Max({maxfd, fd})
                                   /\ fresh' = fd
      BY <2>2
    <3>2. /\ SocketInv' /\ fds[fd] = None /\ fds'[fd] # None /\ reply' = reply
          /\ \A fe \in ClientFds \ {fd} : fds'[fe] = fds[fe]
          /\ \A fe \in ClientFds : Readable(fe) => Readable(fe)'
      BY <1>0, <3>1, AcceptKeeps
    <3>3. maxfd' \in {maxfd, fd} /\ maxfd <= maxfd' /\ fd <= maxfd'
      BY <1>0, <3>1, MaxOfTwo
    <3>4. maxfd' \in readfds' /\ maxfd' \in Fds /\ \A fe \in readfds' : fe <= maxfd'
      <4>1. \A fe \in Fds : fe \in Int
        BY SocketsAssumption DEF Fds
      <4> QED  BY <1>0, <3>1, <3>3, <4>1 DEF PollInv
    <3>5. readfds' = {Listen} \cup {fe \in ClientFds : Open(fe)'}
      BY <1>0, <3>1, <3>2 DEF PollInv, Open
    <3>6. \A fe \in readfds' : revents'[fe] /\ Ahead(fe)' => Readable(fe)' \/ fe = fresh'
      BY <1>0, <2>1, <3>1, <3>2, <3>4, AheadAfter DEF PollInv
    <3> QED  BY <1>0, <2>1, <3>1, <3>2, <3>4, <3>5, <3>6, AdvanceIs DEF PollInv
  <2>3. CASE UNCHANGED <<socketVars, readfds, maxfd, fresh>>
    <3>1. SocketInv' /\ fds' = fds /\ reply' = reply
          /\ \A fd \in Fds : Readable(fd) => Readable(fd)'
      BY <1>0, <2>3, UnchangedKeeps
    <3>2. \A fd \in readfds' : revents'[fd] /\ Ahead(fd)' => Readable(fd)' \/ fd = fresh'
      BY <1>0, <2>1, <2>3, <3>1, AheadAfter DEF PollInv
    <3> QED  BY <1>0, <2>1, <2>3, <3>1, <3>2, AdvanceIs DEF PollInv, Open
  <2> QED  BY <1>3, <2>2, <2>3 DEF P!AcceptClient
<1>4. CASE P!ReceiveFrom
  <2>1. eventfd \in ClientFds /\ UNCHANGED <<readfds, revents, maxfd, eventfd, fresh>>
        /\ Receive(eventfd) /\ fds[eventfd] # None /\ revents[eventfd]
    BY <1>0, <1>4 DEF P!ReceiveFrom, P!serverVars, P!Event, PollInv, Open
  <2>2. /\ SocketInv' /\ fds' = fds /\ reply = None /\ reply' # None /\ reply'.fd = eventfd
        /\ \A fe \in Fds \ {eventfd} : Readable(fe) => Readable(fe)'
    BY <1>0, <2>1, ReceiveKeeps
  <2>3. \A fe \in readfds' : revents'[fe] /\ Ahead(fe)' => Readable(fe)' \/ fe = fresh'
    <3> SUFFICES ASSUME NEW fe \in readfds', revents'[fe], Ahead(fe)'
                 PROVE  Readable(fe)' \/ fe = fresh'
      OBVIOUS
    <3>1. fe \in readfds /\ revents[fe] /\ eventfd < fe
      BY <2>1, <2>2 DEF Ahead
    <3>2. fe # eventfd /\ fe \in Fds
      BY <1>0, <3>1, SocketsAssumption DEF Fds
    <3> QED  BY <1>0, <2>1, <2>2, <3>1, <3>2 DEF PollInv, Ahead
  <2> QED  BY <1>0, <2>1, <2>2, <2>3 DEF PollInv, Open
<1>5. CASE P!SendBack
  <2>1. eventfd \in ClientFds /\ Advance(maxfd) /\ UNCHANGED <<readfds, revents, maxfd, fresh>>
    BY <1>0, <1>5 DEF P!SendBack, Reply, PollInv
  <2>2. /\ SocketInv' /\ fds' = fds /\ reply' = None
        /\ \A fe \in Fds : Readable(fe) => Readable(fe)'
    BY <1>0, <1>5, ReplyKeeps DEF P!SendBack
  <2>3. \A fe \in readfds' : revents'[fe] /\ Ahead(fe)' => Readable(fe)' \/ fe = fresh'
    BY <1>0, <2>1, <2>2, AheadAfter DEF PollInv
  <2> QED  BY <1>0, <2>1, <2>2, <2>3, AdvanceIs DEF PollInv, Open
<1>6. CASE P!DropClient
  <2>1. /\ eventfd \in ClientFds /\ Disconnect(eventfd) /\ Advance(maxfd')
        /\ readfds' = readfds \ {eventfd} /\ revents' = revents /\ fresh' = fresh
        /\ maxfd' = IF eventfd = maxfd THEN Max(readfds \ {eventfd}) ELSE maxfd
    BY <1>0, <1>6 DEF P!DropClient
  <2>2. /\ SocketInv' /\ fds'[eventfd] = None /\ reply' = None
        /\ \A fe \in ClientFds \ {eventfd} : fds'[fe] = fds[fe]
        /\ \A fe \in Fds \ {eventfd} : Readable(fe) => Readable(fe)'
    BY <1>0, <2>1, DisconnectKeeps
  <2>3. maxfd' \in readfds' /\ maxfd' \in Fds /\ \A fe \in readfds' : fe <= maxfd'
    <3>1. Listen \in readfds \ {eventfd}
      BY <2>1 DEF PollInv
    <3>2. /\ readfds \in SUBSET Fds /\ maxfd \in readfds /\ \A fd \in readfds : fd <= maxfd
          /\ eventfd \in Fds /\ readfds \ {eventfd} # {}
      BY <1>0, <2>1, <3>1 DEF PollInv
    <3>3. maxfd' \in readfds \ {eventfd} /\ \A fe \in readfds \ {eventfd} : fe <= maxfd'
      BY <2>1, <3>2, MaxOfRest
    <3> QED  BY <2>1, <3>2, <3>3
  <2>4. readfds' = {Listen} \cup {fe \in ClientFds : Open(fe)'}
    BY <1>0, <2>1, <2>2 DEF PollInv, Open
  <2>5. \A fe \in readfds' : revents'[fe] /\ Ahead(fe)' => Readable(fe)' \/ fe = fresh'
    BY <1>0, <2>1, <2>2, <2>3, AheadAfter DEF PollInv
  <2> QED  BY <1>0, <2>1, <2>2, <2>3, <2>4, <2>5, AdvanceIs DEF PollInv
<1>7. CASE /\ SigPipe \/ UNCHANGED socketVars \/ ClientStep
           /\ UNCHANGED <<readfds, revents, maxfd, eventfd, fresh>>
  <2>1. SocketInv' /\ fds' = fds /\ reply' = reply
        /\ \A fd \in Fds : Readable(fd) => Readable(fd)'
    BY <1>0, <1>7, UnchangedKeeps, ClientStepKeeps
  <2> QED  BY <1>0, <1>7, <2>1 DEF PollInv, Open, Ahead
<1> QED  BY <1>1, <1>2, <1>3, <1>4, <1>5, <1>6, <1>7 DEF P!Next, P!ServerStep, P!vars, P!serverVars

\* What the poll server's scan relies on holds in every behaviour.
THEOREM PollInvariance == P!Spec => []PollInv
BY PollInvInit, PollInvNext, PTL DEF P!Spec

(***************************************************************************)
(* fds[] and maxfd of tcppoll.cpp agree with the sockets that are open.    *)
(***************************************************************************)
THEOREM PollWatches == P!Spec => []P!WatchesOpenSockets
<1>1. PollInv => P!WatchesOpenSockets
  <2> SUFFICES ASSUME PollInv  PROVE P!WatchesOpenSockets
    OBVIOUS
  <2>1. LastFd \in Nat /\ readfds \in SUBSET (0..LastFd) /\ maxfd = Max(readfds)
    BY FdsAre, MaxUnique DEF PollInv
  <2> QED  BY <2>1, PollSockets DEF PollInv, P!WatchesOpenSockets
<1> QED  BY <1>1, PollInvariance, PTL

(***************************************************************************)
(* A recv() of tcppoll.cpp blocks for the client accepted in the same scan *)
(* at most, however stale the revents of the other entries are.            *)
(***************************************************************************)
THEOREM PollBlocksOnlyOnFresh == P!Spec => []P!BlocksOnlyOnFresh
<1>1. PollInv => P!BlocksOnlyOnFresh
  BY PollSockets, FdsAre DEF PollInv, P!BlocksOnlyOnFresh, P!Event, Ahead
<1> QED  BY <1>1, PollInvariance, PTL

LEMMA PollEchoInv == P!Spec => []EchoInv
<1>1. P!Init => EchoInv
  BY EchoInit, PollSockets DEF P!Init
<1>2. PollInv /\ [P!Next]_P!vars => SocketStep
  <2> SUFFICES ASSUME PollInv, [P!Next]_P!vars  PROVE SocketStep
    OBVIOUS
  <2>1. \A fd \in ClientFds : P!Event(fd) => fds[fd] # None
    BY FdsAre DEF P!Event, PollInv, Open
  <2> QED  BY <2>1, PollSockets, PollCalls
           DEF SocketStep, P!Next, P!ServerStep, P!Poll, P!SkipFd, P!AcceptClient, P!ReceiveFrom,
               P!SendBack, P!DropClient, P!vars
<1>3. PollInv /\ EchoInv /\ [P!Next]_P!vars => EchoInv'
  BY <1>2, EchoStep DEF PollInv
<1> QED  BY <1>1, <1>3, PollInvariance, PTL DEF P!Spec

(***************************************************************************)
(* The poll server echoes exactly, until a chunk has a NUL or fills the    *)
(* buffer, like select.                                                    *)
(***************************************************************************)
THEOREM PollEchoes == P!Spec => []EchoIsExact
<1>1. EchoInv => EchoIsExact
  BY DEF EchoInv
<1> QED  BY <1>1, PollEchoInv, PTL

(***************************************************************************)
(* Plain text goes back unchanged from tcppoll.cpp, too.                   *)
(***************************************************************************)
THEOREM PollEchoesPlainText ==
  ASSUME PlainText
  PROVE  P!Spec => []SentBackUnchanged
<1>1. EchoInv => SentBackUnchanged
  BY DEF EchoInv, EchoIsExact, SentBackUnchanged
<1> QED  BY <1>1, PollEchoInv, PTL

(***************************************************************************)
(* The same of the module that runs either server on the same clients.     *)
(***************************************************************************)
THEOREM LoopsBlockOnlyOnFresh == MCSpec => []BlocksOnlyOnFresh
<1> DEFINE Inv == api = "poll" => PollInv
<1>1. MCInit => Inv
  BY PollInvInit DEF MCInit
<1>2. Inv /\ [MCNext]_loopVars => Inv'
  <2> SUFFICES ASSUME Inv, [MCNext]_loopVars, api' = "poll"  PROVE PollInv'
    OBVIOUS
  <2>1. api = "poll"
    BY DEF MCNext, loopVars
  <2>2. P!Next \/ UNCHANGED P!vars
    BY <2>1 DEF MCNext, loopVars, vars, serverVars, socketVars, P!vars, P!serverVars, P!socketVars
  <2> QED  BY <2>1, <2>2, PollInvNext
<1>3. Inv => BlocksOnlyOnFresh
  BY PollSockets, FdsAre DEF BlocksOnlyOnFresh, PollInv, P!BlocksOnlyOnFresh, P!Event, Ahead
<1> QED  BY <1>1, <1>2, <1>3, PTL DEF MCSpec

================================================================================
