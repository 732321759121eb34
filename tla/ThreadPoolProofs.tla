--------------------------- MODULE ThreadPoolProofs ---------------------------
(***************************************************************************)
(* Proofs about ThreadPool, for every number of workers and of tasks and   *)
(* every size of the queue.  The queue is used through what its calls do:  *)
(* the lemmas of MessageQueueProofs give the effect of its push, its pop   *)
(* and its silent steps, and the pool's invariant speaks of calls only.    *)
(***************************************************************************)
EXTENDS ThreadPool, FiniteSetTheorems, TLAPS

P == INSTANCE MessageQueueProofs
  WITH Producers <- Threads, Consumers <- Workers, Msgs <- Messages, Limit <- Size

\* The call thread t is in: none, send or receive.
Call(t) == Q!CallOf(pc[t])

\* The types of the pool's own variables.
PoolTypeOK ==
  /\ next \in 1..NumTasks + 2
  /\ wpc \in [Workers -> {"loop", "dequeue", "copy", "repost", "check", "done"}]
  /\ ref \in [Workers -> Messages \cup {None}]
  /\ stopped \subseteq Workers
  /\ executed \in [Messages -> Nat]
  /\ joined \in BOOLEAN

\* What place w has in ExecuteTask says which call of the queue it is in.
WorkersOK ==
  \A w \in Workers :
    /\ Call(w) = "receive" <=> wpc[w] = "dequeue"
    /\ Call(w) = "send" <=> wpc[w] = "repost"
    /\ wpc[w] = "repost" => msg[w] = Pill
    /\ wpc[w] = "copy" => ref[w] \in Messages

\* Main never receives, and the message it is sending is the last one it chose.
MainOK ==
  /\ Call(Main) \in {"none", "send"}
  /\ Call(Main) = "send" =>
       /\ next > 1
       /\ msg[Main] = IF next <= NumTasks + 1 THEN next - 1 ELSE Pill

MainSends(m) == Call(Main) = "send" /\ msg[Main] = m

InQueue(m) == \E i \in 1..Len(queue) : queue[i] = m

HeldBy(m, w) == wpc[w] = "copy" /\ ref[w] = m

IsHeld(m) == \E w \in Workers : HeldBy(m, w)

\* A task is at exactly one of the five places, and in one pair of hands.
AtOnePlace(m) ==
  /\ executed[m] \in {0, 1}
  /\ Unsent(m) \/ MainSends(m) \/ InQueue(m) \/ IsHeld(m) \/ executed[m] = 1
  /\ Unsent(m) => ~InQueue(m) /\ ~IsHeld(m) /\ executed[m] = 0
  /\ MainSends(m) => ~InQueue(m) /\ ~IsHeld(m) /\ executed[m] = 0
  /\ InQueue(m) => ~IsHeld(m) /\ executed[m] = 0
  /\ IsHeld(m) => executed[m] = 0
  /\ \A v, w \in Workers : HeldBy(m, v) /\ HeldBy(m, w) => v = w

TasksOK == \A m \in Tasks : AtOnePlace(m)

\* The queue holds tasks in the order of their numbers, and the pill last.
QueueOrdered ==
  \A i, j \in 1..Len(queue) :
    i < j => queue[i] \in Tasks /\ (queue[j] = Pill \/ queue[i] < queue[j])

\* A worker that has the pill, or is putting it back.
Carries(w) == HeldBy(Pill, w) \/ wpc[w] = "repost"

\* There is one pill.  Before it comes out of the queue everything else has.
PillOK ==
  /\ next <= NumTasks + 1 \/ MainSends(Pill) =>
       ~InQueue(Pill) /\ stopped = {} /\ \A w \in Workers : ~Carries(w)
  /\ \A w \in Workers : Carries(w) => queue = << >> /\ Size > 0
  /\ \A v, w \in Workers : Carries(v) /\ Carries(w) => v = w
  /\ stopped # {} => \A m \in Tasks : ~InQueue(m)

\* What the pool adds to the invariant of its queue.
WorkOK == PoolTypeOK /\ WorkersOK /\ MainOK /\ TasksOK /\ QueueOrdered /\ PillOK

PoolInv == P!SafeInv /\ WorkOK

--------------------------------------------------------------------------------
\* The queue of the pool and the queue of the proofs are the same one.
LEMMA SameQueue ==
  /\ P!Threads = Threads /\ Q!Threads = Threads
  /\ P!Init <=> Q!Init
  /\ \A t, m : Q!CallEnqueue(t, m) <=> P!CallEnqueue(t, m)
  /\ \A t : Q!CallDequeue(t) <=> P!CallDequeue(t)
  /\ \A t : Q!Acquire(t) <=> P!Acquire(t)
  /\ \A t : Q!TestFull(t) <=> P!TestFull(t)
  /\ \A t : Q!TestEmpty(t) <=> P!TestEmpty(t)
  /\ \A t : Q!Push(t) <=> P!Push(t)
  /\ \A t : Q!Pop(t) <=> P!Pop(t)
  /\ \A t : Q!SpuriousWakeup(t) <=> P!SpuriousWakeup(t)
<1>1. P!Threads = Threads /\ Q!Threads = Threads
  BY DEF P!Threads, Q!Threads, Threads
<1>2. \A places : Q!At(places) = P!At(places)
  BY <1>1 DEF P!At, Q!At
<1>3. P!Init <=> Q!Init
  BY <1>1 DEF P!Init, Q!Init
<1>4. /\ \A t, m : Q!CallEnqueue(t, m) <=> P!CallEnqueue(t, m)
      /\ \A t : Q!CallDequeue(t) <=> P!CallDequeue(t)
  BY DEF P!CallEnqueue, Q!CallEnqueue, P!CallDequeue, Q!CallDequeue
<1>5. /\ \A t : Q!Acquire(t) <=> P!Acquire(t)
      /\ \A t : Q!SpuriousWakeup(t) <=> P!SpuriousWakeup(t)
  BY DEF P!Acquire, Q!Acquire, P!SpuriousWakeup, Q!SpuriousWakeup
<1>6. /\ \A t : Q!TestFull(t) <=> P!TestFull(t)
      /\ \A t : Q!TestEmpty(t) <=> P!TestEmpty(t)
  BY DEF P!TestFull, Q!TestFull, P!TestEmpty, Q!TestEmpty, P!Full, Q!Full
<1>7. /\ \A t : Q!Push(t) <=> P!Push(t)
      /\ \A t : Q!Pop(t) <=> P!Pop(t)
  BY <1>2 DEF P!Push, Q!Push, P!Pop, Q!Pop, P!NotifyOne, Q!NotifyOne
<1> QED
  BY <1>1, <1>3, <1>4, <1>5, <1>6, <1>7

\* What the assumptions on the pool say of its queue (ThreadsAssumption and
\* LimitAssumption of MessageQueue).
LEMMA QueueAssumptions ==
  /\ P!IsFiniteSet(Threads) /\ P!IsFiniteSet(Workers)
  /\ None \notin Threads \cup Workers
  /\ Size \in Int
<1>1. IsFiniteSet(Threads)
  BY PoolAssumption, FS_AddElement DEF Threads
<1>2. P!IsFiniteSet(Threads) /\ P!IsFiniteSet(Workers)
  BY <1>1, PoolAssumption DEF P!IsFiniteSet, IsFiniteSet
<1>3. None \notin Threads \cup Workers
  BY PoolAssumption DEF Threads
<1>4. Size \in Int
  BY PoolAssumption
<1> QED
  BY <1>2, <1>3, <1>4

\* The queue's own invariant holds in the pool: every step of the pool is a
\* step of the queue or leaves it alone.
LEMMA QueueInit == Init => P!SafeInv
BY P!InitSafe, QueueAssumptions, SameQueue DEF Init

LEMMA QueueStepped == PoolTypeOK /\ [Next]_vars => [P!Next]_(P!vars)
<1> SUFFICES ASSUME PoolTypeOK, [Next]_vars PROVE P!Next \/ UNCHANGED P!vars
  OBVIOUS
<1>1. ASSUME NEW t \in Threads, NEW m \in Messages, Q!CallEnqueue(t, m) PROVE P!Next
  BY <1>1, SameQueue DEF P!Next
<1>2. CASE MainEnqueue
  <2> DEFINE m == IF next <= NumTasks THEN next ELSE Pill
  <2>1. Q!CallEnqueue(Main, m)
    BY <1>2 DEF MainEnqueue
  <2>2. m \in Messages
    BY PoolAssumption DEF Messages, Tasks, PoolTypeOK
  <2> QED
    BY <1>1, <2>1, <2>2 DEF Threads
<1>3. ASSUME NEW w \in Workers, Execute(w) PROVE P!Next \/ UNCHANGED P!vars
  <2>1. UNCHANGED queueVars \/ Q!CallEnqueue(w, Pill)
    BY <1>3 DEF Execute
  <2> QED
    BY <1>1, <2>1 DEF Threads, Messages, P!vars, queueVars
<1>4. ASSUME NEW w \in Workers, WorkerDequeue(w) \/ CheckStop(w) \/ QueuePop(w)
      PROVE  P!Next \/ UNCHANGED P!vars
  BY <1>4, SameQueue
     DEF WorkerDequeue, CheckStop, QueuePop, P!Next, P!Step, Threads, P!vars, queueVars
<1>5. ASSUME NEW t \in Threads, QueueStep(t) \/ QueuePush(t) \/ QueueSpurious(t)
      PROVE  P!Next
  BY <1>5, SameQueue DEF QueueStep, QueuePush, QueueSpurious, P!Next, P!Step
<1>6. CASE MainJoin \/ Finished \/ UNCHANGED vars
  BY <1>6 DEF MainJoin, Finished, vars, P!vars, queueVars
<1> QED
  BY <1>2, <1>3, <1>4, <1>5, <1>6 DEF Next, MainStep, WorkerStep

LEMMA QueueNext == P!SafeInv /\ PoolTypeOK /\ [Next]_vars => P!SafeInv'
BY QueueStepped, P!NextSafe, QueueAssumptions

--------------------------------------------------------------------------------
\* Thread t's call becomes c, and nobody else's changes.
CallBecomes(t, c) == \A u \in Threads : Call(u)' = IF u = t THEN c ELSE Call(u)

LEMMA EnqueueBegins ==
  ASSUME P!SafeInv, NEW t \in Threads, NEW m, Q!CallEnqueue(t, m)
  PROVE  /\ Call(t) = "none" /\ CallBecomes(t, "send")
         /\ queue' = queue /\ msg' = [msg EXCEPT ![t] = m]
BY SameQueue DEF P!SafeInv, P!TypeOK, Q!CallEnqueue, Call, CallBecomes, Q!CallOf

LEMMA DequeueBegins ==
  ASSUME P!SafeInv, NEW t \in Threads, Q!CallDequeue(t)
  PROVE  /\ Call(t) = "none" /\ CallBecomes(t, "receive")
         /\ queue' = queue /\ msg' = msg
BY SameQueue DEF P!SafeInv, P!TypeOK, Q!CallDequeue, Call, CallBecomes, Q!CallOf

LEMMA StepIsSilent ==
  ASSUME P!SafeInv, NEW t \in Threads,
         Q!Acquire(t) \/ Q!TestFull(t) \/ Q!TestEmpty(t) \/ Q!SpuriousWakeup(t)
  PROVE  /\ \A u \in Threads : Call(u)' = Call(u)
         /\ queue' = queue /\ msg' = msg
BY SameQueue
   DEF P!SafeInv, P!TypeOK, Q!Acquire, Q!TestFull, Q!TestEmpty, Q!SpuriousWakeup, Call, Q!CallOf

LEMMA PushEnds ==
  ASSUME P!SafeInv, NEW t \in Threads, Q!Push(t)
  PROVE  /\ Call(t) = "send" /\ CallBecomes(t, "none")
         /\ queue' = Append(queue, msg[t]) /\ msg' = msg
         /\ queue \in Seq(Messages) /\ msg[t] \in Messages
<1> USE SameQueue
<1>1. /\ pc[t] = "push" /\ pc'[t] = "idle"
      /\ \A u \in Threads \ {t} :
           pc'[u] = pc[u] \/ (pc[u] = "deqWait" /\ pc'[u] = "deqWoken")
  BY P!PushWakes, QueueAssumptions DEF P!SafeInv, P!TypeOK
<1>2. queue \in Seq(Messages) /\ msg[t] \in Messages
  BY <1>1 DEF P!SafeInv, P!TypeOK, P!CallsOK, P!Sending
<1> QED
  BY <1>1, <1>2 DEF Q!Push, Call, CallBecomes, Q!CallOf

LEMMA PopEnds ==
  ASSUME P!SafeInv, NEW t \in Threads, Q!Pop(t)
  PROVE  /\ Call(t) = "receive" /\ CallBecomes(t, "none")
         /\ queue \in Seq(Messages) /\ queue # << >>
         /\ queue' = Tail(queue) /\ msg' = [msg EXCEPT ![t] = Head(queue)]
         /\ Size > 0
<1> USE SameQueue
<1>1. /\ pc[t] = "pop" /\ pc'[t] = "idle"
      /\ \A u \in Threads \ {t} :
           pc'[u] = pc[u] \/ (pc[u] = "enqWait" /\ pc'[u] = "enqWoken")
  BY P!PopWakes, QueueAssumptions DEF P!SafeInv, P!TypeOK
<1>2. queue \in Seq(Messages) /\ queue # << >> /\ Size > 0
  BY <1>1, PoolAssumption DEF P!SafeInv, P!TypeOK, P!TestStillHolds
<1> QED
  BY <1>1, <1>2 DEF Q!Pop, Call, CallBecomes, Q!CallOf

--------------------------------------------------------------------------------
LEMMA InitWork == Init => WorkOK
<1> SUFFICES ASSUME Init PROVE WorkOK
  OBVIOUS
<1> USE PoolAssumption DEF Init, Q!Init
<1>1. \A t \in Threads : Call(t) = "none"
  BY SameQueue DEF Call, Q!CallOf
<1>2. queue = << >> /\ \A m : ~InQueue(m)
  BY DEF InQueue
<1>3. PoolTypeOK
  <2>1. next \in 1..NumTasks + 2 /\ executed \in [Messages -> Nat]
    OBVIOUS
  <2> QED
    BY <2>1 DEF PoolTypeOK
<1>4. WorkersOK
  BY <1>1 DEF WorkersOK, Threads
<1>5. MainOK
  BY <1>1 DEF MainOK, Threads
<1>6. TasksOK
  BY <1>1, <1>2 DEF TasksOK, AtOnePlace, Unsent, MainSends, HeldBy, IsHeld, Tasks, Messages, Threads
<1>7. QueueOrdered
  BY DEF QueueOrdered
<1>8. PillOK
  BY <1>2 DEF PillOK, Carries, HeldBy
<1> QED
  BY <1>3, <1>4, <1>5, <1>6, <1>7, <1>8 DEF WorkOK

\* A step that nobody outside the queue sees.
LEMMA SilentWork ==
  ASSUME WorkOK, UNCHANGED <<queue, msg>>, UNCHANGED poolVars,
         \A u \in Threads : Call(u)' = Call(u)
  PROVE  WorkOK'
<1> USE DEF poolVars, Threads
<1>1. PoolTypeOK'
  BY DEF WorkOK, PoolTypeOK
<1>2. WorkersOK'
  BY DEF WorkOK, WorkersOK
<1>3. MainOK'
  BY DEF WorkOK, MainOK
<1>4. TasksOK'
  BY DEF WorkOK, TasksOK, AtOnePlace, Unsent, MainSends, InQueue, HeldBy, IsHeld
<1>5. QueueOrdered'
  BY DEF WorkOK, QueueOrdered
<1>6. PillOK'
  BY DEF WorkOK, PillOK, MainSends, InQueue, Carries, HeldBy
<1> QED
  BY <1>1, <1>2, <1>3, <1>4, <1>5, <1>6 DEF WorkOK

LEMMA MainEnqueueWork ==
  ASSUME PoolInv, MainEnqueue
  PROVE  WorkOK'
<1> DEFINE m == IF next <= NumTasks THEN next ELSE Pill
<1>0. /\ PoolTypeOK /\ WorkersOK /\ MainOK /\ TasksOK /\ QueueOrdered /\ PillOK
      /\ NumTasks \in Nat /\ next \in Nat /\ next >= 1 /\ next' = next + 1
      /\ Main \in Threads /\ \A w \in Workers : w \in Threads /\ w # Main
      /\ msg \in [Threads -> Messages \cup {None}]
  BY PoolAssumption, SameQueue
     DEF PoolInv, WorkOK, PoolTypeOK, MainEnqueue, Threads, P!SafeInv, P!TypeOK
<1>1. /\ Call(Main) = "none" /\ CallBecomes(Main, "send")
      /\ queue' = queue /\ msg' = [msg EXCEPT ![Main] = m]
      /\ UNCHANGED <<wpc, ref, stopped, executed, joined>>
  <2>1. Q!CallEnqueue(Main, m)
    BY DEF MainEnqueue
  <2> QED
    BY <1>0, <2>1, EnqueueBegins DEF PoolInv, MainEnqueue
<1>2. /\ Call(Main)' = "send" /\ msg'[Main] = m
      /\ \A w \in Workers : Call(w)' = Call(w) /\ msg'[w] = msg[w]
  BY <1>0, <1>1 DEF CallBecomes
<1>3. PoolTypeOK'
  BY <1>0, <1>1 DEF PoolTypeOK, MainEnqueue
<1>4. WorkersOK'
  BY <1>0, <1>1, <1>2 DEF WorkersOK
<1>5. MainOK'
  BY <1>0, <1>2 DEF MainOK, MainEnqueue
<1>6. TasksOK'
  <2> SUFFICES ASSUME NEW k \in Tasks PROVE AtOnePlace(k)'
    BY DEF TasksOK
  <2>1. Unsent(k)' \/ MainSends(k)' <=> Unsent(k)
    BY <1>0, <1>2 DEF Unsent, MainSends, Tasks, Pill, MainEnqueue
  <2>2. ~MainSends(k)
    BY <1>1 DEF MainSends
  <2>3. InQueue(k)' <=> InQueue(k)
    BY <1>1 DEF InQueue
  <2>4. /\ \A w \in Workers : HeldBy(k, w)' <=> HeldBy(k, w)
        /\ IsHeld(k)' <=> IsHeld(k)
    BY <1>1 DEF HeldBy, IsHeld
  <2> QED
    BY <1>0, <1>1, <2>1, <2>2, <2>3, <2>4 DEF TasksOK, AtOnePlace
<1>7. QueueOrdered'
  BY <1>0, <1>1 DEF QueueOrdered
<1>8. PillOK'
  <2>1. next <= NumTasks + 1 /\ ~InQueue(Pill) /\ stopped = {} /\ \A w \in Workers : ~Carries(w)
    BY <1>0 DEF PillOK, MainEnqueue
  <2>2. \A w \in Workers : Carries(w)' <=> Carries(w)
    BY <1>1 DEF Carries, HeldBy
  <2>3. InQueue(Pill)' <=> InQueue(Pill)
    BY <1>1 DEF InQueue
  <2> QED
    BY <1>1, <2>1, <2>2, <2>3 DEF PillOK
<1> QED
  BY <1>3, <1>4, <1>5, <1>6, <1>7, <1>8 DEF WorkOK

\* A worker goes on in ExecuteTask without touching a message.
LEMMA WorkerMoves ==
  ASSUME PoolInv, NEW w \in Workers, WorkerDequeue(w) \/ CheckStop(w)
  PROVE  WorkOK'
<1>0. /\ PoolTypeOK /\ WorkersOK /\ MainOK /\ TasksOK /\ QueueOrdered /\ PillOK
      /\ Main \in Threads /\ \A v \in Workers : v \in Threads /\ v # Main
  BY PoolAssumption DEF PoolInv, WorkOK, Threads
<1>1. /\ queue' = queue /\ msg' = msg
      /\ UNCHANGED <<next, ref, stopped, executed, joined>>
      /\ wpc[w] \in {"loop", "check"}
      /\ \/ CallBecomes(w, "receive") /\ wpc' = [wpc EXCEPT ![w] = "dequeue"]
         \/ /\ \A t \in Threads : Call(t)' = Call(t)
            /\ \E place \in {"loop", "done"} : wpc' = [wpc EXCEPT ![w] = place]
  <2>1. CASE WorkerDequeue(w)
    BY <1>0, <2>1, DequeueBegins DEF PoolInv, WorkerDequeue
  <2>2. CASE CheckStop(w)
    BY <2>2 DEF CheckStop, queueVars, Call
  <2> QED
    BY <2>1, <2>2
<1>2. /\ Call(Main)' = Call(Main)
      /\ \A v \in Workers \ {w} : Call(v)' = Call(v) /\ wpc'[v] = wpc[v]
      /\ wpc'[w] \in {"dequeue", "loop", "done"}
      /\ Call(w) = "none"
      /\ Call(w)' = IF wpc'[w] = "dequeue" THEN "receive" ELSE "none"
  <2>1. Call(w) = "none"
    BY <1>0, <1>1 DEF WorkersOK, Call, Q!CallOf
  <2> QED
    BY <1>0, <1>1, <2>1 DEF CallBecomes, PoolTypeOK
<1>3. /\ \A m : MainSends(m)' <=> MainSends(m)
      /\ \A m : InQueue(m)' <=> InQueue(m)
      /\ \A m, v : v \in Workers => (HeldBy(m, v)' <=> HeldBy(m, v))
      /\ \A v \in Workers : Carries(v)' <=> Carries(v)
  BY <1>1, <1>2 DEF MainSends, InQueue, HeldBy, Carries
<1>4. PoolTypeOK'
  BY <1>0, <1>1 DEF PoolTypeOK
<1>5. WorkersOK'
  BY <1>0, <1>1, <1>2 DEF WorkersOK
<1>6. MainOK'
  BY <1>0, <1>1, <1>2 DEF MainOK
<1>7. TasksOK'
  BY <1>0, <1>1, <1>3 DEF TasksOK, AtOnePlace, Unsent, IsHeld
<1>8. QueueOrdered'
  BY <1>0, <1>1 DEF QueueOrdered
<1>9. PillOK'
  BY <1>0, <1>1, <1>3 DEF PillOK
<1> QED
  BY <1>4, <1>5, <1>6, <1>7, <1>8, <1>9 DEF WorkOK

\* The message t was sending joins the queue.
LEMMA PushWork ==
  ASSUME PoolInv, NEW t \in Threads, QueuePush(t)
  PROVE  WorkOK'
<1>0. /\ PoolTypeOK /\ WorkersOK /\ MainOK /\ TasksOK /\ QueueOrdered /\ PillOK
      /\ NumTasks \in Nat /\ next \in Nat /\ next >= 1
      /\ Main \in Threads /\ \A v \in Workers : v \in Threads /\ v # Main
  BY PoolAssumption DEF PoolInv, WorkOK, PoolTypeOK, Threads
<1>1. /\ Call(t) = "send" /\ CallBecomes(t, "none")
      /\ queue' = Append(queue, msg[t]) /\ msg' = msg
      /\ queue \in Seq(Messages) /\ msg[t] \in Messages
      /\ UNCHANGED <<next, ref, stopped, executed, joined>>
      /\ wpc' = [v \in Workers |-> IF v = t THEN "check" ELSE wpc[v]]
  BY PushEnds DEF PoolInv, QueuePush
<1>2. \/ t = Main
      \/ t \in Workers /\ wpc[t] = "repost" /\ msg[t] = Pill
  BY <1>0, <1>1 DEF WorkersOK, Threads
<1>3. \A v \in Workers : /\ Call(v)' = IF v = t THEN "none" ELSE Call(v)
                         /\ wpc'[v] = IF v = t THEN "check" ELSE wpc[v]
  BY <1>0, <1>1 DEF CallBecomes
<1>4. \A m : InQueue(m)' <=> InQueue(m) \/ m = msg[t]
  BY <1>1 DEF InQueue
<1>5. \A m : MainSends(m)' <=> MainSends(m) /\ t # Main
  BY <1>0, <1>1 DEF MainSends, CallBecomes
<1>6. /\ \A m, v : v \in Workers => (HeldBy(m, v)' <=> HeldBy(m, v))
      /\ \A v \in Workers : Carries(v)' <=> Carries(v) /\ v # t
  BY <1>0, <1>1, <1>2, <1>3 DEF HeldBy, Carries
<1>7. PoolTypeOK'
  BY <1>0, <1>1 DEF PoolTypeOK
<1>8. WorkersOK'
  BY <1>0, <1>1, <1>2, <1>3 DEF WorkersOK
<1>9. MainOK'
  BY <1>0, <1>1 DEF MainOK, CallBecomes
<1>10. TasksOK'
  <2> SUFFICES ASSUME NEW k \in Tasks PROVE AtOnePlace(k)'
    BY DEF TasksOK
  <2>1. IsHeld(k)' <=> IsHeld(k)
    BY <1>6 DEF IsHeld
  <2>2. CASE t = Main
    <3>1. MainSends(k) <=> k = msg[t]
      BY <1>1, <2>2 DEF MainSends
    <3>2. k = msg[t] => ~Unsent(k)
      BY <1>0, <1>1, <2>2 DEF MainOK, Unsent, Tasks, Pill
    <3> QED
      BY <1>0, <1>1, <1>4, <1>5, <1>6, <2>1, <2>2, <3>1, <3>2 DEF TasksOK, AtOnePlace, Unsent
  <2>3. CASE t # Main
    <3>1. k # msg[t]
      BY <1>2, <2>3 DEF Tasks, Pill
    <3> QED
      BY <1>0, <1>1, <1>4, <1>5, <1>6, <2>1, <2>3, <3>1 DEF TasksOK, AtOnePlace, Unsent
  <2> QED
    BY <2>2, <2>3
<1>11. QueueOrdered'
  <2>1. \A i \in 1..Len(queue) : queue[i] \in Tasks /\ (msg[t] = Pill \/ queue[i] < msg[t])
    <3> SUFFICES ASSUME NEW i \in 1..Len(queue)
                 PROVE  queue[i] \in Tasks /\ (msg[t] = Pill \/ queue[i] < msg[t])
      OBVIOUS
    <3>1. InQueue(queue[i]) /\ queue[i] \in Messages
      BY <1>1 DEF InQueue
    <3>2. CASE t = Main
      <4>1. queue[i] # Pill
        BY <1>0, <1>1, <3>1, <3>2 DEF PillOK, MainOK, MainSends
      <4>2. queue[i] \in Tasks /\ ~Unsent(queue[i]) /\ queue[i] # msg[t]
        BY <1>0, <1>1, <3>1, <3>2, <4>1 DEF TasksOK, AtOnePlace, MainSends, Messages
      <4> QED
        BY <1>0, <1>1, <3>2, <4>2 DEF MainOK, Unsent, Tasks
    <3>3. CASE t # Main
      BY <1>0, <1>2, <3>3 DEF PillOK, Carries
    <3> QED
      BY <3>2, <3>3
  <2> QED
    BY <1>0, <1>1, <2>1 DEF QueueOrdered
<1>12. PillOK'
  <2>1. CASE t = Main
    <3>1. \A v \in Workers : ~Carries(v)
      <4>1. CASE next <= NumTasks + 1 \/ msg[t] = Pill
        BY <1>0, <1>1, <2>1, <4>1 DEF PillOK, MainSends
      <4>2. CASE ~(next <= NumTasks + 1 \/ msg[t] = Pill)
        BY <1>0, <1>1, <2>1, <4>2 DEF MainOK
      <4> QED
        BY <4>1, <4>2
    <3> QED
      BY <1>0, <1>1, <1>4, <1>5, <1>6, <2>1, <3>1 DEF PillOK, MainOK, MainSends, Tasks, Pill
  <2>2. CASE t # Main
    BY <1>0, <1>1, <1>2, <1>4, <1>5, <1>6, <2>2 DEF PillOK, Carries, Tasks, Pill
  <2> QED
    BY <2>1, <2>2
<1> QED
  BY <1>7, <1>8, <1>9, <1>10, <1>11, <1>12 DEF WorkOK

\* The oldest message of the queue passes into the hands of worker w.
LEMMA PopWork ==
  ASSUME PoolInv, NEW w \in Workers, QueuePop(w)
  PROVE  WorkOK'
<1>0. /\ PoolTypeOK /\ WorkersOK /\ MainOK /\ TasksOK /\ QueueOrdered /\ PillOK
      /\ NumTasks \in Nat
      /\ Main \in Threads /\ \A v \in Workers : v \in Threads /\ v # Main
      /\ msg \in [Threads -> Messages \cup {None}]
  BY PoolAssumption, SameQueue DEF PoolInv, WorkOK, Threads, P!SafeInv, P!TypeOK
<1>a. PICK m : m = Head(queue)
  OBVIOUS
<1>1. /\ Call(w) = "receive" /\ CallBecomes(w, "none")
      /\ queue \in Seq(Messages) /\ queue # << >> /\ queue' = Tail(queue)
      /\ msg' = [msg EXCEPT ![w] = m]
      /\ Size > 0
      /\ UNCHANGED <<next, stopped, executed, joined>>
      /\ wpc' = [wpc EXCEPT ![w] = "copy"] /\ ref' = [ref EXCEPT ![w] = m]
  BY <1>0, <1>a, PopEnds DEF PoolInv, QueuePop
<1>2. wpc[w] = "dequeue"
  BY <1>0, <1>1 DEF WorkersOK
<1>3. /\ Call(Main)' = Call(Main) /\ msg'[Main] = msg[Main]
      /\ Call(w)' = "none" /\ wpc'[w] = "copy" /\ ref'[w] = m
      /\ \A v \in Workers \ {w} : /\ Call(v)' = Call(v) /\ msg'[v] = msg[v]
                                  /\ wpc'[v] = wpc[v] /\ ref'[v] = ref[v]
  BY <1>0, <1>1 DEF CallBecomes, PoolTypeOK
<1>4. /\ m = queue[1] /\ m \in Messages /\ 1 \in 1..Len(queue)
      /\ Len(queue) \in Nat /\ Len(queue') = Len(queue) - 1
      /\ \A i \in 1..Len(queue') : queue'[i] = queue[i + 1] /\ i + 1 \in 2..Len(queue)
  BY <1>1, <1>a
<1>5. InQueue(m) /\ ~InQueue(m)'
  <2>1. ASSUME NEW i \in 1..Len(queue), queue[i] = m, i # 1 PROVE FALSE
    <3>1. 1 < i
      BY <1>4, <2>1
    <3>2. m \in Tasks /\ (m = Pill \/ m < m)
      BY <1>0, <1>4, <2>1, <3>1 DEF QueueOrdered
    <3> QED
      BY <1>0, <3>2 DEF Tasks, Pill
  <2>2. ASSUME NEW i \in 1..Len(queue'), queue'[i] = m PROVE FALSE
    <3>1. queue[i + 1] = m /\ i + 1 \in 1..Len(queue) /\ i + 1 # 1
      BY <1>4, <2>2
    <3> QED
      BY <2>1, <3>1
  <2> QED
    BY <1>4, <2>2 DEF InQueue
<1>6. \A k : k # m => (InQueue(k)' <=> InQueue(k))
  <2> SUFFICES ASSUME NEW k, k # m PROVE InQueue(k)' <=> InQueue(k)
    OBVIOUS
  <2>1. ASSUME NEW i \in 1..Len(queue), queue[i] = k PROVE InQueue(k)'
    <3>1. i - 1 \in 1..Len(queue') /\ queue'[i - 1] = queue[i]
      BY <1>4, <2>1
    <3> QED
      BY <2>1, <3>1 DEF InQueue
  <2> QED
    BY <1>4, <2>1 DEF InQueue
<1>7. /\ \A k : MainSends(k)' <=> MainSends(k)
      /\ \A k, v : v \in Workers => (HeldBy(k, v)' <=> HeldBy(k, v) \/ (v = w /\ k = m))
  BY <1>2, <1>3 DEF MainSends, HeldBy
<1>8. PoolTypeOK'
  BY <1>0, <1>1, <1>4 DEF PoolTypeOK
<1>9. WorkersOK'
  BY <1>0, <1>3, <1>4 DEF WorkersOK
<1>10. MainOK'
  BY <1>0, <1>1, <1>3 DEF MainOK
<1>11. TasksOK'
  <2> SUFFICES ASSUME NEW k \in Tasks PROVE AtOnePlace(k)'
    BY DEF TasksOK
  <2>1. IsHeld(k)' <=> IsHeld(k) \/ k = m
    BY <1>7 DEF IsHeld
  <2>2. AtOnePlace(k)
    BY <1>0 DEF TasksOK
  <2>3. CASE k = m
    <3>1. /\ ~IsHeld(k) /\ ~MainSends(k) /\ ~Unsent(k) /\ executed[k] = 0
          /\ \A v \in Workers : ~HeldBy(k, v)
      BY <1>5, <2>2, <2>3 DEF AtOnePlace, IsHeld
    <3>2. \A v \in Workers : HeldBy(k, v)' <=> v = w
      BY <1>7, <2>3, <3>1
    <3> QED
      BY <1>1, <1>5, <1>7, <2>1, <2>3, <3>1, <3>2 DEF AtOnePlace, Unsent
  <2>4. CASE k # m
    BY <1>1, <1>6, <1>7, <2>1, <2>2, <2>4 DEF AtOnePlace, Unsent
  <2> QED
    BY <2>3, <2>4
<1>12. QueueOrdered'
  BY <1>0, <1>4 DEF QueueOrdered
<1>13. PillOK'
  <2>1. \A v \in Workers : ~Carries(v)
    BY <1>0, <1>1 DEF PillOK
  <2>2. \A v \in Workers : Carries(v)' <=> v = w /\ m = Pill
    BY <1>2, <1>3, <1>7, <2>1 DEF Carries
  <2>3. m = Pill => queue' = << >>
    <3>1. ASSUME Len(queue) > 1 PROVE m \in Tasks
      BY <1>0, <1>4, <3>1 DEF QueueOrdered
    <3> QED
      BY <1>0, <1>1, <1>4, <3>1 DEF Tasks, Pill
  <2>4. CASE m = Pill
    BY <1>0, <1>1, <1>5, <1>6, <1>7, <2>2, <2>3, <2>4 DEF PillOK, Tasks, Pill
  <2>5. CASE m # Pill
    BY <1>0, <1>1, <1>5, <1>6, <1>7, <2>1, <2>2, <2>5 DEF PillOK
  <2> QED
    BY <2>4, <2>5
<1> QED
  BY <1>8, <1>9, <1>10, <1>11, <1>12, <1>13 DEF WorkOK

\* Worker w executes a task: it leaves w's hands and is counted.
LEMMA ExecuteTaskWork ==
  ASSUME PoolInv, NEW w \in Workers, Execute(w), ref[w] # Pill
  PROVE  WorkOK'
<1>a. PICK m : m = ref[w]
  OBVIOUS
<1>0. /\ PoolTypeOK /\ WorkersOK /\ MainOK /\ TasksOK /\ QueueOrdered /\ PillOK
      /\ Main \in Threads /\ \A v \in Workers : v \in Threads /\ v # Main
  BY PoolAssumption DEF PoolInv, WorkOK, Threads
<1>1. /\ wpc[w] = "copy"
      /\ queue' = queue /\ msg' = msg /\ \A t \in Threads : Call(t)' = Call(t)
      /\ executed' = [executed EXCEPT ![m] = @ + 1]
      /\ wpc' = [wpc EXCEPT ![w] = "check"]
      /\ UNCHANGED <<next, ref, stopped, joined>>
  BY <1>a DEF Execute, queueVars, Call
<1>2. m \in Tasks /\ m \in Messages /\ HeldBy(m, w)
  BY <1>0, <1>a, <1>1 DEF WorkersOK, Messages, HeldBy
<1>3. /\ wpc'[w] = "check" /\ executed'[m] = executed[m] + 1
      /\ \A v \in Workers \ {w} : wpc'[v] = wpc[v]
      /\ \A k \in Tasks \ {m} : executed'[k] = executed[k]
  BY <1>0, <1>1, <1>2 DEF PoolTypeOK, Messages
<1>4. /\ \A k : MainSends(k)' <=> MainSends(k)
      /\ \A k : InQueue(k)' <=> InQueue(k)
      /\ \A k, v : v \in Workers => (HeldBy(k, v)' <=> HeldBy(k, v) /\ v # w)
      /\ \A v \in Workers : Carries(v)' <=> Carries(v)
  BY <1>0, <1>a, <1>1, <1>2, <1>3 DEF MainSends, InQueue, HeldBy, Carries, Tasks, Pill
<1>5. PoolTypeOK'
  BY <1>0, <1>1, <1>2 DEF PoolTypeOK
<1>6. WorkersOK'
  BY <1>0, <1>1, <1>3 DEF WorkersOK
<1>7. MainOK'
  BY <1>0, <1>1 DEF MainOK
<1>8. TasksOK'
  <2> SUFFICES ASSUME NEW k \in Tasks PROVE AtOnePlace(k)'
    BY DEF TasksOK
  <2>1. AtOnePlace(k)
    BY <1>0 DEF TasksOK
  <2>2. CASE k = m
    <3>1. /\ executed[k] = 0 /\ ~Unsent(k) /\ ~MainSends(k) /\ ~InQueue(k)
          /\ \A v \in Workers : HeldBy(k, v) => v = w
      BY <1>2, <2>1, <2>2 DEF AtOnePlace, IsHeld
    <3>2. ~IsHeld(k)'
      BY <1>4, <3>1 DEF IsHeld
    <3> QED
      BY <1>1, <1>3, <1>4, <2>2, <3>1, <3>2 DEF AtOnePlace, Unsent, IsHeld
  <2>3. CASE k # m
    <3>1. \A v \in Workers : HeldBy(k, v)' <=> HeldBy(k, v)
      BY <1>2, <1>4, <2>3 DEF HeldBy
    <3>2. IsHeld(k)' <=> IsHeld(k)
      BY <3>1 DEF IsHeld
    <3> QED
      BY <1>1, <1>3, <1>4, <2>1, <2>3, <3>1, <3>2 DEF AtOnePlace, Unsent
  <2> QED
    BY <2>2, <2>3
<1>9. QueueOrdered'
  BY <1>0, <1>1 DEF QueueOrdered
<1>10. PillOK'
  BY <1>0, <1>1, <1>4 DEF PillOK
<1> QED
  BY <1>5, <1>6, <1>7, <1>8, <1>9, <1>10 DEF WorkOK

\* Worker w meets the pill: it sets the flag and goes to put the pill back.
LEMMA ExecutePillWork ==
  ASSUME PoolInv, NEW w \in Workers, Execute(w), ref[w] = Pill
  PROVE  WorkOK'
<1>0. /\ PoolTypeOK /\ WorkersOK /\ MainOK /\ TasksOK /\ QueueOrdered /\ PillOK
      /\ Main \in Threads /\ \A v \in Workers : v \in Threads /\ v # Main
      /\ msg \in [Threads -> Messages \cup {None}]
  BY PoolAssumption, SameQueue DEF PoolInv, WorkOK, Threads, P!SafeInv, P!TypeOK
<1>1. /\ wpc[w] = "copy"
      /\ CallBecomes(w, "send")
      /\ queue' = queue /\ msg' = [msg EXCEPT ![w] = Pill]
      /\ executed' = [executed EXCEPT ![Pill] = @ + 1]
      /\ wpc' = [wpc EXCEPT ![w] = "repost"]
      /\ stopped' = stopped \cup {w}
      /\ UNCHANGED <<next, ref, joined>>
  <2>1. Q!CallEnqueue(w, Pill)
    BY DEF Execute
  <2> QED
    BY <1>0, <2>1, EnqueueBegins DEF PoolInv, Execute
<1>2. /\ wpc'[w] = "repost" /\ Call(w)' = "send" /\ msg'[w] = Pill
      /\ \A v \in Workers \ {w} :
           wpc'[v] = wpc[v] /\ Call(v)' = Call(v) /\ msg'[v] = msg[v]
      /\ Call(Main)' = Call(Main) /\ msg'[Main] = msg[Main]
      /\ \A k \in Tasks : executed'[k] = executed[k]
  BY <1>0, <1>1 DEF PoolTypeOK, CallBecomes, Tasks, Messages, Pill
<1>3. Carries(w)
  BY <1>1 DEF Carries, HeldBy
<1>4. /\ \A k : MainSends(k)' <=> MainSends(k)
      /\ \A k : InQueue(k)' <=> InQueue(k)
      /\ \A k \in Tasks, v \in Workers : HeldBy(k, v)' <=> HeldBy(k, v)
      /\ \A v \in Workers : Carries(v)' <=> Carries(v)
  BY <1>0, <1>1, <1>2, <1>3 DEF MainSends, InQueue, HeldBy, Carries, Tasks, Pill
<1>5. PoolTypeOK'
  BY <1>0, <1>1 DEF PoolTypeOK, Messages
<1>6. WorkersOK'
  BY <1>0, <1>1, <1>2 DEF WorkersOK
<1>7. MainOK'
  BY <1>0, <1>1, <1>2 DEF MainOK
<1>8. TasksOK'
  BY <1>0, <1>1, <1>2, <1>4 DEF TasksOK, AtOnePlace, Unsent, IsHeld
<1>9. QueueOrdered'
  BY <1>0, <1>1 DEF QueueOrdered
<1>10. PillOK'
  <2>1. \A k \in Tasks : ~InQueue(k)
    BY <1>0, <1>3 DEF PillOK, InQueue
  <2>2. ~(next <= NumTasks + 1 \/ MainSends(Pill))
    BY <1>0, <1>3 DEF PillOK
  <2> QED
    BY <1>0, <1>1, <1>4, <2>1, <2>2 DEF PillOK
<1> QED
  BY <1>5, <1>6, <1>7, <1>8, <1>9, <1>10 DEF WorkOK

\* ~ThreadPool, the end of the program, and what the pool does not see.
LEMMA OtherWork ==
  ASSUME PoolInv, \/ MainJoin \/ Finished \/ UNCHANGED vars
                  \/ \E t \in Threads : QueueStep(t) \/ QueueSpurious(t)
  PROVE  WorkOK'
<1>1. CASE MainJoin
  BY <1>1 DEF PoolInv, WorkOK, MainJoin, queueVars, PoolTypeOK, WorkersOK, MainOK, TasksOK,
     QueueOrdered, PillOK, AtOnePlace, Unsent, MainSends, InQueue, HeldBy, IsHeld, Carries, Call
<1>2. CASE Finished \/ UNCHANGED vars
  <2>1. UNCHANGED <<queue, msg>> /\ UNCHANGED poolVars /\ \A u \in Threads : Call(u)' = Call(u)
    BY <1>2 DEF Finished, vars, queueVars, Call
  <2> QED
    BY <2>1, SilentWork DEF PoolInv
<1>3. ASSUME NEW t \in Threads, QueueStep(t) \/ QueueSpurious(t) PROVE WorkOK'
  <2>1. UNCHANGED <<queue, msg>> /\ UNCHANGED poolVars /\ \A u \in Threads : Call(u)' = Call(u)
    BY <1>3, StepIsSilent DEF PoolInv, QueueStep, QueueSpurious
  <2> QED
    BY <2>1, SilentWork DEF PoolInv
<1> QED
  BY <1>1, <1>2, <1>3

LEMMA InitPool == Init => PoolInv
BY QueueInit, InitWork DEF PoolInv

LEMMA NextPool == PoolInv /\ [Next]_vars => PoolInv'
<1> SUFFICES ASSUME PoolInv, [Next]_vars PROVE PoolInv'
  OBVIOUS
<1>1. P!SafeInv'
  BY QueueNext DEF PoolInv, WorkOK
<1>2. WorkOK'
  <2>1. CASE MainEnqueue
    BY <2>1, MainEnqueueWork
  <2>2. ASSUME NEW w \in Workers, WorkerDequeue(w) \/ CheckStop(w) PROVE WorkOK'
    BY <2>2, WorkerMoves
  <2>3. ASSUME NEW w \in Workers, Execute(w) PROVE WorkOK'
    BY <2>3, ExecuteTaskWork, ExecutePillWork
  <2>4. ASSUME NEW w \in Workers, QueuePop(w) PROVE WorkOK'
    BY <2>4, PopWork
  <2>5. ASSUME NEW t \in Threads, QueuePush(t) PROVE WorkOK'
    BY <2>5, PushWork
  <2>6. CASE \/ MainJoin \/ Finished \/ UNCHANGED vars
             \/ \E t \in Threads : QueueStep(t) \/ QueueSpurious(t)
    BY <2>6, OtherWork
  <2> QED
    BY <2>1, <2>2, <2>3, <2>4, <2>5, <2>6 DEF Next, MainStep, WorkerStep
<1> QED
  BY <1>1, <1>2 DEF PoolInv

\* The inductive invariant of the pool and of the queue inside it holds in
\* every reachable state: each message is in one place, and the pill is last.
THEOREM PoolInvariance == Spec => []PoolInv
BY InitPool, NextPool, PTL DEF Spec

--------------------------------------------------------------------------------
\* The counts of EachTaskOnce are those of the places a task can be at.
LEMMA PlacesCounted ==
  ASSUME PoolInv, NEW m \in Tasks
  PROVE  /\ Cardinality(Sending(m)) = IF MainSends(m) THEN 1 ELSE 0
         /\ Cardinality(Queued(m)) = IF InQueue(m) THEN 1 ELSE 0
         /\ Cardinality(Held(m)) = IF IsHeld(m) THEN 1 ELSE 0
<1>0. /\ WorkersOK /\ TasksOK /\ QueueOrdered /\ NumTasks \in Nat
      /\ queue \in Seq(Messages)
      /\ Main \in Threads /\ \A t \in Threads \ {Main} : t \in Workers
  BY PoolAssumption DEF PoolInv, WorkOK, Threads, P!SafeInv, P!TypeOK
<1>1. Cardinality(Sending(m)) = IF MainSends(m) THEN 1 ELSE 0
  <2>1. \A t \in Threads \ {Main} : t \notin Sending(m)
    BY <1>0 DEF Sending, WorkersOK, Call, Tasks, Pill
  <2>2. Sending(m) = IF MainSends(m) THEN {Main} ELSE {}
    BY <1>0, <2>1 DEF Sending, MainSends, Call
  <2> QED
    BY <2>2, FS_EmptySet, FS_Singleton
<1>2. Cardinality(Queued(m)) = IF InQueue(m) THEN 1 ELSE 0
  <2>1. CASE InQueue(m)
    <3>1. PICK i \in 1..Len(queue) : queue[i] = m
      BY <2>1 DEF InQueue
    <3>2. ASSUME NEW j \in 1..Len(queue), queue[j] = m, j # i PROVE FALSE
      <4>1. i < j \/ j < i
        BY <3>2
      <4>2. m = Pill \/ m < m
        BY <1>0, <3>1, <3>2, <4>1 DEF QueueOrdered
      <4> QED
        BY <1>0, <4>2 DEF Tasks, Pill
    <3>3. Queued(m) = {i}
      BY <3>1, <3>2 DEF Queued
    <3> QED
      BY <2>1, <3>3, FS_Singleton
  <2>2. CASE ~InQueue(m)
    <3>1. Queued(m) = {}
      BY <2>2 DEF Queued, InQueue
    <3> QED
      BY <2>2, <3>1, FS_EmptySet
  <2> QED
    BY <2>1, <2>2
<1>3. Cardinality(Held(m)) = IF IsHeld(m) THEN 1 ELSE 0
  <2>1. CASE IsHeld(m)
    <3>1. PICK w \in Workers : HeldBy(m, w)
      BY <2>1 DEF IsHeld
    <3>2. Held(m) = {w}
      BY <1>0, <3>1 DEF Held, Dangling, HeldBy, TasksOK, AtOnePlace
    <3> QED
      BY <2>1, <3>2, FS_Singleton
  <2>2. CASE ~IsHeld(m)
    <3>1. Held(m) = {}
      BY <2>2 DEF Held, Dangling, IsHeld, HeldBy
    <3> QED
      BY <2>2, <3>1, FS_EmptySet
  <2> QED
    BY <2>1, <2>2
<1> QED
  BY <1>1, <1>2, <1>3

(***************************************************************************)
(* The variables of the pool and of its queue keep their types: next stays *)
(* within the messages Main has, the queue within _size.                   *)
(***************************************************************************)
THEOREM PoolTypeCorrect == Spec => []TypeOK
<1>1. PoolInv => TypeOK
  BY SameQueue DEF PoolInv, WorkOK, PoolTypeOK, TypeOK, P!SafeInv, P!TypeOK, Q!TypeOK,
     P!Places, Q!Places
<1> QED
  BY PoolInvariance, <1>1, PTL

(***************************************************************************)
(* No task is lost and none is executed twice, with any number of workers  *)
(* and tasks and a queue of any size.                                      *)
(***************************************************************************)
THEOREM NoTaskLostOrRepeated == Spec => []EachTaskOnce
<1>1. PoolInv => EachTaskOnce
  <2> SUFFICES ASSUME PoolInv, NEW m \in Tasks
               PROVE  (IF Unsent(m) THEN 1 ELSE 0) + Cardinality(Sending(m))
                        + Cardinality(Queued(m)) + Cardinality(Held(m)) + executed[m] = 1
    BY DEF EachTaskOnce
  <2>1. AtOnePlace(m)
    BY DEF PoolInv, WorkOK, TasksOK
  <2>2. Unsent(m) => ~MainSends(m)
    BY PoolAssumption DEF PoolInv, WorkOK, PoolTypeOK, MainOK, MainSends, Unsent, Tasks, Pill
  <2> QED
    BY <2>1, <2>2, PlacesCounted DEF AtOnePlace
<1> QED
  BY PoolInvariance, <1>1, PTL

(***************************************************************************)
(* Once the flag _threadPoolStop is set anywhere, no task is left for the  *)
(* workers that leave because of it: the pill came out of the queue last.  *)
(***************************************************************************)
THEOREM NoTaskAfterClosing == Spec => []ClosedAfterLastTask
<1>1. PoolInv => ClosedAfterLastTask
  <2> SUFFICES ASSUME PoolInv, stopped # {}, NEW m \in Tasks
               PROVE  Cardinality(Held(m)) + executed[m] = 1
    BY DEF ClosedAfterLastTask
  <2>1. ~(next <= NumTasks + 1 \/ MainSends(Pill)) /\ ~InQueue(m)
    BY DEF PoolInv, WorkOK, PillOK
  <2>2. ~Unsent(m) /\ ~MainSends(m)
    BY PoolAssumption, <2>1
       DEF PoolInv, WorkOK, PoolTypeOK, MainOK, MainSends, Unsent, Tasks, Pill
  <2>3. AtOnePlace(m)
    BY DEF PoolInv, WorkOK, TasksOK
  <2> QED
    BY <2>1, <2>2, <2>3, PlacesCounted DEF AtOnePlace
<1> QED
  BY PoolInvariance, <1>1, PTL

(***************************************************************************)
(* The Enqueue with which a worker puts the pill back never blocks: the    *)
(* pill left an empty queue behind, and there was room for it before.      *)
(***************************************************************************)
THEOREM RepostHasRoom == Spec => []RepostNeverWaits
<1>1. PoolInv => RepostNeverWaits
  <2> SUFFICES ASSUME PoolInv, NEW w \in Workers, wpc[w] = "repost" PROVE ~Q!Full
    BY DEF RepostNeverWaits
  <2>1. queue = << >> /\ Size > 0
    BY DEF PoolInv, WorkOK, PillOK, Carries
  <2> QED
    BY <2>1, PoolAssumption DEF Q!Full
<1> QED
  BY PoolInvariance, <1>1, PTL

(***************************************************************************)
(* The pool uses its queue as the class allows: its threads see the calls  *)
(* of a FIFO channel of capacity _size, so that what is proved of          *)
(* MessageQueue for its own callers holds for the pool.                    *)
(***************************************************************************)
THEOREM PoolUsesChannel == Spec => P!ImplementsChannel
<1>1. Init => P!Init
  BY SameQueue DEF Init
<1>2. PoolInv => PoolTypeOK
  BY DEF PoolInv, WorkOK
<1>3. Spec => P!Spec
  BY PoolInvariance, QueueStepped, <1>1, <1>2, PTL DEF Spec, P!Spec
<1> QED
  BY <1>3, P!Linearizable, QueueAssumptions

================================================================================
