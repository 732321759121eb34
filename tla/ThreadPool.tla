------------------------------ MODULE ThreadPool ------------------------------
(***************************************************************************)
(* The thread pool of MultiThreadsInC++11/story-4-LeaderAndFollower: the   *)
(* main thread enqueues NumTasks tasks and then a task with negative money *)
(* (the pill); each worker executes tasks until it meets the pill, which   *)
(* it puts back for the others, or sees the flag _threadPoolStop.          *)
(*                                                                         *)
(* The queue is the class MsgQueue of the same file, whose locking is that *)
(* of MessageQueue, with one difference: Dequeue returns a reference to    *)
(* the element it has just popped, and the worker copies the element after *)
(* the mutex is released.  ref[w] is what that reference names: it still   *)
(* is the popped task, because the 14 messages at most of the file's own   *)
(* test never come back to a freed slot of the deque.                      *)
(***************************************************************************)
EXTENDS Integers, Sequences, FiniteSets

CONSTANTS
  Main,       \* the thread that runs TestLeaderFollower
  Workers,    \* the threads of the pool
  NumTasks,   \* how many tasks Main enqueues
  Size,       \* _size of the queue
  None

ASSUME PoolAssumption ==
  /\ IsFiniteSet(Workers)
  /\ Main \notin Workers
  /\ None \notin Workers \cup {Main}
  /\ NumTasks \in Nat
  /\ Size \in Nat

VARIABLES
  queue, mutex, pc, msg,  \* of the queue, see MessageQueue
  next,       \* the next message Main sends; NumTasks + 2 when all are sent
  wpc,        \* wpc[w]: where worker w is in ExecuteTask
  ref,        \* ref[w]: what the reference w got from Dequeue points to
  stopped,    \* the workers that have set _threadPoolStop
  executed,   \* executed[m]: how often message m was executed
  joined      \* the destructor of the pool has joined every worker

queueVars == <<queue, mutex, pc, msg>>
poolVars == <<next, wpc, ref, stopped, executed, joined>>
vars == <<queueVars, poolVars>>

Tasks == 1..NumTasks

\* The task whose _money is negative.
Pill == 0

Messages == Tasks \cup {Pill}

Threads == Workers \cup {Main}

Q == INSTANCE MessageQueue
  WITH Producers <- Threads, Consumers <- Workers, Msgs <- Messages, Limit <- Size

Init ==
  /\ Q!Init
  /\ next = 1
  /\ wpc = [w \in Workers |-> "loop"]
  /\ ref = [w \in Workers |-> None]
  /\ stopped = {}
  /\ executed = [m \in Messages |-> 0]
  /\ joined = FALSE

--------------------------------------------------------------------------------
\* Mutant of MainEnqueue: the Bank Closed task is sent twice.
MainEnqueueTwice ==
  /\ next <= NumTasks + 2
  /\ Q!CallEnqueue(Main, IF next <= NumTasks THEN next ELSE Pill)
  /\ next' = next + 1
  /\ UNCHANGED <<wpc, ref, stopped, executed, joined>>

\* Mutant of MainEnqueue: the Bank Closed task is sent before the others.
MainEnqueuePillFirst ==
  /\ next <= NumTasks + 1
  /\ Q!CallEnqueue(Main, IF next = 1 THEN Pill ELSE next - 1)
  /\ next' = next + 1
  /\ UNCHANGED <<wpc, ref, stopped, executed, joined>>

\* The loop that enqueues the tasks, then the Bank Closed task.
MainEnqueue ==
  /\ next <= NumTasks + 1
  /\ Q!CallEnqueue(Main, IF next <= NumTasks THEN next ELSE Pill)
  /\ next' = next + 1
  /\ UNCHANGED <<wpc, ref, stopped, executed, joined>>

\* ~ThreadPool returns when every worker has been joined.
MainJoin ==
  /\ next = NumTasks + 2
  /\ pc[Main] = "idle"
  /\ ~joined
  /\ \A w \in Workers : wpc[w] = "done"
  /\ joined' = TRUE
  /\ UNCHANGED <<queueVars, next, wpc, ref, stopped, executed>>

WorkerDequeue(w) ==
  /\ wpc[w] = "loop"
  /\ Q!CallDequeue(w)
  /\ wpc' = [wpc EXCEPT ![w] = "dequeue"]
  /\ UNCHANGED <<next, ref, stopped, executed, joined>>

\* The steps inside the queue that only its own threads can tell.
QueueStep(t) ==
  /\ Q!Acquire(t) \/ Q!TestFull(t) \/ Q!TestEmpty(t)
  /\ UNCHANGED poolVars

QueueSpurious(t) ==
  /\ Q!SpuriousWakeup(t)
  /\ UNCHANGED poolVars

\* Workers that have a reference to a popped element and have not copied it.
Dangling == {w \in Workers : wpc[w] = "copy"}

\* A worker's Enqueue is the one that puts the pill back.
QueuePush(t) ==
  /\ Q!Push(t)
  /\ wpc' = [w \in Workers |-> IF w = t THEN "check" ELSE wpc[w]]
  /\ UNCHANGED <<next, ref, stopped, executed, joined>>

\* Mutant of QueuePop: front() is called after pop().
QueuePopSlides(w) ==
  /\ Q!Pop(w)
  /\ ref' = [ref EXCEPT ![w] = IF Len(queue) > 1 THEN queue[2] ELSE queue[1]]
  /\ wpc' = [wpc EXCEPT ![w] = "copy"]
  /\ UNCHANGED <<next, stopped, executed, joined>>

QueuePop(w) ==
  /\ Q!Pop(w)
  /\ ref' = [ref EXCEPT ![w] = Head(queue)]
  /\ wpc' = [wpc EXCEPT ![w] = "copy"]
  /\ UNCHANGED <<next, stopped, executed, joined>>

\* Mutant of Execute: the pill is not put back.
ExecuteNoRepost(w) ==
  /\ wpc[w] = "copy"
  /\ executed' = [executed EXCEPT ![ref[w]] = @ + 1]
  /\ stopped' = IF ref[w] = Pill THEN stopped \cup {w} ELSE stopped
  /\ wpc' = [wpc EXCEPT ![w] = "check"]
  /\ UNCHANGED <<queueVars, next, ref, joined>>

\* The task is copied through the reference and executed; if it is the pill
\* the flag is set, without any lock, and the pill is put back.
Execute(w) ==
  /\ wpc[w] = "copy"
  /\ executed' = [executed EXCEPT ![ref[w]] = @ + 1]
  /\ IF ref[w] = Pill
       THEN /\ stopped' = stopped \cup {w}
            /\ Q!CallEnqueue(w, Pill)
            /\ wpc' = [wpc EXCEPT ![w] = "repost"]
       ELSE /\ wpc' = [wpc EXCEPT ![w] = "check"]
            /\ UNCHANGED <<queueVars, stopped>>
  /\ UNCHANGED <<next, ref, joined>>

\* What a worker may read from _threadPoolStop, a plain bool: its own write is
\* seen, the write of another worker is seen or is not.
StopSeen(w) ==
  IF w \in stopped THEN {TRUE}
  ELSE IF stopped = {} THEN {FALSE} ELSE BOOLEAN

CheckStop(w) ==
  /\ wpc[w] = "check"
  /\ \E stop \in StopSeen(w) :
       wpc' = [wpc EXCEPT ![w] = IF stop THEN "done" ELSE "loop"]
  /\ UNCHANGED <<queueVars, next, ref, stopped, executed, joined>>

\* The program has ended.
Finished == joined /\ UNCHANGED vars

MainStep == MainEnqueue \/ MainJoin

WorkerStep(w) == WorkerDequeue(w) \/ Execute(w) \/ CheckStop(w)

Next ==
  \/ MainStep
  \/ \E w \in Workers : WorkerStep(w) \/ QueuePop(w)
  \/ \E t \in Threads : QueueStep(t) \/ QueuePush(t) \/ QueueSpurious(t)
  \/ Finished

Spec == Init /\ [][Next]_vars

(***************************************************************************)
(* Every thread keeps running, and one blocked on the mutex is not passed  *)
(* over for ever.  Nothing makes a spurious wake-up happen, and nothing    *)
(* makes the write of _threadPoolStop visible to another worker.           *)
(***************************************************************************)
Fairness ==
  /\ WF_vars(MainStep)
  /\ \A w \in Workers : WF_vars(WorkerStep(w) \/ QueuePop(w))
  /\ \A t \in Threads : SF_vars(QueueStep(t)) /\ WF_vars(QueuePush(t))

FairSpec == Spec /\ Fairness

--------------------------------------------------------------------------------
(***************************************************************************)
(* The variables have their types, and Main sends each message once.       *)
(***************************************************************************)
TypeOK ==
  /\ Q!TypeOK
  /\ next \in 1..NumTasks + 2
  /\ wpc \in [Workers -> {"loop", "dequeue", "copy", "repost", "check", "done"}]
  /\ ref \in [Workers -> Messages \cup {None}]
  /\ stopped \subseteq Workers
  /\ executed \in [Messages -> Nat]
  /\ joined \in BOOLEAN

\* Where message m is, besides being executed.
Unsent(m) == m \in Tasks /\ m >= next
Sending(m) == {t \in Threads : msg[t] = m /\ Q!CallOf(pc[t]) = "send"}
Queued(m) == {i \in 1..Len(queue) : queue[i] = m}
Held(m) == {w \in Dangling : ref[w] = m}

(***************************************************************************)
(* No task is lost and none is executed twice: at every instant a task is  *)
(* at exactly one place on its way from Main through the queue to the one  *)
(* worker that executes it.                                                *)
(***************************************************************************)
EachTaskOnce ==
  \A m \in Tasks :
    (IF Unsent(m) THEN 1 ELSE 0) + Cardinality(Sending(m))
      + Cardinality(Queued(m)) + Cardinality(Held(m)) + executed[m] = 1

(***************************************************************************)
(* The bank does not close on a customer: once a worker may see the flag   *)
(* _threadPoolStop, every task has been taken out of the queue, although   *)
(* the flag is read without a lock and by workers that never met the pill. *)
(***************************************************************************)
ClosedAfterLastTask ==
  stopped # {} =>
    \A m \in Tasks : Cardinality(Held(m)) + executed[m] = 1

(***************************************************************************)
(* A worker that puts the pill back never waits for room: no one else      *)
(* would be left to make any.                                              *)
(***************************************************************************)
RepostNeverWaits ==
  \A w \in Workers : wpc[w] = "repost" => ~(pc[w] = "enqTest" /\ Q!Full)

(***************************************************************************)
(* The pool shuts down, with every task executed once and one pill left in *)
(* the queue, although a worker may never see the flag another one set.    *)
(***************************************************************************)
ShutsDown ==
  <>[](joined /\ queue = <<Pill>> /\ \A m \in Tasks : executed[m] = 1)
================================================================================
