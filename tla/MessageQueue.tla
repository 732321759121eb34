----------------------------- MODULE MessageQueue -----------------------------
(***************************************************************************)
(* The class MessageQueue of                                               *)
(* MultiThreadsInC++11/story-3-ThreadSafeMessageQueue: a queue bounded by  *)
(* _limit, one mutex, one condition variable for producers (_enqCv) and    *)
(* one for consumers (_deqCv).  A call is cut where another thread can get *)
(* in between: taking the mutex, the test of the queue's size, and the     *)
(* update with its notify_one.  A condition variable is the set of threads *)
(* waiting in it, so it is read off pc.                                    *)
(***************************************************************************)
EXTENDS Integers, Sequences, FiniteSets

CONSTANTS
  Producers,  \* threads that call enqueue
  Consumers,  \* threads that call dequeue (a thread may do both)
  Msgs,       \* the messages
  Limit,      \* _limit, an int
  None        \* no thread, and no message

ASSUME ThreadsAssumption ==
  /\ IsFiniteSet(Producers)
  /\ IsFiniteSet(Consumers)
  /\ None \notin Producers \cup Consumers

ASSUME LimitAssumption == Limit \in Int

VARIABLES
  queue,      \* _queue
  mutex,      \* the thread that holds _mutex, or None
  pc,         \* pc[t]: where thread t is
  msg         \* msg[t]: the argument of t's enqueue, the result of its dequeue

vars == <<queue, mutex, pc, msg>>

Threads == Producers \cup Consumers

At(places) == {t \in Threads : pc[t] \in places}

\* Mutant of Full: the comparison lets one message too many in.
FullOffByOne == Limit >= 0 /\ Len(queue) > Limit

\* The size test of enqueue.  size() is a size_t, so _limit is converted to
\* one: a negative limit is larger than any size a queue reaches.
Full == Limit >= 0 /\ Len(queue) >= Limit

Init ==
  /\ queue = << >>
  /\ mutex = None
  /\ pc = [t \in Threads |-> "idle"]
  /\ msg = [t \in Threads |-> None]

--------------------------------------------------------------------------------
CallEnqueue(t, m) ==
  /\ pc[t] = "idle"
  /\ pc' = [pc EXCEPT ![t] = "enqLock"]
  /\ msg' = [msg EXCEPT ![t] = m]
  /\ UNCHANGED <<queue, mutex>>

CallDequeue(t) ==
  /\ pc[t] = "idle"
  /\ pc' = [pc EXCEPT ![t] = "deqLock"]
  /\ UNCHANGED <<queue, mutex, msg>>

\* Mutant of Acquire: wait() without a predicate, so no test after a wake-up.
AcquireNoRetest(t) ==
  /\ mutex = None
  /\ \/ pc[t] = "enqLock" /\ pc' = [pc EXCEPT ![t] = "enqTest"]
     \/ pc[t] = "deqLock" /\ pc' = [pc EXCEPT ![t] = "deqTest"]
     \/ pc[t] = "enqWoken" /\ pc' = [pc EXCEPT ![t] = "push"]
     \/ pc[t] = "deqWoken" /\ pc' = [pc EXCEPT ![t] = "pop"]
  /\ mutex' = t
  /\ UNCHANGED <<queue, msg>>

\* The unique_lock takes the mutex on entry, and condition_variable::wait
\* takes it again before it returns; both lead to a test of the queue.
Acquire(t) ==
  /\ mutex = None
  /\ \/ pc[t] \in {"enqLock", "enqWoken"} /\ pc' = [pc EXCEPT ![t] = "enqTest"]
     \/ pc[t] \in {"deqLock", "deqWoken"} /\ pc' = [pc EXCEPT ![t] = "deqTest"]
  /\ mutex' = t
  /\ UNCHANGED <<queue, msg>>

\* notify_one: t goes on to next, and one waiter of the condition variable,
\* any of them, is woken; with no waiter the notification is lost.
NotifyOne(t, next, waiting, woken) ==
  \/ /\ At({waiting}) = {}
     /\ pc' = [pc EXCEPT ![t] = next]
  \/ \E w \in At({waiting}) : pc' = [pc EXCEPT ![t] = next, ![w] = woken]

\* The if of enqueue, and the predicate of its wait each time it is woken.
TestFull(t) ==
  /\ pc[t] = "enqTest"
  /\ IF Full
       THEN /\ pc' = [pc EXCEPT ![t] = "enqWait"]
            /\ mutex' = None
       ELSE /\ pc' = [pc EXCEPT ![t] = "push"]
            /\ UNCHANGED mutex
  /\ UNCHANGED <<queue, msg>>

\* Mutant of Push: it notifies only when the queue stops being empty.
PushNotifyFirst(t) ==
  /\ pc[t] = "push"
  /\ queue' = Append(queue, msg[t])
  /\ IF queue = << >>
       THEN NotifyOne(t, "idle", "deqWait", "deqWoken")
       ELSE pc' = [pc EXCEPT ![t] = "idle"]
  /\ mutex' = None
  /\ UNCHANGED msg

Push(t) ==
  /\ pc[t] = "push"
  /\ queue' = Append(queue, msg[t])
  /\ NotifyOne(t, "idle", "deqWait", "deqWoken")
  /\ mutex' = None
  /\ UNCHANGED msg

\* The if of dequeue, and the predicate of its wait each time it is woken.
TestEmpty(t) ==
  /\ pc[t] = "deqTest"
  /\ IF queue = << >>
       THEN /\ pc' = [pc EXCEPT ![t] = "deqWait"]
            /\ mutex' = None
       ELSE /\ pc' = [pc EXCEPT ![t] = "pop"]
            /\ UNCHANGED mutex
  /\ UNCHANGED <<queue, msg>>

\* Mutant of Pop: it takes the newest message.
PopBack(t) ==
  /\ pc[t] = "pop"
  /\ msg' = [msg EXCEPT ![t] = queue[Len(queue)]]
  /\ queue' = SubSeq(queue, 1, Len(queue) - 1)
  /\ NotifyOne(t, "idle", "enqWait", "enqWoken")
  /\ mutex' = None

\* Mutant of Pop: it does not notify the producers.
PopSilent(t) ==
  /\ pc[t] = "pop"
  /\ msg' = [msg EXCEPT ![t] = Head(queue)]
  /\ queue' = Tail(queue)
  /\ pc' = [pc EXCEPT ![t] = "idle"]
  /\ mutex' = None

\* front() copied into the result, pop(), notify_one, unlock on return.
Pop(t) ==
  /\ pc[t] = "pop"
  /\ msg' = [msg EXCEPT ![t] = Head(queue)]
  /\ queue' = Tail(queue)
  /\ NotifyOne(t, "idle", "enqWait", "enqWoken")
  /\ mutex' = None

\* A condition variable may wake a waiter that nobody notified.
SpuriousWakeup(t) ==
  /\ \/ pc[t] = "enqWait" /\ pc' = [pc EXCEPT ![t] = "enqWoken"]
     \/ pc[t] = "deqWait" /\ pc' = [pc EXCEPT ![t] = "deqWoken"]
  /\ UNCHANGED <<queue, mutex, msg>>

Step(t) ==
  \/ Acquire(t)
  \/ TestFull(t)
  \/ Push(t)
  \/ TestEmpty(t)
  \/ Pop(t)

Next ==
  \/ \E t \in Producers, m \in Msgs : CallEnqueue(t, m)
  \/ \E t \in Consumers : CallDequeue(t)
  \/ \E t \in Threads : Step(t) \/ SpuriousWakeup(t)

Spec == Init /\ [][Next]_vars

(***************************************************************************)
(* A thread that runs inside a call keeps running, and a thread blocked on *)
(* the mutex is not passed over for ever: every holder gives it up after   *)
(* two steps, so the mutex is free again and again.  Nothing is assumed of *)
(* the callers, which may stop calling, nor of spurious wake-ups.          *)
(***************************************************************************)
Fairness ==
  \A t \in Threads :
    /\ WF_vars(TestFull(t) \/ Push(t) \/ TestEmpty(t) \/ Pop(t))
    /\ SF_vars(Acquire(t))

FairSpec == Spec /\ Fairness

--------------------------------------------------------------------------------
Places ==
  {"idle", "enqLock", "enqTest", "enqWait", "enqWoken", "push",
   "deqLock", "deqTest", "deqWait", "deqWoken", "pop"}

(***************************************************************************)
(* The variables have their types, and the queue never holds more messages *)
(* than _limit allows.                                                     *)
(***************************************************************************)
TypeOK ==
  /\ queue \in Seq(Msgs)
  /\ mutex \in Threads \cup {None}
  /\ pc \in [Threads -> Places]
  /\ msg \in [Threads -> Msgs \cup {None}]
  /\ Limit >= 0 => Len(queue) <= Limit

(***************************************************************************)
(* front() and pop() are never called on an empty std::queue, where they   *)
(* are undefined, and push is never called on a full queue: whatever was   *)
(* tested, by the if or by the predicate after a wake-up, still holds when *)
(* the thread acts on it.                                                  *)
(***************************************************************************)
TestStillHolds ==
  \A t \in Threads :
    /\ pc[t] = "pop" => queue # << >>
    /\ pc[t] = "push" => ~Full

(***************************************************************************)
(* No wake-up is lost.  While a consumer waits in _deqCv there are at      *)
(* least as many consumers on their way to the queue, woken or holding the *)
(* mutex, as there are messages; while a producer waits in _enqCv there    *)
(* are as many producers on their way as there are free places.  This is   *)
(* what makes one notify_one per message and per free place enough.        *)
(***************************************************************************)
NoLostWakeup ==
  /\ At({"deqWait"}) # {} =>
       Len(queue) <= Cardinality(At({"deqWoken", "deqTest", "pop"}))
  /\ At({"enqWait"}) # {} =>
       Limit - Len(queue) <= Cardinality(At({"enqWoken", "enqTest", "push"}))

(***************************************************************************)
(* The queue implements a FIFO channel of capacity _limit: a call takes    *)
(* effect at its push or its pop, and everything else the threads do, with *)
(* the mutex and the condition variables, is invisible to the callers.     *)
(***************************************************************************)
CallOf(place) ==
  CASE place = "idle" -> "none"
    [] place \in {"enqLock", "enqTest", "enqWait", "enqWoken", "push"} -> "send"
    [] OTHER -> "receive"

Channel == INSTANCE FifoChannel
  WITH Senders <- Producers, Receivers <- Consumers, Values <- Msgs,
       Capacity <- Limit, NoValue <- None,
       chan <- queue, call <- [t \in Threads |-> CallOf(pc[t])], val <- msg

ImplementsChannel == Channel!Spec

(***************************************************************************)
(* It implements the channel's progress too, the numbered promises of the  *)
(* file's opening comment: when the queue is not empty a consumer wakes    *)
(* and takes the message, when it is not full a blocked producer goes on.  *)
(***************************************************************************)
ImplementsFairChannel == Channel!FairSpec
================================================================================
