-------------------------- MODULE MessageQueueProofs --------------------------
(***************************************************************************)
(* Proofs about MessageQueue, for every number of threads, every set of    *)
(* messages and every _limit.                                              *)
(***************************************************************************)
EXTENDS MessageQueue, FiniteSetTheorems, TLAPS

Sending == {"enqLock", "enqTest", "enqWait", "enqWoken", "push"}

Receiving == {"deqLock", "deqTest", "deqWait", "deqWoken", "pop"}

Holding == {"enqTest", "push", "deqTest", "pop"}

\* A thread is inside the critical section exactly when it holds the mutex.
MutexHeld == \A t \in Threads : pc[t] \in Holding <=> mutex = t

\* A thread in enqueue is a producer with a message, one in dequeue a consumer.
CallsOK ==
  \A t \in Threads :
    /\ pc[t] \in Sending => t \in Producers /\ msg[t] \in Msgs
    /\ pc[t] \in Receiving => t \in Consumers

(***************************************************************************)
(* The part of the inductive invariant that does not count threads: types, *)
(* the mutex discipline, and what a thread tested before it acts.          *)
(***************************************************************************)
SafeInv == TypeOK /\ MutexHeld /\ CallsOK /\ TestStillHolds

--------------------------------------------------------------------------------
\* Sets of threads are finite, so their cardinalities are numbers.
LEMMA AtFinite ==
  ASSUME NEW P
  PROVE  /\ IsFiniteSet(At(P))
         /\ Cardinality(At(P)) \in Nat
<1>1. IsFiniteSet(Threads)
  BY ThreadsAssumption, FS_Union DEF Threads
<1>2. At(P) \subseteq Threads
  BY DEF At
<1> QED
  BY <1>1, <1>2, FS_Subset, FS_CardinalityType

LEMMA InitSafe == Init => SafeInv
<1> SUFFICES ASSUME Init PROVE SafeInv
  OBVIOUS
<1> USE ThreadsAssumption, LimitAssumption DEF Init, Threads
<1>1. TypeOK
  BY DEF TypeOK, Places
<1>2. MutexHeld
  BY DEF MutexHeld, Holding
<1>3. CallsOK
  BY DEF CallsOK, Sending, Receiving
<1>4. TestStillHolds
  BY DEF TestStillHolds
<1> QED
  BY <1>1, <1>2, <1>3, <1>4 DEF SafeInv

\* What notify_one does to pc: the caller goes on, and one waiter, if there is
\* one, is woken.
LEMMA PushWakes ==
  ASSUME pc \in [Threads -> Places], NEW t \in Threads, Push(t)
  PROVE  /\ pc[t] = "push"
         /\ pc' \in [Threads -> Places]
         /\ pc'[t] = "idle"
         /\ \A u \in Threads \ {t} :
              pc'[u] = pc[u] \/ (pc[u] = "deqWait" /\ pc'[u] = "deqWoken")
         /\ At({"deqWait"}) # {} =>
              \E w \in Threads : pc[w] = "deqWait" /\ pc'[w] = "deqWoken"
<1>1. CASE At({"deqWait"}) = {} /\ pc' = [pc EXCEPT ![t] = "idle"]
  BY <1>1 DEF Push, Places
<1>2. ASSUME NEW w \in At({"deqWait"}),
             pc' = [pc EXCEPT ![t] = "idle", ![w] = "deqWoken"]
      PROVE  \E v \in Threads : pc[v] = "deqWait" /\ pc'[v] = "deqWoken"
  BY <1>2 DEF Push, Places, At
<1>3. ASSUME NEW w \in At({"deqWait"}),
             pc' = [pc EXCEPT ![t] = "idle", ![w] = "deqWoken"]
      PROVE  /\ pc' \in [Threads -> Places]
             /\ pc'[t] = "idle"
             /\ \A u \in Threads \ {t} :
                  pc'[u] = pc[u] \/ (pc[u] = "deqWait" /\ pc'[u] = "deqWoken")
  BY <1>3 DEF Push, Places, At
<1> QED
  BY <1>1, <1>2, <1>3 DEF Push, NotifyOne

LEMMA PopWakes ==
  ASSUME pc \in [Threads -> Places], NEW t \in Threads, Pop(t)
  PROVE  /\ pc[t] = "pop"
         /\ pc' \in [Threads -> Places]
         /\ pc'[t] = "idle"
         /\ \A u \in Threads \ {t} :
              pc'[u] = pc[u] \/ (pc[u] = "enqWait" /\ pc'[u] = "enqWoken")
         /\ At({"enqWait"}) # {} =>
              \E w \in Threads : pc[w] = "enqWait" /\ pc'[w] = "enqWoken"
<1>1. CASE At({"enqWait"}) = {} /\ pc' = [pc EXCEPT ![t] = "idle"]
  BY <1>1 DEF Pop, Places
<1>2. ASSUME NEW w \in At({"enqWait"}),
             pc' = [pc EXCEPT ![t] = "idle", ![w] = "enqWoken"]
      PROVE  \E v \in Threads : pc[v] = "enqWait" /\ pc'[v] = "enqWoken"
  BY <1>2 DEF Pop, Places, At
<1>3. ASSUME NEW w \in At({"enqWait"}),
             pc' = [pc EXCEPT ![t] = "idle", ![w] = "enqWoken"]
      PROVE  /\ pc' \in [Threads -> Places]
             /\ pc'[t] = "idle"
             /\ \A u \in Threads \ {t} :
                  pc'[u] = pc[u] \/ (pc[u] = "enqWait" /\ pc'[u] = "enqWoken")
  BY <1>3 DEF Pop, Places, At
<1> QED
  BY <1>1, <1>2, <1>3 DEF Pop, NotifyOne

\* A step preserves SafeInv: one step of the proof per action.
LEMMA NextSafe == SafeInv /\ [Next]_vars => SafeInv'
<1> SUFFICES ASSUME SafeInv, [Next]_vars PROVE SafeInv'
  OBVIOUS
<1> USE ThreadsAssumption, LimitAssumption
    DEF SafeInv, Sending, Receiving, Holding
<1>1. ASSUME NEW t \in Producers, NEW m \in Msgs, CallEnqueue(t, m) PROVE SafeInv'
  <2> USE <1>1 DEF CallEnqueue
  <2>1. TypeOK'
    BY DEF TypeOK, Places
  <2>2. MutexHeld'
    BY DEF TypeOK, MutexHeld, Threads
  <2>3. CallsOK'
    BY DEF TypeOK, CallsOK
  <2>4. TestStillHolds'
    BY DEF TypeOK, MutexHeld, TestStillHolds, Full
  <2> QED
    BY <2>1, <2>2, <2>3, <2>4
<1>2. ASSUME NEW t \in Consumers, CallDequeue(t) PROVE SafeInv'
  <2> USE <1>2 DEF CallDequeue
  <2>1. TypeOK'
    BY DEF TypeOK, Places
  <2>2. MutexHeld'
    BY DEF TypeOK, MutexHeld, Threads
  <2>3. CallsOK'
    BY DEF TypeOK, CallsOK
  <2>4. TestStillHolds'
    BY DEF TypeOK, MutexHeld, TestStillHolds, Full
  <2> QED
    BY <2>1, <2>2, <2>3, <2>4
<1>3. ASSUME NEW t \in Threads, Acquire(t) PROVE SafeInv'
  <2> USE <1>3 DEF Acquire
  <2>1. TypeOK'
    BY DEF TypeOK, Places
  <2>2. MutexHeld'
    BY DEF TypeOK, MutexHeld, Threads
  <2>3. CallsOK'
    BY DEF TypeOK, CallsOK
  <2>4. TestStillHolds'
    BY DEF TypeOK, MutexHeld, TestStillHolds, Full
  <2> QED
    BY <2>1, <2>2, <2>3, <2>4
<1>4. ASSUME NEW t \in Threads, TestFull(t) PROVE SafeInv'
  <2> USE <1>4 DEF TestFull
  <2>1. TypeOK'
    BY DEF TypeOK, Places
  <2>2. MutexHeld'
    BY DEF TypeOK, MutexHeld, Threads
  <2>3. CallsOK'
    BY DEF TypeOK, CallsOK
  <2>4. TestStillHolds'
    BY DEF TypeOK, MutexHeld, TestStillHolds, Full
  <2> QED
    BY <2>1, <2>2, <2>3, <2>4
<1>5. ASSUME NEW t \in Threads, TestEmpty(t) PROVE SafeInv'
  <2> USE <1>5 DEF TestEmpty
  <2>1. TypeOK'
    BY DEF TypeOK, Places
  <2>2. MutexHeld'
    BY DEF TypeOK, MutexHeld, Threads
  <2>3. CallsOK'
    BY DEF TypeOK, CallsOK
  <2>4. TestStillHolds'
    BY DEF TypeOK, MutexHeld, TestStillHolds, Full
  <2> QED
    BY <2>1, <2>2, <2>3, <2>4
<1>6. ASSUME NEW t \in Threads, SpuriousWakeup(t) PROVE SafeInv'
  <2> USE <1>6 DEF SpuriousWakeup
  <2>1. TypeOK'
    BY DEF TypeOK, Places
  <2>2. MutexHeld'
    BY DEF TypeOK, MutexHeld, Threads
  <2>3. CallsOK'
    BY DEF TypeOK, CallsOK
  <2>4. TestStillHolds'
    BY DEF TypeOK, MutexHeld, TestStillHolds, Full
  <2> QED
    BY <2>1, <2>2, <2>3, <2>4
<1>7. ASSUME NEW t \in Threads, Push(t) PROVE SafeInv'
  <2>1. /\ pc[t] = "push"
        /\ pc' \in [Threads -> Places]
        /\ pc'[t] = "idle"
        /\ \A u \in Threads \ {t} :
             pc'[u] = pc[u] \/ (pc[u] = "deqWait" /\ pc'[u] = "deqWoken")
    BY <1>7, PushWakes DEF TypeOK
  <2>2. TypeOK'
    <3>1. queue' \in Seq(Msgs) /\ (Limit >= 0 => Len(queue') <= Limit)
      BY <1>7 DEF Push, TypeOK, TestStillHolds, CallsOK, Full
    <3>2. mutex' = None /\ msg' \in [Threads -> Msgs \cup {None}]
      BY <1>7 DEF Push, TypeOK, TestStillHolds
    <3> QED
      BY <2>1, <3>1, <3>2 DEF TypeOK
  <2>3. MutexHeld'
    <3>1. mutex = t /\ mutex' = None
      BY <1>7 DEF Push, MutexHeld
    <3> QED
      BY <2>1, <3>1 DEF MutexHeld, Threads
  <2>4. CallsOK'
    <3>1. \A u \in Threads \ {t} : msg'[u] = msg[u]
      BY <1>7 DEF Push, TypeOK
    <3> QED
      BY <2>1, <3>1 DEF CallsOK
  <2>5. TestStillHolds'
    <3>1. \A u \in Threads : pc'[u] \notin Holding
      BY <1>7, <2>1 DEF Push, MutexHeld
    <3> QED
      BY <3>1 DEF TestStillHolds
  <2> QED
    BY <2>2, <2>3, <2>4, <2>5
<1>8. ASSUME NEW t \in Threads, Pop(t) PROVE SafeInv'
  <2>1. /\ pc[t] = "pop"
        /\ pc' \in [Threads -> Places]
        /\ pc'[t] = "idle"
        /\ \A u \in Threads \ {t} :
             pc'[u] = pc[u] \/ (pc[u] = "enqWait" /\ pc'[u] = "enqWoken")
    BY <1>8, PopWakes DEF TypeOK
  <2>2. TypeOK'
    <3>1. queue' \in Seq(Msgs) /\ (Limit >= 0 => Len(queue') <= Limit)
      BY <1>8 DEF Pop, TypeOK, TestStillHolds, CallsOK, Full
    <3>2. mutex' = None /\ msg' \in [Threads -> Msgs \cup {None}]
      BY <1>8 DEF Pop, TypeOK, TestStillHolds
    <3> QED
      BY <2>1, <3>1, <3>2 DEF TypeOK
  <2>3. MutexHeld'
    <3>1. mutex = t /\ mutex' = None
      BY <1>8 DEF Pop, MutexHeld
    <3> QED
      BY <2>1, <3>1 DEF MutexHeld, Threads
  <2>4. CallsOK'
    <3>1. \A u \in Threads \ {t} : msg'[u] = msg[u]
      BY <1>8 DEF Pop, TypeOK
    <3> QED
      BY <2>1, <3>1 DEF CallsOK
  <2>5. TestStillHolds'
    <3>1. \A u \in Threads : pc'[u] \notin Holding
      BY <1>8, <2>1 DEF Pop, MutexHeld
    <3> QED
      BY <3>1 DEF TestStillHolds
  <2> QED
    BY <2>2, <2>3, <2>4, <2>5
<1>9. CASE UNCHANGED vars
  BY <1>9 DEF vars, TypeOK, MutexHeld, CallsOK, TestStillHolds, Full
<1> QED
  BY <1>1, <1>2, <1>3, <1>4, <1>5, <1>6, <1>7, <1>8, <1>9 DEF Next, Step

--------------------------------------------------------------------------------
\* More threads on their way are counted by at least as large a number.
LEMMA Counted ==
  ASSUME NEW P, NEW S, S \subseteq At(P)'
  PROVE  /\ Cardinality(S) \in Nat
         /\ Cardinality(At(P)') \in Nat
         /\ Cardinality(S) <= Cardinality(At(P)')
<1>1. IsFiniteSet(Threads)
  BY ThreadsAssumption, FS_Union DEF Threads
<1>2. At(P)' \subseteq Threads
  BY DEF At
<1>3. IsFiniteSet(At(P)')
  BY <1>1, <1>2, FS_Subset
<1> QED
  BY <1>3, FS_Subset, FS_CardinalityType

ConsumersCovered ==
  At({"deqWait"}) # {} => Len(queue) <= Cardinality(At({"deqWoken", "deqTest", "pop"}))

\* A step keeps enough consumers on their way for what is there to take.
LEMMA NextConsumersCovered ==
  SafeInv /\ ConsumersCovered /\ [Next]_vars => ConsumersCovered'
<1> DEFINE Moving == {"deqWoken", "deqTest", "pop"}
           D == At(Moving)
           W == At({"deqWait"})
<1> SUFFICES ASSUME SafeInv, ConsumersCovered, [Next]_vars, W' # {}
             PROVE  Len(queue') <= Cardinality(D')
  BY DEF ConsumersCovered
<1>0. /\ pc \in [Threads -> Places]
      /\ Len(queue) \in Nat
      /\ Limit \in Int
      /\ IsFiniteSet(D)
      /\ Cardinality(D) \in Nat
      /\ Cardinality(D') \in Nat
      /\ W # {} => Len(queue) <= Cardinality(D)
  <2>1. D' \subseteq At(Moving)'
    OBVIOUS
  <2> QED
    BY <2>1, AtFinite, Counted, LimitAssumption DEF SafeInv, TypeOK, ConsumersCovered
<1>1. ASSUME queue' = queue, D \subseteq D', W' \subseteq W
      PROVE  Len(queue') <= Cardinality(D')
  <2>1. Cardinality(D) <= Cardinality(D')
    BY <1>1, Counted
  <2> QED
    BY <1>0, <1>1, <2>1
<1>2. ASSUME NEW t \in Producers, NEW m \in Msgs, CallEnqueue(t, m)
      PROVE  Len(queue') <= Cardinality(D')
  BY <1>0, <1>1, <1>2 DEF CallEnqueue, At
<1>3. ASSUME NEW t \in Consumers, CallDequeue(t)
      PROVE  Len(queue') <= Cardinality(D')
  BY <1>0, <1>1, <1>3 DEF CallDequeue, At
<1>4. ASSUME NEW t \in Threads, Acquire(t) \/ TestFull(t) \/ SpuriousWakeup(t)
      PROVE  Len(queue') <= Cardinality(D')
  BY <1>0, <1>1, <1>4 DEF Acquire, TestFull, SpuriousWakeup, At
<1>5. ASSUME NEW t \in Threads, TestEmpty(t)
      PROVE  Len(queue') <= Cardinality(D')
  <2>1. CASE Len(queue) = 0
    BY <1>0, <1>5, <2>1 DEF TestEmpty
  <2>2. CASE ~(Len(queue) = 0)
    BY <1>0, <1>1, <1>5, <2>2 DEF TestEmpty, SafeInv, TypeOK, Full, At
  <2> QED
    BY <2>1, <2>2
<1>6. ASSUME NEW t \in Threads, Push(t)
      PROVE  Len(queue') <= Cardinality(D')
  <2>1. /\ pc[t] \notin Moving
        /\ pc'[t] = "idle"
        /\ \A u \in Threads \ {t} :
             pc'[u] = pc[u] \/ (pc[u] = "deqWait" /\ pc'[u] = "deqWoken")
        /\ W # {} =>
             \E w \in Threads : pc[w] = "deqWait" /\ pc'[w] = "deqWoken"
    BY <1>0, <1>6, PushWakes
  <2>2. W' \subseteq W
    BY <2>1 DEF At
  <2>3. PICK w \in Threads : pc[w] = "deqWait" /\ pc'[w] = "deqWoken"
    BY <2>1, <2>2
  <2>4. w \notin D /\ D \cup {w} \subseteq D'
    BY <2>1, <2>3 DEF At
  <2>5. Cardinality(D \cup {w}) = Cardinality(D) + 1
    BY <1>0, <2>4, FS_AddElement
  <2>6. Cardinality(D \cup {w}) <= Cardinality(D')
    BY <2>4, Counted
  <2>7. Len(queue') = Len(queue) + 1
    BY <1>0, <1>6 DEF Push, SafeInv, TypeOK, TestStillHolds, CallsOK, Sending
  <2> QED
    BY <1>0, <2>2, <2>5, <2>6, <2>7
<1>7. ASSUME NEW t \in Threads, Pop(t)
      PROVE  Len(queue') <= Cardinality(D')
  <2>1. /\ pc[t] \in Moving
        /\ \A u \in Threads \ {t} :
             pc'[u] = pc[u] \/ (pc[u] \notin Moving \cup {"deqWait"} /\ pc'[u] # "deqWait")
        /\ pc'[t] = "idle"
    BY <1>0, <1>7, PopWakes
  <2>2. W' \subseteq W /\ D \ {t} \subseteq D' /\ t \in D
    BY <2>1 DEF At
  <2>3. Cardinality(D \ {t}) = Cardinality(D) - 1
    BY <1>0, <2>2, FS_RemoveElement
  <2>4. Cardinality(D \ {t}) <= Cardinality(D')
    BY <2>2, Counted
  <2>5. Len(queue') = Len(queue) - 1
    BY <1>0, <1>7 DEF Pop, SafeInv, TypeOK, TestStillHolds, CallsOK, Sending
  <2> QED
    BY <1>0, <2>2, <2>3, <2>4, <2>5
<1>8. CASE UNCHANGED vars
  BY <1>1, <1>8 DEF vars, At
<1> QED
  BY <1>2, <1>3, <1>4, <1>5, <1>6, <1>7, <1>8 DEF Next, Step

ProducersCovered ==
  At({"enqWait"}) # {} => Limit - Len(queue) <= Cardinality(At({"enqWoken", "enqTest", "push"}))

\* A step keeps enough producers on their way for what is there to take.
LEMMA NextProducersCovered ==
  SafeInv /\ ProducersCovered /\ [Next]_vars => ProducersCovered'
<1> DEFINE Moving == {"enqWoken", "enqTest", "push"}
           D == At(Moving)
           W == At({"enqWait"})
<1> SUFFICES ASSUME SafeInv, ProducersCovered, [Next]_vars, W' # {}
             PROVE  Limit - Len(queue') <= Cardinality(D')
  BY DEF ProducersCovered
<1>0. /\ pc \in [Threads -> Places]
      /\ Len(queue) \in Nat
      /\ Limit \in Int
      /\ IsFiniteSet(D)
      /\ Cardinality(D) \in Nat
      /\ Cardinality(D') \in Nat
      /\ W # {} => Limit - Len(queue) <= Cardinality(D)
  <2>1. D' \subseteq At(Moving)'
    OBVIOUS
  <2> QED
    BY <2>1, AtFinite, Counted, LimitAssumption DEF SafeInv, TypeOK, ProducersCovered
<1>1. ASSUME queue' = queue, D \subseteq D', W' \subseteq W
      PROVE  Limit - Len(queue') <= Cardinality(D')
  <2>1. Cardinality(D) <= Cardinality(D')
    BY <1>1, Counted
  <2> QED
    BY <1>0, <1>1, <2>1
<1>2. ASSUME NEW t \in Producers, NEW m \in Msgs, CallEnqueue(t, m)
      PROVE  Limit - Len(queue') <= Cardinality(D')
  BY <1>0, <1>1, <1>2 DEF CallEnqueue, At
<1>3. ASSUME NEW t \in Consumers, CallDequeue(t)
      PROVE  Limit - Len(queue') <= Cardinality(D')
  BY <1>0, <1>1, <1>3 DEF CallDequeue, At
<1>4. ASSUME NEW t \in Threads, Acquire(t) \/ TestEmpty(t) \/ SpuriousWakeup(t)
      PROVE  Limit - Len(queue') <= Cardinality(D')
  BY <1>0, <1>1, <1>4 DEF Acquire, TestEmpty, SpuriousWakeup, At
<1>5. ASSUME NEW t \in Threads, TestFull(t)
      PROVE  Limit - Len(queue') <= Cardinality(D')
  <2>1. CASE Limit - Len(queue) <= 0
    BY <1>0, <1>5, <2>1 DEF TestFull
  <2>2. CASE ~(Limit - Len(queue) <= 0)
    BY <1>0, <1>1, <1>5, <2>2 DEF TestFull, SafeInv, TypeOK, Full, At
  <2> QED
    BY <2>1, <2>2
<1>6. ASSUME NEW t \in Threads, Pop(t)
      PROVE  Limit - Len(queue') <= Cardinality(D')
  <2>1. /\ pc[t] \notin Moving
        /\ pc'[t] = "idle"
        /\ \A u \in Threads \ {t} :
             pc'[u] = pc[u] \/ (pc[u] = "enqWait" /\ pc'[u] = "enqWoken")
        /\ W # {} =>
             \E w \in Threads : pc[w] = "enqWait" /\ pc'[w] = "enqWoken"
    BY <1>0, <1>6, PopWakes
  <2>2. W' \subseteq W
    BY <2>1 DEF At
  <2>3. PICK w \in Threads : pc[w] = "enqWait" /\ pc'[w] = "enqWoken"
    BY <2>1, <2>2
  <2>4. w \notin D /\ D \cup {w} \subseteq D'
    BY <2>1, <2>3 DEF At
  <2>5. Cardinality(D \cup {w}) = Cardinality(D) + 1
    BY <1>0, <2>4, FS_AddElement
  <2>6. Cardinality(D \cup {w}) <= Cardinality(D')
    BY <2>4, Counted
  <2>7. Len(queue') = Len(queue) - 1
    BY <1>6 DEF Pop, SafeInv, TypeOK, TestStillHolds
  <2> QED
    BY <1>0, <2>2, <2>5, <2>6, <2>7
<1>7. ASSUME NEW t \in Threads, Push(t)
      PROVE  Limit - Len(queue') <= Cardinality(D')
  <2>1. /\ pc[t] \in Moving
        /\ \A u \in Threads \ {t} :
             pc'[u] = pc[u] \/ (pc[u] \notin Moving \cup {"enqWait"} /\ pc'[u] # "enqWait")
        /\ pc'[t] = "idle"
    BY <1>0, <1>7, PushWakes
  <2>2. W' \subseteq W /\ D \ {t} \subseteq D' /\ t \in D
    BY <2>1 DEF At
  <2>3. Cardinality(D \ {t}) = Cardinality(D) - 1
    BY <1>0, <2>2, FS_RemoveElement
  <2>4. Cardinality(D \ {t}) <= Cardinality(D')
    BY <2>2, Counted
  <2>5. Limit - Len(queue') = Limit - Len(queue) - 1
    BY <1>0, <1>7 DEF Push, SafeInv, TypeOK, TestStillHolds, CallsOK, Sending
  <2> QED
    BY <1>0, <2>2, <2>3, <2>4, <2>5
<1>8. CASE UNCHANGED vars
  BY <1>1, <1>8 DEF vars, At
<1> QED
  BY <1>2, <1>3, <1>4, <1>5, <1>6, <1>7, <1>8 DEF Next, Step

--------------------------------------------------------------------------------
\* The inductive invariant: what each thread may rely on, and the two counts.
IInv == SafeInv /\ ConsumersCovered /\ ProducersCovered

LEMMA InitIInv == Init => IInv
  BY InitSafe DEF IInv, Init, At, ConsumersCovered, ProducersCovered

LEMMA NextIInv == IInv /\ [Next]_vars => IInv'
  BY NextSafe, NextConsumersCovered, NextProducersCovered DEF IInv

\* The inductive invariant holds in every reachable state of the queue: each
\* thread may rely on what it tested, and no wake-up of enqueue or dequeue is lost.
THEOREM Invariance == Spec => []IInv
  BY InitIInv, NextIInv, PTL DEF Spec

(***************************************************************************)
(* The variables of the queue keep their types and the number of messages  *)
(* stays within _limit, for every _limit and every number of threads.      *)
(***************************************************************************)
THEOREM TypeCorrect == Spec => []TypeOK
<1>1. IInv => TypeOK
  BY DEF IInv, SafeInv
<1> QED
  BY Invariance, <1>1, PTL

(***************************************************************************)
(* dequeue never calls front() or pop() on an empty std::queue, enqueue    *)
(* never pushes onto a full one.                                           *)
(***************************************************************************)
THEOREM TestsStable == Spec => []TestStillHolds
<1>1. IInv => TestStillHolds
  BY DEF IInv, SafeInv
<1> QED
  BY Invariance, <1>1, PTL

(***************************************************************************)
(* One notify_one per message and per free place is enough: no thread      *)
(* waits while there is something for it that no other thread is on its    *)
(* way to take.                                                            *)
(***************************************************************************)
THEOREM NoWakeupLost == Spec => []NoLostWakeup
<1>1. IInv => NoLostWakeup
  BY DEF IInv, ConsumersCovered, ProducersCovered, NoLostWakeup
<1> QED
  BY Invariance, <1>1, PTL

--------------------------------------------------------------------------------
\* A thread that changes its place without ending its call is not seen to move.
LEMMA InvisibleStep ==
  ASSUME queue' = queue, msg' = msg,
         \A u \in Threads : CallOf(pc'[u]) = CallOf(pc[u])
  PROVE  UNCHANGED Channel!chanVars
BY DEF Channel!chanVars

LEMMA InitImplements == Init => Channel!Init
BY DEF Init, Channel!Init, CallOf, Channel!Users, Threads

LEMMA StepImplements == SafeInv /\ [Next]_vars => [Channel!Next]_(Channel!chanVars)
<1> SUFFICES ASSUME SafeInv, [Next]_vars
             PROVE  [Channel!Next]_(Channel!chanVars)
  OBVIOUS
<1>0. pc \in [Threads -> Places]
  BY DEF SafeInv, TypeOK
<1>1. ASSUME NEW t \in Producers, NEW m \in Msgs, CallEnqueue(t, m)
      PROVE  Channel!BeginSend(t, m)
  BY <1>0, <1>1 DEF CallEnqueue, Channel!BeginSend, CallOf, Threads
<1>2. ASSUME NEW t \in Consumers, CallDequeue(t)
      PROVE  Channel!BeginReceive(t)
  BY <1>0, <1>2 DEF CallDequeue, Channel!BeginReceive, CallOf, Threads
<1>3. ASSUME NEW t \in Threads,
             Acquire(t) \/ TestFull(t) \/ TestEmpty(t) \/ SpuriousWakeup(t)
      PROVE  UNCHANGED Channel!chanVars
  <2>1. queue' = queue /\ msg' = msg
    BY <1>3 DEF Acquire, TestFull, TestEmpty, SpuriousWakeup
  <2>2. \A u \in Threads : CallOf(pc'[u]) = CallOf(pc[u])
    BY <1>0, <1>3 DEF Acquire, TestFull, TestEmpty, SpuriousWakeup, CallOf
  <2> QED
    BY <2>1, <2>2, InvisibleStep
<1>4. ASSUME NEW t \in Threads, Push(t)
      PROVE  t \in Producers /\ Channel!Send(t)
  <2>1. t \in Producers
    BY <1>4 DEF Push, SafeInv, CallsOK, Sending
  <2>2. CallOf(pc[t]) = "send" /\ CallOf(pc'[t]) = "none"
    BY <1>0, <1>4, PushWakes DEF CallOf
  <2>3. \A u \in Threads \ {t} : CallOf(pc'[u]) = CallOf(pc[u])
    BY <1>0, <1>4, PushWakes DEF CallOf
  <2>4. Channel!HasRoom
    BY <1>4, LimitAssumption
       DEF Push, SafeInv, TypeOK, TestStillHolds, Full, Channel!HasRoom
  <2>5. queue' = Append(queue, msg[t]) /\ msg' = msg
    BY <1>4 DEF Push
  <2> QED
    BY <2>1, <2>2, <2>3, <2>4, <2>5 DEF Channel!Send
<1>5. ASSUME NEW t \in Threads, Pop(t)
      PROVE  t \in Consumers /\ Channel!Receive(t)
  <2>1. t \in Consumers
    BY <1>5 DEF Pop, SafeInv, CallsOK, Receiving
  <2>2. CallOf(pc[t]) = "receive" /\ CallOf(pc'[t]) = "none"
    BY <1>0, <1>5, PopWakes DEF CallOf
  <2>3. \A u \in Threads \ {t} : CallOf(pc'[u]) = CallOf(pc[u])
    BY <1>0, <1>5, PopWakes DEF CallOf
  <2>4. /\ queue # << >> /\ queue' = Tail(queue)
        /\ msg' = [msg EXCEPT ![t] = Head(queue)]
    BY <1>5 DEF Pop, SafeInv, TestStillHolds
  <2> QED
    BY <2>1, <2>2, <2>3, <2>4 DEF Channel!Receive
<1>6. CASE UNCHANGED vars
  BY <1>6, InvisibleStep DEF vars
<1> QED
  BY <1>1, <1>2, <1>3, <1>4, <1>5, <1>6
     DEF Next, Step, Channel!Next, Threads

(***************************************************************************)
(* enqueue and dequeue behave as the calls of a FIFO channel of capacity   *)
(* _limit, each taking effect at one instant: messages come out once each, *)
(* in the order in which they went in, whatever the interleaving.          *)
(***************************************************************************)
THEOREM Linearizable == Spec => ImplementsChannel
<1>1. IInv => SafeInv
  BY DEF IInv
<1> QED
  BY Invariance, InitImplements, StepImplements, <1>1, PTL
     DEF Spec, ImplementsChannel, Channel!Spec
================================================================================
