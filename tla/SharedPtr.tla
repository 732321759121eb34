------------------------------- MODULE SharedPtr -------------------------------
(***************************************************************************)
(* homemade-infra/smartpoint: Shared_Ptr, a reference-counted pointer      *)
(* whose count is guarded by a mutex that is counted, and deleted, with    *)
(* it.  A managed object may have a Shared_Ptr of its own, like a list     *)
(* node: deleting the object releases that one, while the object's mutex   *)
(* is held.  A null pointer has a count and a mutex too, but no object.    *)
(*                                                                         *)
(* Clients keep the rule of std::shared_ptr: threads may share an object   *)
(* through handles of their own, and read a common handle, but a handle is *)
(* not written while another thread uses it.  Nor do they write            *)
(* head = head->next, whose source is inside the object that operator=     *)
(* releases first.                                                         *)
(***************************************************************************)
EXTENDS Integers, Sequences, FiniteSets

CONSTANTS
  Threads,
  PerThread,  \* PerThread[t]: handles of thread t, besides those inside objects
  Blocks,     \* a managed object, if any, with its count and mutex; also names
              \* the handle inside the object
  None

Slots == UNION {{t} \X (1..PerThread[t]) : t \in Threads}

Handles == Slots \cup Blocks

ASSUME PointersAssumption ==
  /\ IsFiniteSet(Threads) /\ IsFiniteSet(Blocks) /\ PerThread \in [Threads -> Nat]
  /\ None \notin Threads \cup Handles /\ Slots \cap Blocks = {}

VARIABLES
  block,      \* block[b]: "free" memory, "live", "null" if there is no object,
              \* or "deleted" but for the mutex
  count,      \* *_pRefCount
  mutex,      \* the thread that holds *_pMutex, or None
  ptr,        \* ptr[h]: the block of handle h, None while h is not constructed
  pc,         \* where thread t is in operator=, a constructor or destructor
  to, from,   \* the handle it writes, and the one it reads, None to destroy
  work,       \* the Release calls it is in, innermost first
  seen        \* the count it has loaded

blockVars == <<block, count, mutex>>
vars == <<blockVars, ptr, pc, to, from, work, seen>>

Own(t) == {h \in Slots : h[1] = t}

Init ==
  /\ block = [b \in Blocks |-> "free"]
  /\ count = [b \in Blocks |-> 0]
  /\ mutex = [b \in Blocks |-> None]
  /\ ptr = [h \in Handles |-> None]
  /\ pc = [t \in Threads |-> "idle"]
  /\ to = [t \in Threads |-> None]
  /\ from = [t \in Threads |-> None]
  /\ work = [t \in Threads |-> << >>]
  /\ seen = [t \in Threads |-> 0]

--------------------------------------------------------------------------------
\* What clients may do.

\* Handles that t may name while its handle other is being written: its own, and
\* those inside objects it has another handle on.
Reach(t, other) ==
  Own(t) \cup {b \in {ptr[h] : h \in Own(t) \ {other}} \ {None} : block[b] = "live"}

Written(h) == \E u \in Threads : pc[u] # "idle" /\ to[u] = h

Used(h) == \E u \in Threads : pc[u] # "idle" /\ h \in {to[u], from[u]}

Sources(t, h) ==
  {None} \cup {g \in Slots \cup Reach(t, h) : ptr[g] # None /\ ~Written(g)}

\* operator= does nothing if the two handles point to one object, or both to none.
SameObject(b, c) == b = c \/ (block[b] = "null" /\ block[c] = "null")

\* Shared_Ptr(new T), or Shared_Ptr() with a count for no object.
Construct(t, h, b) ==
  /\ pc[t] = "idle"
  /\ h \in Reach(t, None) /\ ptr[h] = None /\ ~Used(h)
  /\ block[b] = "free"
  /\ \E kind \in {"live", "null"} : block' = [block EXCEPT ![b] = kind]
  /\ count' = [count EXCEPT ![b] = 1]
  /\ ptr' = [ptr EXCEPT ![h] = b]
  /\ UNCHANGED <<mutex, pc, to, from, work, seen>>

\* operator=, the copy constructor (h is not constructed) or the destructor (g is
\* None) is called: the handle's old block, if any, is released first.
Begin(t, h, g) ==
  /\ pc[t] = "idle"
  /\ h \in Reach(t, None) /\ ~Used(h)
  /\ g \in Sources(t, h)
  /\ IF ptr[h] = None THEN g # None
                       ELSE g # None => ~SameObject(ptr[h], ptr[g])
  /\ to' = [to EXCEPT ![t] = h]
  /\ from' = [from EXCEPT ![t] = g]
  /\ IF ptr[h] = None
       THEN pc' = [pc EXCEPT ![t] = "read"] /\ UNCHANGED <<work, ptr>>
       ELSE /\ pc' = [pc EXCEPT ![t] = "relLock"]
            /\ work' = [work EXCEPT ![t] = <<[block |-> ptr[h], delete |-> FALSE]>>]
            /\ ptr' = [ptr EXCEPT ![h] = None]
  /\ UNCHANGED <<blockVars, seen>>

--------------------------------------------------------------------------------
\* Release.

Releasing(t) == Head(work[t]).block

\* Mutant of Lock: the mutex is not taken.
LockNot(t, b) == UNCHANGED mutex

\* The mutex of block b is taken.
Lock(t, b) ==
  /\ mutex[b] = None
  /\ mutex' = [mutex EXCEPT ![b] = t]

ReleaseLock(t) ==
  /\ pc[t] = "relLock"
  /\ Lock(t, Releasing(t))
  /\ pc' = [pc EXCEPT ![t] = "relLoad"]
  /\ UNCHANGED <<block, count, ptr, to, from, work, seen>>

ReleaseLoad(t) ==
  /\ pc[t] = "relLoad"
  /\ seen' = [seen EXCEPT ![t] = count[Releasing(t)]]
  /\ pc' = [pc EXCEPT ![t] = "relStore"]
  /\ UNCHANGED <<blockVars, ptr, to, from, work>>

\* The decremented count is stored; at 0 count and object are deleted, and the
\* object's own handle is released, with this mutex held.
ReleaseStore(t) ==
  LET b == Releasing(t)
      frame == [block |-> b, delete |-> seen[t] = 1]
      outer == <<frame>> \o Tail(work[t])
  IN  /\ pc[t] = "relStore"
      /\ count' = [count EXCEPT ![b] = seen[t] - 1]
      /\ block' = IF frame.delete THEN [block EXCEPT ![b] = "deleted"] ELSE block
      /\ IF frame.delete /\ ptr[b] # None
           THEN /\ work' = [work EXCEPT ![t] = <<[block |-> ptr[b], delete |-> FALSE]>> \o outer]
                /\ ptr' = [ptr EXCEPT ![b] = None]
                /\ pc' = [pc EXCEPT ![t] = "relLock"]
           ELSE /\ work' = [work EXCEPT ![t] = outer]
                /\ pc' = [pc EXCEPT ![t] = "relUnlock"]
                /\ UNCHANGED ptr
      /\ seen' = [seen EXCEPT ![t] = 0]
      /\ UNCHANGED <<mutex, to, from>>

\* Release returns: to the delete of an outer object, or to the caller.
Return(t) ==
  /\ work' = [work EXCEPT ![t] = Tail(@)]
  /\ pc' = [pc EXCEPT ![t] = IF Len(work[t]) > 1 THEN "relUnlock" ELSE "read"]

\* Mutant of ReleaseUnlock: a Release that is not the last does not unlock.
ReleaseKeepsMutex(t) ==
  /\ pc[t] = "relUnlock"
  /\ IF Head(work[t]).delete
       THEN /\ mutex' = [mutex EXCEPT ![Releasing(t)] = None]
            /\ pc' = [pc EXCEPT ![t] = "relMutex"]
            /\ UNCHANGED work
       ELSE Return(t) /\ UNCHANGED mutex
  /\ UNCHANGED <<block, count, ptr, to, from, seen>>

ReleaseUnlock(t) ==
  /\ pc[t] = "relUnlock"
  /\ mutex' = [mutex EXCEPT ![Releasing(t)] = None]
  /\ IF Head(work[t]).delete
       THEN pc' = [pc EXCEPT ![t] = "relMutex"] /\ UNCHANGED work
       ELSE Return(t)
  /\ UNCHANGED <<block, count, ptr, to, from, seen>>

\* The mutex is deleted after it has been unlocked.
ReleaseMutex(t) ==
  /\ pc[t] = "relMutex"
  /\ block' = [block EXCEPT ![Releasing(t)] = "free"]
  /\ Return(t)
  /\ UNCHANGED <<count, mutex, ptr, to, from, seen>>

--------------------------------------------------------------------------------
\* The call returns.
Done(t) ==
  /\ pc' = [pc EXCEPT ![t] = "idle"]
  /\ to' = [to EXCEPT ![t] = None]
  /\ from' = [from EXCEPT ![t] = None]

\* Mutant of ReadSource: the count is not incremented.
ReadSourceNoCount(t) ==
  /\ pc[t] = "read"
  /\ ptr' = [ptr EXCEPT ![to[t]] = IF from[t] = None THEN None ELSE ptr[from[t]]]
  /\ Done(t)
  /\ UNCHANGED <<blockVars, work, seen>>

\* The fields of the source are read, after the release of the old block.
ReadSource(t) ==
  LET b == IF from[t] = None THEN None ELSE ptr[from[t]]
  IN  /\ pc[t] = "read"
      /\ ptr' = [ptr EXCEPT ![to[t]] = b]
      /\ IF b = None
           THEN Done(t)
           ELSE pc' = [pc EXCEPT ![t] = "addLock"] /\ UNCHANGED <<to, from>>
      /\ UNCHANGED <<blockVars, work, seen>>

AddLock(t) ==
  /\ pc[t] = "addLock"
  /\ Lock(t, ptr[to[t]])
  /\ pc' = [pc EXCEPT ![t] = "addLoad"]
  /\ UNCHANGED <<block, count, ptr, to, from, work, seen>>

AddLoad(t) ==
  /\ pc[t] = "addLoad"
  /\ seen' = [seen EXCEPT ![t] = count[ptr[to[t]]]]
  /\ pc' = [pc EXCEPT ![t] = "addStore"]
  /\ UNCHANGED <<blockVars, ptr, to, from, work>>

\* The incremented count is stored and the mutex released.
AddStore(t) ==
  /\ pc[t] = "addStore"
  /\ count' = [count EXCEPT ![ptr[to[t]]] = seen[t] + 1]
  /\ mutex' = [mutex EXCEPT ![ptr[to[t]]] = None]
  /\ seen' = [seen EXCEPT ![t] = 0]
  /\ Done(t)
  /\ UNCHANGED <<block, ptr, work>>

\* Steps that may have to wait for a mutex, and steps that never wait.
LockStep(t) == ReleaseLock(t) \/ AddLock(t)

FreeStep(t) ==
  \/ ReleaseLoad(t) \/ ReleaseStore(t) \/ ReleaseUnlock(t) \/ ReleaseMutex(t)
  \/ ReadSource(t) \/ AddLoad(t) \/ AddStore(t)

Next ==
  \E t \in Threads :
    \/ \E h \in Handles, b \in Blocks : Construct(t, h, b)
    \/ \E h \in Handles, g \in Handles \cup {None} : Begin(t, h, g)
    \/ LockStep(t) \/ FreeStep(t)

Spec == Init /\ [][Next]_vars

(***************************************************************************)
(* A call that has begun runs on, and a thread that waits for a mutex is   *)
(* not passed over for ever.  Nothing makes a client call.                 *)
(***************************************************************************)
FairSpec == Spec /\ \A t \in Threads : WF_vars(FreeStep(t)) /\ SF_vars(LockStep(t))

--------------------------------------------------------------------------------
\* Thread t is at work on the count of b, or deletes its object.
Holds(t, b) ==
  \/ pc[t] \in {"addLoad", "addStore"} /\ ptr[to[t]] = b
  \/ \E i \in 1..Len(work[t]) :
       work[t][i].block = b /\ (i = 1 => pc[t] \in {"relLoad", "relStore", "relUnlock"})

\* Handles not counted yet, and counted handles that are already cleared.
Uncounted(b) ==
  {t \in Threads : pc[t] \in {"addLock", "addLoad", "addStore"} /\ ptr[to[t]] = b}
Undropped(b) ==
  {t \in Threads : pc[t] \in {"relLock", "relLoad", "relStore"} /\ Releasing(t) = b}

(***************************************************************************)
(* The count of a live object is the number of its handles, give or take   *)
(* the calls under way; and an object lives as long as that is not 0.  So  *)
(* it is deleted once, by its last handle, and not leaked before.  Whoever *)
(* works on a count, or is deleting, holds the mutex, and nobody else does.*)
(***************************************************************************)
CountExact ==
  \A b \in Blocks :
    LET handles == Cardinality({h \in Handles : ptr[h] = b})
                     + Cardinality(Undropped(b)) - Cardinality(Uncounted(b))
    IN  /\ IF block[b] \in {"live", "null"} THEN count[b] = handles /\ handles > 0
                                            ELSE handles = 0
        /\ \A t \in Threads : Holds(t, b) <=> mutex[b] = t

(***************************************************************************)
(* Nothing is used after it was deleted: not the count and not the mutex,  *)
(* which another thread may be waiting for, by a thread that is inside a   *)
(* call, nor anything by one that dereferences a handle.                   *)
(***************************************************************************)
NothingUsedAfterDelete ==
  /\ \A h \in Handles : ptr[h] # None => block[ptr[h]] \in {"live", "null"}
  /\ \A t \in Threads :
       /\ pc[t] \in {"relLock", "relLoad", "relStore"} => block[Releasing(t)] \in {"live", "null"}
       /\ pc[t] \in {"relUnlock", "relMutex"} => block[Releasing(t)] # "free"

(***************************************************************************)
(* Every call returns, although deleting an object takes a second mutex    *)
(* while the first is held, in whatever order the objects are linked.      *)
(***************************************************************************)
CallsReturn == \A t \in Threads : pc[t] # "idle" ~> pc[t] = "idle"
================================================================================
