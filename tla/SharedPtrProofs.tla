---------------------------- MODULE SharedPtrProofs ----------------------------
(***************************************************************************)
(* Proofs about SharedPtr, for every number of threads, of handles and of  *)
(* objects, however they are linked.                                       *)
(***************************************************************************)
EXTENDS SharedPtr, FiniteSetTheorems, SequenceTheorems, TLAPS

InRelease(t) == pc[t] \in {"relLock", "relLoad", "relStore", "relUnlock", "relMutex"}
Dropping(t) == pc[t] \in {"relLock", "relLoad", "relStore"}
Adding(t) == pc[t] \in {"addLock", "addLoad", "addStore"}

Frame == [block : Blocks, delete : BOOLEAN]

TypeInv ==
  /\ block \in [Blocks -> {"free", "live", "null", "deleted"}]
  /\ count \in [Blocks -> Int]
  /\ mutex \in [Blocks -> Threads \cup {None}]
  /\ ptr \in [Handles -> Blocks \cup {None}]
  /\ pc \in [Threads -> {"idle", "relLock", "relLoad", "relStore", "relUnlock", "relMutex",
                        "read", "addLock", "addLoad", "addStore"}]
  /\ to \in [Threads -> Handles \cup {None}]
  /\ from \in [Threads -> Handles \cup {None}]
  /\ work \in [Threads -> Seq(Frame)]
  /\ seen \in [Threads -> Int]

\* What the place of a thread in a call says of the handles and frames it has.
Control(t) ==
  /\ pc[t] = "idle" => to[t] = None /\ from[t] = None
  /\ pc[t] # "idle" => to[t] \in Own(t) \cup Blocks
  /\ InRelease(t) <=> work[t] # << >>
  /\ InRelease(t) \/ pc[t] = "read" => ptr[to[t]] = None
  /\ Adding(t) => from[t] # None /\ ptr[to[t]] = ptr[from[t]]
  /\ from[t] # None => ptr[from[t]] # None
  /\ Dropping(t) => ~work[t][1].delete
  /\ pc[t] = "relMutex" => work[t][1].delete
  /\ \A i \in 2..Len(work[t]) : work[t][i].delete

\* A handle that is written is not used by anybody else, nor read by its writer.
Exclusive ==
  \A t, u \in Threads : to[t] # None => to[t] # from[u] /\ (t # u => to[t] # to[u])

\* An object whose own handle a thread uses is kept alive by another handle of the
\* thread, and an object that is gone has no handle.
KeptAlive(t) ==
  /\ to[t] \in Blocks => block[to[t]] = "live" /\ \E h \in Own(t) : ptr[h] = to[t]
  /\ from[t] \in Blocks => \E h \in Own(t) \ {to[t]} : ptr[h] = from[t]

GoneIsEmpty == \A b \in Blocks : block[b] # "live" => ptr[b] = None

\* An object being deleted is so by one Release only, and one that survived a
\* Release is there as long as its mutex is held.
DeletedOnce ==
  /\ \A t \in Threads : \A i \in 1..Len(work[t]) :
       work[t][i].delete => block[work[t][i].block] = "deleted"
  /\ \A t, u \in Threads : \A i \in 1..Len(work[t]), j \in 1..Len(work[u]) :
       work[t][i].delete /\ work[u][j].delete /\ work[t][i].block = work[u][j].block
         => t = u /\ i = j
  /\ \A t \in Threads :
       pc[t] = "relUnlock" /\ ~work[t][1].delete => block[work[t][1].block] \in {"live", "null"}

MutexHeld == \A b \in Blocks, t \in Threads : Holds(t, b) <=> mutex[b] = t

\* What was loaded under the mutex has not changed since.
SeenIsCount ==
  \A t \in Threads : /\ pc[t] = "relStore" => seen[t] = count[work[t][1].block]
                     /\ pc[t] = "addStore" => seen[t] = count[ptr[to[t]]]

\* The handles the count has: all but those a thread is still adding.
Counted(b) == {h \in Handles : ptr[h] = b /\ \A t \in Threads : Adding(t) => to[t] # h}

Dropped(b) == {t \in Threads : Dropping(t) /\ work[t][1].block = b}

Counts(b) ==
  IF block[b] \in {"live", "null"}
    THEN count[b] = Cardinality(Counted(b)) + Cardinality(Dropped(b)) /\ count[b] > 0
    ELSE Counted(b) = {} /\ Dropped(b) = {}

PtrInv ==
  /\ TypeInv
  /\ \A t \in Threads : Control(t) /\ KeptAlive(t)
  /\ Exclusive /\ GoneIsEmpty /\ DeletedOnce /\ MutexHeld /\ SeenIsCount
  /\ \A b \in Blocks : Counts(b)

--------------------------------------------------------------------------------
\* Handles.

LEMMA HandlesFinite == IsFiniteSet(Handles)
<1> DEFINE Of(t) == {t} \X (1..PerThread[t])
           f == [t \in Threads |-> Of(t)]
           S == {Of(t) : t \in Threads}
<1>1. IsFiniteSet(Threads) /\ IsFiniteSet(Blocks) /\ PerThread \in [Threads -> Nat]
  BY PointersAssumption
<1>2. \A t \in Threads : IsFiniteSet(Of(t))
  <2> SUFFICES ASSUME NEW t \in Threads  PROVE IsFiniteSet(Of(t))
    OBVIOUS
  <2>1. 1 \in Int /\ PerThread[t] \in Int
    BY <1>1
  <2>2. IsFiniteSet({t}) /\ IsFiniteSet(1..PerThread[t])
    BY <2>1, FS_Singleton, FS_Interval
  <2> QED  BY <2>2, FS_Product
<1>3. f \in Surjection(Threads, S)
  <2> HIDE DEF Of
  <2> QED  BY DEF Surjection
<1>4. IsFiniteSet(S)
  <2> HIDE DEF f, S
  <2> QED  BY <1>1, <1>3, FS_Surjection
<1>5. IsFiniteSet(UNION S)
  <2>1. \A T \in S : IsFiniteSet(T)
    BY <1>2
  <2> HIDE DEF S
  <2> QED  BY <1>4, <2>1, FS_UNION
<1> QED  BY <1>1, <1>5, FS_Union DEF Handles, Slots

\* A thread has handles of its own, and other threads and objects have others.
LEMMA HandlesAre ==
  /\ None \notin Handles /\ Blocks \subseteq Handles /\ Slots \subseteq Handles /\ None \notin Blocks
  /\ None \notin Threads
  /\ \A t \in Threads : Own(t) \subseteq Slots /\ Own(t) \cap Blocks = {}
  /\ \A t, u \in Threads : t # u => Own(t) \cap Own(u) = {}
BY PointersAssumption DEF Handles, Own

LEMMA SetsFinite ==
  /\ \A b : IsFiniteSet(Counted(b)) /\ IsFiniteSet(Dropped(b))
  /\ \A b : IsFiniteSet(Counted(b))' /\ IsFiniteSet(Dropped(b))'
<1>1. \A b : Counted(b) \in SUBSET Handles /\ Dropped(b) \in SUBSET Threads
  BY DEF Counted, Dropped
<1>2. \A b : Counted(b)' \in SUBSET Handles /\ Dropped(b)' \in SUBSET Threads
  BY DEF Counted, Dropped
<1> QED  BY <1>1, <1>2, HandlesFinite, FS_Subset, PointersAssumption

\* What a Release is at work on.
LEMMA ReleasingIs ==
  ASSUME PtrInv, NEW t \in Threads, InRelease(t)
  PROVE  /\ work[t] \in Seq(Frame) /\ Len(work[t]) \in Nat /\ Len(work[t]) >= 1
         /\ Head(work[t]) = work[t][1] /\ work[t][1] \in Frame
         /\ Releasing(t) = work[t][1].block /\ Releasing(t) \in Blocks
<1>1. work[t] \in Seq(Frame) /\ work[t] # << >>
  BY DEF PtrInv, TypeInv, Control
<1>2. Len(work[t]) \in Nat /\ Len(work[t]) >= 1
  BY <1>1, EmptySeq, LenProperties
<1>3. Head(work[t]) = work[t][1] /\ work[t][1] \in Frame
  BY <1>1, <1>2, HeadTailProperties
<1> QED  BY <1>1, <1>2, <1>3 DEF Releasing, Frame

\* A source is counted, so what it points to is there.
LEMMA SourceCounted ==
  ASSUME PtrInv, NEW t \in Threads, from[t] # None
  PROVE  /\ from[t] \in Handles /\ ptr[from[t]] \in Blocks
         /\ from[t] \in Counted(ptr[from[t]])
<1>1. from[t] \in Handles /\ ptr[from[t]] \in Blocks
  BY DEF PtrInv, TypeInv, Control
<1>2. \A u \in Threads : Adding(u) => to[u] # None
  BY HandlesAre DEF PtrInv, Control, Adding
<1>3. \A u \in Threads : Adding(u) => to[u] # from[t]
  BY <1>2 DEF PtrInv, Exclusive
<1> QED  BY <1>1, <1>3 DEF Counted

\* So is whatever a handle points to: what a handle that is not counted points to,
\* the handle it was copied from still points to.
LEMMA PointsToLive ==
  ASSUME PtrInv, NEW h \in Handles, ptr[h] # None
  PROVE  /\ ptr[h] \in Blocks /\ Counted(ptr[h]) # {}
         /\ block[ptr[h]] \in {"live", "null"} /\ count[ptr[h]] > 0
<1>1. ptr[h] \in Blocks
  BY DEF PtrInv, TypeInv
<1>2. Counted(ptr[h]) # {}
  <2>1. CASE h \in Counted(ptr[h])
    BY <2>1
  <2>2. CASE h \notin Counted(ptr[h])
    <3>1. PICK t \in Threads : Adding(t) /\ to[t] = h
      BY <2>2 DEF Counted
    <3>2. from[t] # None /\ ptr[from[t]] = ptr[h]
      BY <3>1 DEF PtrInv, Control
    <3> QED  BY <3>2, SourceCounted
  <2> QED  BY <2>1, <2>2
<1> QED  BY <1>1, <1>2 DEF PtrInv, Counts

\* A handle of its own that a thread does not write is counted.
LEMMA OwnCounted ==
  ASSUME PtrInv, NEW t \in Threads, NEW h \in Own(t), h # to[t]
  PROVE  h \in Counted(ptr[h]) /\ \A u \in Threads : to[u] # h
<1>1. \A u \in Threads : pc[u] # "idle" => to[u] # h
  BY HandlesAre DEF PtrInv, Control
<1>2. \A u \in Threads : to[u] # h
  BY <1>1, HandlesAre DEF PtrInv, Control
<1> QED  BY <1>2, HandlesAre DEF Counted

\* An object whose own handle is in use is there, and has a counted handle.
LEMMA UsedIsLive ==
  ASSUME PtrInv, NEW t \in Threads, NEW b \in Blocks, b = to[t] \/ b = from[t]
  PROVE  block[b] = "live" /\ Counted(b) # {}
<1>1. CASE b = to[t]
  <2>1. PICK h \in Own(t) : ptr[h] = b
    BY <1>1 DEF PtrInv, KeptAlive
  <2>2. h # to[t]
    BY <1>1, HandlesAre
  <2> QED  BY <1>1, <2>1, <2>2, OwnCounted DEF PtrInv, KeptAlive
<1>2. CASE b = from[t]
  <2>1. PICK h \in Own(t) \ {to[t]} : ptr[h] = b
    BY <1>2 DEF PtrInv, KeptAlive
  <2>2. ptr[b] # None
    BY <1>2, HandlesAre DEF PtrInv, Control
  <2> QED  BY <2>1, <2>2, OwnCounted DEF PtrInv, GoneIsEmpty
<1> QED  BY <1>1, <1>2

--------------------------------------------------------------------------------
\* Steps.

LEMMA InitInv == Init => PtrInv
<1> SUFFICES ASSUME Init  PROVE PtrInv
  OBVIOUS
<1> USE HandlesAre DEF Init
<1>1. << >> \in Seq(Frame) /\ Len(<< >>) = 0
  BY EmptySeq
<1>2. TypeInv
  BY <1>1 DEF TypeInv
<1>3. \A t \in Threads : /\ ~InRelease(t) /\ ~Dropping(t) /\ ~Adding(t)
                         /\ pc[t] # "relMutex" /\ pc[t] # "read" /\ pc[t] # "relUnlock"
                         /\ work[t] = << >>
  BY DEF InRelease, Dropping, Adding
<1>4. \A t \in Threads : Control(t)
  BY <1>1, <1>3 DEF Control
<1>5. \A t \in Threads : KeptAlive(t)
  BY DEF KeptAlive
<1>6. Exclusive /\ GoneIsEmpty
  BY DEF Exclusive, GoneIsEmpty
<1>7. DeletedOnce
  BY <1>1, <1>3 DEF DeletedOnce
<1>8. MutexHeld
  BY <1>1, <1>3 DEF MutexHeld, Holds
<1>9. SeenIsCount
  BY DEF SeenIsCount
<1>10. \A b \in Blocks : Counts(b)
  BY <1>3 DEF Counts, Counted, Dropped
<1> QED  BY <1>2, <1>4, <1>5, <1>6, <1>7, <1>8, <1>9, <1>10 DEF PtrInv

\* A thread that takes a mutex or loads a count goes on in its call, and leaves
\* all but that mutex, or what it has seen, alone.
Quiet(t, place) ==
  /\ UNCHANGED <<block, count, ptr, to, from, work>>
  /\ pc' = [pc EXCEPT ![t] = place]
  /\ \/ pc[t] = "relLock" /\ place = "relLoad"
     \/ pc[t] = "relLoad" /\ place = "relStore"
     \/ pc[t] = "addLock" /\ place = "addLoad"
     \/ pc[t] = "addLoad" /\ place = "addStore"

LEMMA QuietKeeps ==
  ASSUME PtrInv, NEW t \in Threads, NEW place, Quiet(t, place)
  PROVE  /\ pc' \in [Threads -> {"idle", "relLock", "relLoad", "relStore", "relUnlock",
                               "relMutex", "read", "addLock", "addLoad", "addStore"}]
         /\ \A u \in Threads : Control(u)' /\ KeptAlive(u)'
         /\ Exclusive' /\ GoneIsEmpty' /\ DeletedOnce'
         /\ \A b \in Blocks : Counts(b)'
<1>1. /\ pc' \in [Threads -> {"idle", "relLock", "relLoad", "relStore", "relUnlock",
                            "relMutex", "read", "addLock", "addLoad", "addStore"}]
      /\ pc'[t] = place /\ \A u \in Threads \ {t} : pc'[u] = pc[u]
  BY DEF PtrInv, TypeInv, Quiet
<1>2. \A u \in Threads : /\ InRelease(u)' <=> InRelease(u)
                         /\ Dropping(u)' <=> Dropping(u)
                         /\ Adding(u)' <=> Adding(u)
                         /\ \A p \in {"idle", "read", "relUnlock", "relMutex"} : pc'[u] = p <=> pc[u] = p
  BY <1>1 DEF InRelease, Dropping, Adding, Quiet
<1>3. UNCHANGED <<block, count, ptr, to, from, work>>
  BY DEF Quiet
<1>4. \A u \in Threads : Control(u)'
  BY <1>2, <1>3 DEF PtrInv, Control
<1>5. \A u \in Threads : KeptAlive(u)'
  BY <1>3 DEF PtrInv, KeptAlive
<1>6. Exclusive' /\ GoneIsEmpty'
  BY <1>3 DEF PtrInv, Exclusive, GoneIsEmpty
<1>7. DeletedOnce'
  BY <1>2, <1>3 DEF PtrInv, DeletedOnce
<1>8. \A b \in Blocks : Counted(b)' = Counted(b) /\ Dropped(b)' = Dropped(b)
  BY <1>2, <1>3 DEF Counted, Dropped
<1>9. \A b \in Blocks : Counts(b)'
  BY <1>3, <1>8 DEF PtrInv, Counts
<1> QED  BY <1>1, <1>4, <1>5, <1>6, <1>7, <1>9

LEMMA ReleaseLockKeeps ==
  ASSUME PtrInv, NEW t \in Threads, ReleaseLock(t)
  PROVE  PtrInv'
<1>0. PICK b : b = Releasing(t)
  OBVIOUS
<1>1. /\ pc[t] = "relLock" /\ mutex[b] = None /\ mutex' = [mutex EXCEPT ![b] = t]
      /\ Quiet(t, "relLoad") /\ seen' = seen
  BY <1>0 DEF ReleaseLock, Lock, Quiet
<1>2. b \in Blocks /\ b = work[t][1].block /\ Len(work[t]) \in Nat /\ Len(work[t]) >= 1
  BY <1>0, <1>1, ReleasingIs DEF InRelease
<1>3. /\ pc'[t] = "relLoad" /\ \A u \in Threads \ {t} : pc'[u] = pc[u]
      /\ UNCHANGED <<count, ptr, to, work>>
  BY <1>1 DEF Quiet, PtrInv, TypeInv
<1>4. TypeInv'
  BY <1>1, <1>2, QuietKeeps DEF PtrInv, TypeInv, Quiet
<1>5. MutexHeld'
  <2>1. mutex'[b] = t /\ \A c \in Blocks \ {b} : mutex'[c] = mutex[c]
    BY <1>1, <1>2 DEF PtrInv, TypeInv
  <2>2. Holds(t, b)'
    BY <1>2, <1>3 DEF Holds
  <2>3. \A u \in Threads : ~Holds(u, b)
    BY <1>1, <1>2, HandlesAre DEF PtrInv, MutexHeld
  <2>4. \A u \in Threads, c \in Blocks : u # t \/ c # b => (Holds(u, c)' <=> Holds(u, c))
    BY <1>1, <1>2, <1>3 DEF Holds
  <2>5. \A u \in Threads \ {t} : ~Holds(u, b)' /\ mutex'[b] # u
    BY <1>2, <2>1, <2>3, <2>4
  <2> QED  BY <2>1, <2>2, <2>4, <2>5 DEF PtrInv, MutexHeld
<1>6. SeenIsCount'
  BY <1>1, <1>3 DEF PtrInv, SeenIsCount
<1> QED  BY <1>1, <1>4, <1>5, <1>6, QuietKeeps DEF PtrInv

LEMMA ReleaseLoadKeeps ==
  ASSUME PtrInv, NEW t \in Threads, ReleaseLoad(t)
  PROVE  PtrInv'
<1>1. /\ pc[t] = "relLoad" /\ seen' = [seen EXCEPT ![t] = count[Releasing(t)]]
      /\ Quiet(t, "relStore") /\ mutex' = mutex
  BY DEF ReleaseLoad, Quiet, blockVars
<1>2. Releasing(t) \in Blocks /\ Releasing(t) = work[t][1].block
  BY <1>1, ReleasingIs DEF InRelease
<1>3. /\ pc'[t] = "relStore" /\ \A u \in Threads \ {t} : pc'[u] = pc[u]
      /\ UNCHANGED <<count, ptr, to, work>>
      /\ seen'[t] = count[work[t][1].block] /\ \A u \in Threads \ {t} : seen'[u] = seen[u]
  BY <1>1, <1>2 DEF Quiet, PtrInv, TypeInv
<1>4. TypeInv'
  BY <1>1, <1>2, QuietKeeps DEF PtrInv, TypeInv, Quiet
<1>5. MutexHeld'
  <2>1. \A u \in Threads, c \in Blocks : Holds(u, c)' <=> Holds(u, c)
    BY <1>1, <1>3 DEF Holds
  <2> QED  BY <1>1, <2>1 DEF PtrInv, MutexHeld
<1>6. SeenIsCount'
  BY <1>1, <1>3 DEF PtrInv, SeenIsCount
<1> QED  BY <1>1, <1>4, <1>5, <1>6, QuietKeeps DEF PtrInv

LEMMA AddLockKeeps ==
  ASSUME PtrInv, NEW t \in Threads, AddLock(t)
  PROVE  PtrInv'
<1>0. PICK b : b = ptr[to[t]]
  OBVIOUS
<1>1. /\ pc[t] = "addLock" /\ mutex[b] = None /\ mutex' = [mutex EXCEPT ![b] = t]
      /\ Quiet(t, "addLoad") /\ seen' = seen
  BY <1>0 DEF AddLock, Lock, Quiet
<1>2. b \in Blocks /\ work[t] = << >> /\ Len(work[t]) = 0
  <2>1. Adding(t) /\ ~InRelease(t)
    BY <1>1 DEF Adding, InRelease
  <2> QED  BY <1>0, <2>1, SourceCounted, EmptySeq DEF PtrInv, Control
<1>3. /\ pc'[t] = "addLoad" /\ \A u \in Threads \ {t} : pc'[u] = pc[u]
      /\ UNCHANGED <<count, ptr, to, work>>
  BY <1>1 DEF Quiet, PtrInv, TypeInv
<1>4. TypeInv'
  BY <1>1, <1>2, QuietKeeps DEF PtrInv, TypeInv, Quiet
<1>5. MutexHeld'
  <2>1. mutex'[b] = t /\ \A c \in Blocks \ {b} : mutex'[c] = mutex[c]
    BY <1>1, <1>2 DEF PtrInv, TypeInv
  <2>2. Holds(t, b)'
    BY <1>0, <1>2, <1>3 DEF Holds
  <2>3. \A u \in Threads : ~Holds(u, b)
    BY <1>1, <1>2, HandlesAre DEF PtrInv, MutexHeld
  <2>4. \A u \in Threads, c \in Blocks : u # t \/ c # b => (Holds(u, c)' <=> Holds(u, c))
    BY <1>0, <1>1, <1>2, <1>3 DEF Holds
  <2>5. \A u \in Threads \ {t} : ~Holds(u, b)' /\ mutex'[b] # u
    BY <1>2, <2>1, <2>3, <2>4
  <2> QED  BY <2>1, <2>2, <2>4, <2>5 DEF PtrInv, MutexHeld
<1>6. SeenIsCount'
  BY <1>1, <1>3 DEF PtrInv, SeenIsCount
<1> QED  BY <1>1, <1>4, <1>5, <1>6, QuietKeeps DEF PtrInv

LEMMA AddLoadKeeps ==
  ASSUME PtrInv, NEW t \in Threads, AddLoad(t)
  PROVE  PtrInv'
<1>1. /\ pc[t] = "addLoad" /\ seen' = [seen EXCEPT ![t] = count[ptr[to[t]]]]
      /\ Quiet(t, "addStore") /\ mutex' = mutex
  BY DEF AddLoad, Quiet, blockVars
<1>2. ptr[to[t]] \in Blocks /\ work[t] = << >> /\ Len(work[t]) = 0
  <2>1. Adding(t) /\ ~InRelease(t)
    BY <1>1 DEF Adding, InRelease
  <2> QED  BY <2>1, SourceCounted, EmptySeq DEF PtrInv, Control
<1>3. /\ pc'[t] = "addStore" /\ \A u \in Threads \ {t} : pc'[u] = pc[u]
      /\ UNCHANGED <<count, ptr, to, work>>
      /\ seen'[t] = count[ptr[to[t]]] /\ \A u \in Threads \ {t} : seen'[u] = seen[u]
  BY <1>1, <1>2 DEF Quiet, PtrInv, TypeInv
<1>4. TypeInv'
  BY <1>1, <1>2, QuietKeeps DEF PtrInv, TypeInv, Quiet
<1>5. MutexHeld'
  <2>1. \A u \in Threads, c \in Blocks : Holds(u, c)' <=> Holds(u, c)
    BY <1>1, <1>2, <1>3 DEF Holds
  <2> QED  BY <1>1, <2>1 DEF PtrInv, MutexHeld
<1>6. SeenIsCount'
  BY <1>1, <1>3 DEF PtrInv, SeenIsCount
<1> QED  BY <1>1, <1>4, <1>5, <1>6, QuietKeeps DEF PtrInv

\* The frames of a thread are of blocks, and none when it is not in a Release.
LEMMA FramesAre ==
  ASSUME PtrInv, NEW t \in Threads
  PROVE  /\ Len(work[t]) \in Nat
         /\ \A i \in 1..Len(work[t]) : work[t][i] \in Frame /\ work[t][i].block \in Blocks
         /\ ~InRelease(t) => work[t] = << >> /\ Len(work[t]) = 0
<1>1. work[t] \in Seq(Frame)
  BY DEF PtrInv, TypeInv
<1>2. Len(work[t]) \in Nat /\ \A i \in 1..Len(work[t]) : work[t][i] \in Frame
  BY <1>1, LenProperties, ElementOfSeq
<1>3. ~InRelease(t) => work[t] = << >>
  BY DEF PtrInv, Control
<1> QED  BY <1>2, <1>3, EmptySeq DEF Frame

\* A Release of a block that a thread is in, up to the store of the count, finds
\* the block there.
LEMMA DroppedIsLive ==
  ASSUME PtrInv, NEW b \in Blocks, Dropped(b) # {}
  PROVE  block[b] \in {"live", "null"}
BY DEF PtrInv, Counts

LEMMA ReadSourceKeeps ==
  ASSUME PtrInv, NEW t \in Threads, ReadSource(t)
  PROVE  PtrInv'
<1>0. PICK b, h : b = (IF from[t] = None THEN None ELSE ptr[from[t]]) /\ h = to[t]
  OBVIOUS
<1>1. /\ pc[t] = "read" /\ ptr' = [ptr EXCEPT ![h] = b]
      /\ b = None => Done(t)
      /\ b # None => pc' = [pc EXCEPT ![t] = "addLock"] /\ UNCHANGED <<to, from>>
      /\ UNCHANGED <<block, count, mutex, work, seen>>
  BY <1>0 DEF ReadSource, blockVars
<1>2. /\ h \in Handles /\ h \in Own(t) \cup Blocks /\ ptr[h] = None /\ h # None
      /\ h \in Blocks => block[h] = "live"
  BY <1>0, <1>1, HandlesAre DEF PtrInv, Control, KeptAlive
<1>3. /\ b \in Blocks \cup {None} /\ (b = None <=> from[t] = None)
      /\ from[t] # None => b = ptr[from[t]]
  BY <1>0, HandlesAre, SourceCounted DEF PtrInv, TypeInv, Control
<1>4. \A u \in Threads : from[u] # h /\ (u # t => to[u] # h)
  BY <1>0, <1>2 DEF PtrInv, Exclusive
<1>5. ptr'[h] = b /\ \A g \in Handles \ {h} : ptr'[g] = ptr[g]
  BY <1>1, <1>2 DEF PtrInv, TypeInv
<1>6. /\ pc'[t] \in {"idle", "addLock"}
      /\ pc'[t] = "idle" <=> b = None
      /\ pc'[t] = "idle" => to'[t] = None /\ from'[t] = None
      /\ pc'[t] = "addLock" => to'[t] = h /\ from'[t] = from[t]
      /\ \A u \in Threads \ {t} : pc'[u] = pc[u] /\ to'[u] = to[u] /\ from'[u] = from[u]
  BY <1>0, <1>1 DEF PtrInv, TypeInv, Done
<1>7. TypeInv'
  <2>1. ptr' \in [Handles -> Blocks \cup {None}]
    BY <1>1, <1>3 DEF PtrInv, TypeInv
  <2>2. CASE b = None
    BY <1>1, <2>1, <2>2 DEF PtrInv, TypeInv, Done
  <2>3. CASE b # None
    BY <1>1, <2>1, <2>3 DEF PtrInv, TypeInv
  <2> QED  BY <2>2, <2>3
<1>8. ~InRelease(t) /\ ~InRelease(t)' /\ ~Dropping(t) /\ ~Dropping(t)' /\ ~Adding(t)
      /\ \A u \in Threads \ {t} : /\ InRelease(u)' <=> InRelease(u)
                                  /\ Dropping(u)' <=> Dropping(u)
                                  /\ Adding(u)' <=> Adding(u)
  BY <1>1, <1>6 DEF InRelease, Dropping, Adding
<1>9. \A u \in Threads : to[u] \in Handles \cup {None} /\ from[u] \in Handles \cup {None}
  BY DEF PtrInv, TypeInv
<1>10. work[t] = << >> /\ Len(work[t]) = 0
  BY <1>8, FramesAre
<1>11. \A u \in Threads \ {t} : Control(u)'
  <2> SUFFICES ASSUME NEW u \in Threads \ {t}  PROVE Control(u)'
    OBVIOUS
  <2>1. from[u] # None => ptr'[from[u]] = ptr[from[u]]
    BY <1>4, <1>5, <1>9
  <2>2. pc[u] # "idle" => to[u] \in Handles \ {h} /\ ptr'[to[u]] = ptr[to[u]]
    BY <1>4, <1>5, <1>9, HandlesAre DEF PtrInv, Control
  <2> QED  BY <1>1, <1>6, <1>8, <2>1, <2>2 DEF PtrInv, Control, InRelease, Adding
<1>12. Control(t)'
  <2>1. from[t] # None => ptr'[from[t]] = b
    <3>1. from[t] # None => from[t] \in Handles \ {h}
      BY <1>4, <1>9
    <3> QED  BY <1>3, <1>5, <3>1
  <2>2. \A i \in 2..Len(work[t]) : FALSE
    BY <1>10
  <2> QED  BY <1>1, <1>2, <1>3, <1>5, <1>6, <1>8, <1>10, <2>1, <2>2, HandlesAre DEF PtrInv, Control, Adding
<1>13. \A u \in Threads : KeptAlive(u)'
  <2> SUFFICES ASSUME NEW u \in Threads  PROVE KeptAlive(u)'
    OBVIOUS
  <2>1. \A g \in Own(u) : ptr[g] # None => ptr'[g] = ptr[g]
    BY <1>2, <1>5, HandlesAre
  <2>2. /\ to'[u] \in Blocks => to'[u] = to[u]
        /\ from'[u] \in Blocks => from'[u] = from[u] /\ to'[u] = to[u]
    BY <1>0, <1>6, HandlesAre
  <2> QED  BY <1>1, <2>1, <2>2, HandlesAre DEF PtrInv, KeptAlive
<1>14. Exclusive'
  BY <1>0, <1>6 DEF PtrInv, Exclusive
<1>15. GoneIsEmpty'
  BY <1>1, <1>2, <1>5, HandlesAre DEF PtrInv, GoneIsEmpty
<1>16. DeletedOnce'
  <2>1. DeletedOnce
    BY DEF PtrInv
  <2> QED  BY <1>1, <1>6, <2>1 DEF DeletedOnce
<1>17. \A u \in Threads \ {t} : pc[u] # "idle" => ptr'[to[u]] = ptr[to[u]]
  BY <1>4, <1>5, <1>9, HandlesAre DEF PtrInv, Control
<1>18. MutexHeld'
  <2>1. \A c \in Blocks : ~Holds(t, c) /\ ~Holds(t, c)'
    BY <1>1, <1>6, <1>10 DEF Holds
  <2>2. \A u \in Threads \ {t}, c \in Blocks : Holds(u, c)' <=> Holds(u, c)
    BY <1>1, <1>6, <1>17 DEF Holds
  <2> QED  BY <1>1, <2>1, <2>2 DEF PtrInv, MutexHeld
<1>19. SeenIsCount'
  BY <1>1, <1>6, <1>17 DEF PtrInv, SeenIsCount
<1>20. \A c \in Blocks : Counts(c)'
  <2> SUFFICES ASSUME NEW c \in Blocks  PROVE Counts(c)'
    OBVIOUS
  <2>1. h \notin Counted(c)
    BY <1>2, HandlesAre DEF Counted
  <2>2. h \notin Counted(c)'
    <3>1. CASE b = None
      BY <1>5, <3>1, HandlesAre DEF Counted
    <3>2. CASE b # None
      <4>1. Adding(t)' /\ to'[t] = h
        BY <1>6, <3>2 DEF Adding
      <4> QED  BY <4>1 DEF Counted
    <3> QED  BY <3>1, <3>2
  <2>3. \A g \in Handles \ {h} : g \in Counted(c)' <=> g \in Counted(c)
    BY <1>5, <1>6, <1>8, HandlesAre DEF Counted
  <2>4. Counted(c)' = Counted(c)
    <3>1. Counted(c) \subseteq Handles /\ Counted(c)' \subseteq Handles
      BY DEF Counted
    <3> QED  BY <2>1, <2>2, <2>3, <3>1
  <2>5. Dropped(c)' = Dropped(c)
    BY <1>1, <1>8 DEF Dropped
  <2> QED  BY <1>1, <2>4, <2>5 DEF PtrInv, Counts
<1> QED  BY <1>7, <1>11, <1>12, <1>13, <1>14, <1>15, <1>16, <1>18, <1>19, <1>20 DEF PtrInv

LEMMA AddStoreKeeps ==
  ASSUME PtrInv, NEW t \in Threads, AddStore(t)
  PROVE  PtrInv'
<1>0. PICK b, h : b = ptr[to[t]] /\ h = to[t]
  OBVIOUS
<1>1. /\ pc[t] = "addStore" /\ count' = [count EXCEPT ![b] = seen[t] + 1]
      /\ mutex' = [mutex EXCEPT ![b] = None] /\ seen' = [seen EXCEPT ![t] = 0]
      /\ pc' = [pc EXCEPT ![t] = "idle"] /\ to' = [to EXCEPT ![t] = None]
      /\ from' = [from EXCEPT ![t] = None]
      /\ UNCHANGED <<block, ptr, work>>
  BY <1>0 DEF AddStore, Done
<1>2. Adding(t) /\ ~InRelease(t) /\ ~Dropping(t) /\ h \in Handles /\ h # None /\ ptr[h] = b
  BY <1>0, <1>1, HandlesAre DEF Adding, InRelease, Dropping, PtrInv, Control
<1>3. b \in Blocks
  BY <1>0, <1>2, SourceCounted DEF PtrInv, Control
<1>4. block[b] \in {"live", "null"}
  BY <1>2, <1>3, PointsToLive, HandlesAre
<1>5. work[t] = << >> /\ Len(work[t]) = 0
  BY <1>2, FramesAre
<1>6. /\ pc'[t] = "idle" /\ to'[t] = None /\ from'[t] = None
      /\ \A u \in Threads \ {t} : /\ pc'[u] = pc[u] /\ to'[u] = to[u] /\ from'[u] = from[u]
                                  /\ seen'[u] = seen[u]
      /\ mutex'[b] = None /\ \A c \in Blocks \ {b} : mutex'[c] = mutex[c]
      /\ count'[b] = count[b] + 1 /\ \A c \in Blocks \ {b} : count'[c] = count[c]
  BY <1>0, <1>1, <1>3 DEF PtrInv, TypeInv, SeenIsCount
<1>7. TypeInv'
  BY <1>1, <1>3 DEF PtrInv, TypeInv
<1>8. ~InRelease(t)' /\ ~Dropping(t)' /\ ~Adding(t)'
      /\ \A u \in Threads \ {t} : /\ InRelease(u)' <=> InRelease(u)
                                  /\ Dropping(u)' <=> Dropping(u)
                                  /\ Adding(u)' <=> Adding(u)
  BY <1>6 DEF InRelease, Dropping, Adding
<1>9. \A u \in Threads : Control(u)'
  <2>1. \A u \in Threads \ {t} : Control(u)'
    BY <1>1, <1>6, <1>8 DEF PtrInv, Control
  <2>2. \A i \in 2..Len(work[t]) : FALSE
    BY <1>5
  <2>3. Control(t)'
    BY <1>1, <1>5, <1>6, <1>8, <2>2 DEF Control
  <2> QED  BY <2>1, <2>3
<1>10. \A u \in Threads : KeptAlive(u)'
  BY <1>1, <1>6, HandlesAre DEF PtrInv, KeptAlive
<1>11. Exclusive' /\ GoneIsEmpty'
  BY <1>1, <1>6 DEF PtrInv, Exclusive, GoneIsEmpty
<1>12. DeletedOnce'
  BY <1>1, <1>6 DEF PtrInv, DeletedOnce
<1>13. Holds(t, b) /\ mutex[b] = t
  BY <1>0, <1>1, <1>3 DEF PtrInv, MutexHeld, Holds
<1>14. \A u \in Threads \ {t} : ~Holds(u, b)
  BY <1>3, <1>13 DEF PtrInv, MutexHeld
<1>15. MutexHeld'
  <2>1. \A c \in Blocks : ~Holds(t, c)' /\ (c # b => ~Holds(t, c))
    BY <1>0, <1>1, <1>5, <1>6 DEF Holds
  <2>2. \A u \in Threads \ {t}, c \in Blocks : Holds(u, c)' <=> Holds(u, c)
    BY <1>1, <1>6 DEF Holds
  <2> QED  BY <1>6, <1>14, <2>1, <2>2, HandlesAre DEF PtrInv, MutexHeld
<1>16. SeenIsCount'
  <2> SUFFICES ASSUME NEW u \in Threads \ {t}
               PROVE  /\ pc[u] = "relStore" => seen[u] = count'[work[u][1].block]
                      /\ pc[u] = "addStore" => seen[u] = count'[ptr[to[u]]]
    BY <1>1, <1>6 DEF SeenIsCount
  <2>1. ASSUME pc[u] = "relStore"  PROVE seen[u] = count'[work[u][1].block]
    <3>1. InRelease(u) /\ Dropping(u)
      BY <2>1 DEF InRelease, Dropping
    <3>2. work[u][1].block \in Blocks /\ Len(work[u]) \in Nat /\ Len(work[u]) >= 1
      BY <3>1, ReleasingIs
    <3>3. Holds(u, work[u][1].block)
      BY <2>1, <3>2 DEF Holds
    <3>4. seen[u] = count[work[u][1].block]
      BY <2>1 DEF PtrInv, SeenIsCount
    <3> QED  BY <1>6, <1>14, <3>2, <3>3, <3>4
  <2>2. ASSUME pc[u] = "addStore"  PROVE seen[u] = count'[ptr[to[u]]]
    <3>1. Adding(u)
      BY <2>2 DEF Adding
    <3>2. ptr[to[u]] \in Blocks
      BY <3>1, SourceCounted DEF PtrInv, Control
    <3>3. Holds(u, ptr[to[u]])
      BY <2>2 DEF Holds
    <3> QED  BY <1>6, <1>14, <2>2, <3>2, <3>3 DEF PtrInv, SeenIsCount
  <2> QED  BY <2>1, <2>2
<1>17. \A c \in Blocks : Counts(c)'
  <2> SUFFICES ASSUME NEW c \in Blocks  PROVE Counts(c)'
    OBVIOUS
  <2>1. Dropped(c)' = Dropped(c)
    BY <1>1, <1>2, <1>8 DEF Dropped
  <2>2. h \notin Counted(c)
    BY <1>0, <1>2 DEF Counted
  <2>3. \A u \in Threads \ {t} : to[u] # h
    BY <1>0, <1>2 DEF PtrInv, Exclusive
  <2>4. CASE c # b
    <3>1. Counted(c)' = Counted(c)
      BY <1>0, <1>1, <1>2, <1>6, <1>8, <2>4 DEF Counted
    <3> QED  BY <1>1, <1>6, <2>1, <2>4, <3>1 DEF PtrInv, Counts
  <2>5. CASE c = b
    <3>1. Counted(b)' = Counted(b) \cup {h}
      BY <1>0, <1>1, <1>2, <1>6, <1>8, <2>3 DEF Counted
    <3>2. Cardinality(Counted(b) \cup {h}) = Cardinality(Counted(b)) + 1
      BY <2>2, <2>5, SetsFinite, FS_AddElement
    <3>3. Cardinality(Counted(b)) \in Nat /\ Cardinality(Dropped(b)) \in Nat
      BY SetsFinite, FS_CardinalityType
    <3> QED  BY <1>1, <1>4, <1>6, <2>1, <2>5, <3>1, <3>2, <3>3 DEF PtrInv, Counts
  <2> QED  BY <2>4, <2>5
<1> QED  BY <1>7, <1>9, <1>10, <1>11, <1>12, <1>15, <1>16, <1>17 DEF PtrInv

\* A handle that no call uses is not among those it writes and reads.
LEMMA NotUsed ==
  ASSUME PtrInv, NEW h \in Handles, ~Used(h), NEW u \in Threads
  PROVE  to[u] # h /\ from[u] # h
BY HandlesAre DEF PtrInv, Control, Used

LEMMA ConstructKeeps ==
  ASSUME PtrInv, NEW t \in Threads, NEW h \in Handles, NEW b \in Blocks, Construct(t, h, b)
  PROVE  PtrInv'
<1>1. /\ pc[t] = "idle" /\ h \in Reach(t, None) /\ ptr[h] = None /\ ~Used(h)
      /\ block[b] = "free" /\ count' = [count EXCEPT ![b] = 1]
      /\ ptr' = [ptr EXCEPT ![h] = b]
      /\ UNCHANGED <<mutex, pc, to, from, work, seen>>
  BY DEF Construct
<1>2. PICK kind \in {"live", "null"} : block' = [block EXCEPT ![b] = kind]
  BY DEF Construct
<1>3. /\ block'[b] = kind /\ \A c \in Blocks \ {b} : block'[c] = block[c]
      /\ count'[b] = 1 /\ \A c \in Blocks \ {b} : count'[c] = count[c]
      /\ ptr'[h] = b /\ \A g \in Handles \ {h} : ptr'[g] = ptr[g]
  BY <1>1, <1>2 DEF PtrInv, TypeInv
<1>4. \A u \in Threads : to[u] # h /\ from[u] # h
  BY <1>1, NotUsed
<1>5. \A u \in Threads : to[u] # b /\ from[u] # b
  BY <1>1, UsedIsLive
<1>6. /\ \A g \in Handles : ptr[g] # b
      /\ Counted(b) = {} /\ Dropped(b) = {} /\ ptr[b] = None
  <2>1. \A g \in Handles : ptr[g] # b
    BY <1>1, PointsToLive, HandlesAre
  <2>2. Counted(b) = {} /\ Dropped(b) = {}
    BY <1>1 DEF PtrInv, Counts
  <2> QED  BY <1>1, <2>1, <2>2 DEF PtrInv, GoneIsEmpty
<1>7. h # b /\ (h \in Blocks => block[h] = "live")
  BY <1>1, HandlesAre DEF Reach
<1>8. \A u \in Threads : to[u] \in Handles \cup {None} /\ from[u] \in Handles \cup {None}
  BY DEF PtrInv, TypeInv
<1>9. \A u \in Threads : /\ InRelease(u)' <=> InRelease(u)
                         /\ Dropping(u)' <=> Dropping(u)
                         /\ Adding(u)' <=> Adding(u)
  BY <1>1 DEF InRelease, Dropping, Adding
<1>10. TypeInv'
  BY <1>1, <1>2 DEF PtrInv, TypeInv
<1>11. \A u \in Threads : /\ to[u] # None => ptr'[to[u]] = ptr[to[u]]
                          /\ from[u] # None => ptr'[from[u]] = ptr[from[u]]
  BY <1>3, <1>4, <1>8
<1>12. \A u \in Threads : pc[u] # "idle" => to[u] # None
  BY HandlesAre DEF PtrInv, Control
<1>13. \A u \in Threads : Control(u)'
  BY <1>1, <1>9, <1>11, <1>12 DEF PtrInv, Control, InRelease, Adding
<1>14. \A u \in Threads : KeptAlive(u)'
  <2> SUFFICES ASSUME NEW u \in Threads  PROVE KeptAlive(u)'
    OBVIOUS
  <2>1. \A g \in Own(u) : ptr[g] # None => ptr'[g] = ptr[g]
    BY <1>1, <1>3, HandlesAre
  <2>2. to[u] \in Blocks => block'[to[u]] = block[to[u]]
    BY <1>3, <1>5
  <2> QED  BY <1>1, <2>1, <2>2, HandlesAre DEF PtrInv, KeptAlive
<1>15. Exclusive'
  BY <1>1 DEF PtrInv, Exclusive
<1>16. GoneIsEmpty'
  BY <1>3, <1>6, <1>7, HandlesAre DEF PtrInv, GoneIsEmpty
<1>17. DeletedOnce'
  <2>1. \A u \in Threads : \A i \in 1..Len(work[u]) : work[u][i].block \in Blocks
    BY FramesAre
  <2>2. \A u \in Threads : \A i \in 1..Len(work[u]) : 
          work[u][i].delete => block'[work[u][i].block] = "deleted"
    BY <1>1, <1>3, <2>1 DEF PtrInv, DeletedOnce
  <2>3. \A u \in Threads :
          pc[u] = "relUnlock" /\ ~work[u][1].delete => block'[work[u][1].block] \in {"live", "null"}
    <3> SUFFICES ASSUME NEW u \in Threads, pc[u] = "relUnlock", ~work[u][1].delete
                 PROVE  block'[work[u][1].block] \in {"live", "null"}
      OBVIOUS
    <3>1. block[work[u][1].block] \in {"live", "null"}
      BY DEF PtrInv, DeletedOnce
    <3>2. work[u][1].block \in Blocks
      BY ReleasingIs DEF InRelease
    <3> QED  BY <1>1, <1>3, <3>1, <3>2
  <2> QED  BY <1>1, <2>2, <2>3 DEF PtrInv, DeletedOnce
<1>18. MutexHeld'
  <2>1. \A u \in Threads, c \in Blocks : Holds(u, c)' <=> Holds(u, c)
    BY <1>1, <1>11, <1>12 DEF Holds
  <2> QED  BY <1>1, <2>1 DEF PtrInv, MutexHeld
<1>19. SeenIsCount'
  <2>1. \A u \in Threads : pc[u] = "relStore" => count'[work[u][1].block] = count[work[u][1].block]
    <3> SUFFICES ASSUME NEW u \in Threads, pc[u] = "relStore"
                 PROVE  count'[work[u][1].block] = count[work[u][1].block]
      OBVIOUS
    <3>1. work[u][1].block \in Blocks /\ u \in Dropped(work[u][1].block)
      BY ReleasingIs DEF InRelease, Dropping, Dropped
    <3> QED  BY <1>3, <1>6, <3>1
  <2>2. \A u \in Threads : pc[u] = "addStore" => count'[ptr[to[u]]] = count[ptr[to[u]]]
    <3> SUFFICES ASSUME NEW u \in Threads, pc[u] = "addStore"
                 PROVE  count'[ptr[to[u]]] = count[ptr[to[u]]]
      OBVIOUS
    <3>1. ptr[to[u]] \in Blocks /\ to[u] \in Handles
      BY <1>8, <1>12, SourceCounted DEF PtrInv, Control, Adding
    <3> QED  BY <1>3, <1>6, <3>1
  <2> QED  BY <1>1, <1>11, <1>12, <2>1, <2>2 DEF PtrInv, SeenIsCount
<1>20. \A c \in Blocks : Counts(c)'
  <2> SUFFICES ASSUME NEW c \in Blocks  PROVE Counts(c)'
    OBVIOUS
  <2>1. Dropped(c)' = Dropped(c)
    BY <1>1, <1>9 DEF Dropped
  <2>2. CASE c # b
    <3>1. Counted(c)' = Counted(c)
      BY <1>1, <1>3, <1>9, <2>2, HandlesAre DEF Counted
    <3> QED  BY <1>3, <2>1, <2>2, <3>1 DEF PtrInv, Counts
  <2>3. CASE c = b
    <3>1. Counted(b)' = {h}
      BY <1>1, <1>3, <1>4, <1>6, <1>9 DEF Counted
    <3>2. Cardinality({h}) = 1 /\ Cardinality({}) = 0
      BY FS_Singleton, FS_EmptySet
    <3> QED  BY <1>3, <1>6, <2>1, <2>3, <3>1, <3>2 DEF Counts
  <2> QED  BY <2>2, <2>3
<1> QED  BY <1>10, <1>13, <1>14, <1>15, <1>16, <1>17, <1>18, <1>19, <1>20 DEF PtrInv

\* A handle given up by a Release about to begin.
LEMMA MovedCount ==
  ASSUME NEW S, NEW T, NEW x \in S, NEW t, t \notin T, IsFiniteSet(S), IsFiniteSet(T)
  PROVE  /\ Cardinality(S \ {x}) = Cardinality(S) - 1
         /\ Cardinality(T \cup {t}) = Cardinality(T) + 1
         /\ Cardinality(S) \in Nat /\ Cardinality(T) \in Nat
BY FS_RemoveElement, FS_AddElement, FS_CardinalityType

\* A handle that a thread reaches is its own, or inside a live object that another
\* handle of its own points to.
LEMMA ReachIs ==
  ASSUME PtrInv, NEW t \in Threads, NEW other, NEW g \in Reach(t, other)
  PROVE  /\ g \in Handles /\ g \in Own(t) \cup Blocks
         /\ g \in Blocks => block[g] = "live" /\ \E x \in Own(t) \ {other} : ptr[x] = g
<1>1. CASE g \in Own(t)
  BY <1>1, HandlesAre
<1>2. CASE g \notin Own(t)
  <2>1. g \in {ptr[x] : x \in Own(t) \ {other}} \ {None} /\ block[g] = "live"
    BY <1>2 DEF Reach
  <2>2. PICK x \in Own(t) \ {other} : ptr[x] = g
    BY <2>1
  <2>3. ptr[x] \in Blocks \cup {None}
    BY HandlesAre DEF PtrInv, TypeInv
  <2> QED  BY <2>1, <2>2, <2>3, HandlesAre
<1> QED  BY <1>1, <1>2

LEMMA BeginKeeps ==
  ASSUME PtrInv, NEW t \in Threads, NEW h \in Handles, NEW g \in Handles \cup {None},
         Begin(t, h, g)
  PROVE  PtrInv'
<1>1. /\ pc[t] = "idle" /\ h \in Reach(t, None) /\ ~Used(h) /\ g \in Sources(t, h)
      /\ to' = [to EXCEPT ![t] = h] /\ from' = [from EXCEPT ![t] = g]
      /\ UNCHANGED <<block, count, mutex, seen>>
  BY DEF Begin, blockVars
<1>2. /\ ptr[h] = None => /\ g # None /\ pc' = [pc EXCEPT ![t] = "read"]
                          /\ UNCHANGED <<work, ptr>>
      /\ ptr[h] # None => /\ g # None => ~SameObject(ptr[h], ptr[g])
                          /\ pc' = [pc EXCEPT ![t] = "relLock"]
                          /\ work' = [work EXCEPT ![t] = <<[block |-> ptr[h], delete |-> FALSE]>>]
                          /\ ptr' = [ptr EXCEPT ![h] = None]
  BY DEF Begin
<1>3. /\ h \in Own(t) \cup Blocks
      /\ h \in Blocks => block[h] = "live" /\ \E x \in Own(t) : ptr[x] = h
  BY <1>1, ReachIs
<1>4. g # None => /\ g \in Handles /\ ptr[g] # None /\ ~Written(g)
                  /\ g \in Blocks => \E x \in Own(t) \ {h} : ptr[x] = g
  <2>1. g # None => (g \in Slots \/ g \in Reach(t, h)) /\ ptr[g] # None /\ ~Written(g)
    BY <1>1 DEF Sources
  <2>2. g \in Slots => g \in Handles /\ g \notin Blocks
    BY PointersAssumption DEF Handles
  <2> QED  BY <2>1, <2>2, ReachIs
<1>5. g # h
  BY <1>2, <1>4, HandlesAre DEF SameObject
<1>6. \A u \in Threads : to[u] # h /\ from[u] # h
  BY <1>1, NotUsed
<1>7. \A u \in Threads : to[u] # None => to[u] # g
  BY <1>4, HandlesAre DEF PtrInv, Control, Written
<1>8. ptr'[h] = None /\ \A x \in Handles \ {h} : ptr'[x] = ptr[x]
  BY <1>2 DEF PtrInv, TypeInv
<1>9. /\ pc'[t] \in {"read", "relLock"} /\ (pc'[t] = "read" <=> ptr[h] = None)
      /\ to'[t] = h /\ from'[t] = g
      /\ \A u \in Threads \ {t} : /\ pc'[u] = pc[u] /\ to'[u] = to[u] /\ from'[u] = from[u]
                                  /\ work'[u] = work[u]
  BY <1>1, <1>2 DEF PtrInv, TypeInv
<1>10. ~InRelease(t) /\ ~Adding(t) /\ ~Adding(t)' /\ ~Dropping(t)
       /\ \A u \in Threads \ {t} : /\ InRelease(u)' <=> InRelease(u)
                                   /\ Dropping(u)' <=> Dropping(u)
                                   /\ Adding(u)' <=> Adding(u)
  BY <1>1, <1>9 DEF InRelease, Dropping, Adding
<1>11. work[t] = << >> /\ Len(work[t]) = 0
  BY <1>10, FramesAre
<1>12. ptr[h] # None =>
         /\ ptr[h] \in Blocks
         /\ Dropping(t)' /\ InRelease(t)'
         /\ work'[t] = <<[block |-> ptr[h], delete |-> FALSE]>> /\ work'[t] # << >>
         /\ Len(work'[t]) = 1 /\ work'[t][1].block = ptr[h] /\ ~work'[t][1].delete
  <2> SUFFICES ASSUME ptr[h] # None
               PROVE  /\ ptr[h] \in Blocks
                      /\ Dropping(t)' /\ InRelease(t)'
                      /\ work'[t] = <<[block |-> ptr[h], delete |-> FALSE]>> /\ work'[t] # << >>
                      /\ Len(work'[t]) = 1 /\ work'[t][1].block = ptr[h] /\ ~work'[t][1].delete
    OBVIOUS
  <2>1. ptr[h] \in Blocks
    BY DEF PtrInv, TypeInv
  <2>2. Dropping(t)' /\ InRelease(t)'
    BY <1>9 DEF Dropping, InRelease
  <2>3. work'[t] = <<[block |-> ptr[h], delete |-> FALSE]>>
    BY <1>2 DEF PtrInv, TypeInv
  <2> QED  BY <2>1, <2>2, <2>3
<1>13. ptr[h] = None => ~Dropping(t)' /\ ~InRelease(t)' /\ work'[t] = << >> /\ Len(work'[t]) = 0
  BY <1>2, <1>9, <1>11 DEF Dropping, InRelease
<1>14. TypeInv'
  <2>1. to' \in [Threads -> Handles \cup {None}] /\ from' \in [Threads -> Handles \cup {None}]
    BY <1>1 DEF PtrInv, TypeInv
  <2>2. pc' \in [Threads -> {"idle", "relLock", "relLoad", "relStore", "relUnlock", "relMutex",
                             "read", "addLock", "addLoad", "addStore"}]
        /\ ptr' \in [Handles -> Blocks \cup {None}]
    BY <1>2 DEF PtrInv, TypeInv
  <2>3. work' \in [Threads -> Seq(Frame)]
    <3>1. CASE ptr[h] = None
      BY <1>2, <3>1 DEF PtrInv, TypeInv
    <3>2. CASE ptr[h] # None
      <4>1. [block |-> ptr[h], delete |-> FALSE] \in Frame
        BY <1>12, <3>2 DEF Frame
      <4>2. <<[block |-> ptr[h], delete |-> FALSE]>> \in Seq(Frame)
        BY <4>1
      <4> QED  BY <1>2, <3>2, <4>2 DEF PtrInv, TypeInv
    <3> QED  BY <3>1, <3>2
  <2> QED  BY <1>1, <2>1, <2>2, <2>3 DEF PtrInv, TypeInv
<1>15. \A u \in Threads : to[u] \in Handles \cup {None} /\ from[u] \in Handles \cup {None}
  BY DEF PtrInv, TypeInv
<1>16. \A u \in Threads : pc[u] # "idle" => to[u] # None
  BY HandlesAre DEF PtrInv, Control
<1>17. \A u \in Threads : /\ to[u] # None => ptr'[to[u]] = ptr[to[u]]
                          /\ from[u] # None => ptr'[from[u]] = ptr[from[u]]
  BY <1>6, <1>8, <1>15
<1>18. \A u \in Threads : Control(u)'
  <2>1. \A u \in Threads \ {t} : Control(u)'
    BY <1>1, <1>9, <1>10, <1>16, <1>17 DEF PtrInv, Control, InRelease, Adding
  <2>2. g # None => ptr'[g] # None
    BY <1>4, <1>5, <1>8
  <2>3. \A i \in 2..Len(work'[t]) : FALSE
    <3>1. ASSUME NEW n \in {0, 1}  PROVE \A i \in 2..n : FALSE
      OBVIOUS
    <3> QED  BY <1>12, <1>13, <3>1
  <2>4. Control(t)'
    BY <1>3, <1>8, <1>9, <1>10, <1>12, <1>13, <2>2, <2>3 DEF Control
  <2> QED  BY <2>1, <2>4
<1>19. \A u \in Threads : KeptAlive(u)'
  <2>1. ASSUME NEW u \in Threads \ {t}  PROVE KeptAlive(u)'
    <3>1. \A x \in Own(u) : ptr'[x] = ptr[x]
      BY <1>3, <1>8, HandlesAre
    <3> QED  BY <1>1, <1>9, <3>1 DEF PtrInv, KeptAlive
  <2>2. KeptAlive(t)'
    <3>1. \A x \in Own(t) \ {h} : ptr'[x] = ptr[x]
      BY <1>8, HandlesAre
    <3>2. h \in Blocks => block[h] = "live" /\ \E x \in Own(t) : ptr'[x] = h
      BY <1>3, <3>1, HandlesAre
    <3> QED  BY <1>1, <1>4, <1>9, <3>1, <3>2, HandlesAre DEF KeptAlive
  <2> QED  BY <2>1, <2>2
<1>20. Exclusive'
  <2> SUFFICES ASSUME NEW u \in Threads, NEW v \in Threads, to'[u] # None
               PROVE  to'[u] # from'[v] /\ (u # v => to'[u] # to'[v])
    BY DEF Exclusive
  <2> QED  BY <1>5, <1>6, <1>7, <1>9, HandlesAre DEF PtrInv, Exclusive
<1>21. GoneIsEmpty'
  BY <1>1, <1>8, HandlesAre DEF PtrInv, GoneIsEmpty
<1>22. DeletedOnce'
  <2>1. \A i \in 1..Len(work'[t]) : ~work'[t][i].delete
    BY <1>12, <1>13
  <2> QED  BY <1>1, <1>9, <2>1 DEF PtrInv, DeletedOnce
<1>23. MutexHeld'
  <2>1. \A c \in Blocks : ~Holds(t, c)
    BY <1>1, <1>11 DEF Holds
  <2>2. \A c \in Blocks : ~Holds(t, c)'
    BY <1>9, <1>12, <1>13 DEF Holds
  <2>3. \A u \in Threads \ {t}, c \in Blocks : Holds(u, c)' <=> Holds(u, c)
    BY <1>9, <1>16, <1>17 DEF Holds
  <2> QED  BY <1>1, <2>1, <2>2, <2>3 DEF PtrInv, MutexHeld
<1>24. SeenIsCount'
  BY <1>1, <1>9, <1>16, <1>17 DEF PtrInv, SeenIsCount
<1>25. \A c \in Blocks : Counts(c)'
  <2> SUFFICES ASSUME NEW c \in Blocks  PROVE Counts(c)'
    OBVIOUS
  <2>1. c # ptr[h] => h \notin Counted(c) /\ Counted(c)' = Counted(c) /\ Dropped(c)' = Dropped(c)
    <3>1. c # ptr[h] => h \notin Counted(c) /\ h \notin Counted(c)'
      BY <1>8, HandlesAre DEF Counted
    <3>2. \A x \in Handles \ {h} : x \in Counted(c)' <=> x \in Counted(c)
      BY <1>8, <1>9, <1>10 DEF Counted
    <3>3. Counted(c) \subseteq Handles /\ Counted(c)' \subseteq Handles
      BY DEF Counted
    <3>4. c # ptr[h] => Dropped(c)' = Dropped(c)
      BY <1>9, <1>10, <1>12, <1>13 DEF Dropped
    <3> QED  BY <3>1, <3>2, <3>3, <3>4
  <2>2. CASE c # ptr[h]
    BY <1>1, <2>1, <2>2 DEF PtrInv, Counts
  <2>3. CASE c = ptr[h]
    <3>1. h \in Counted(c) /\ t \notin Dropped(c)
      BY <1>6, <1>10, <2>3 DEF Counted, Dropped
    <3>2. Counted(c)' = Counted(c) \ {h}
      BY <1>8, <1>9, <1>10, <2>3, HandlesAre DEF Counted
    <3>3. Dropped(c)' = Dropped(c) \cup {t}
      BY <1>9, <1>10, <1>12, <2>3, HandlesAre DEF Dropped
    <3>4. block[c] \in {"live", "null"}
      BY <2>3, PointsToLive, HandlesAre
    <3>5. /\ Cardinality(Counted(c) \ {h}) = Cardinality(Counted(c)) - 1
          /\ Cardinality(Dropped(c) \cup {t}) = Cardinality(Dropped(c)) + 1
          /\ Cardinality(Counted(c)) \in Nat /\ Cardinality(Dropped(c)) \in Nat
      BY <3>1, SetsFinite, MovedCount
    <3> QED  BY <1>1, <3>2, <3>3, <3>4, <3>5 DEF PtrInv, Counts
  <2> QED  BY <2>2, <2>3
<1> QED  BY <1>14, <1>18, <1>19, <1>20, <1>21, <1>22, <1>23, <1>24, <1>25 DEF PtrInv

\* A thread that is done with the innermost Release goes on in the next one, which
\* deletes, or in its call.
LEMMA ReturnKeeps ==
  ASSUME PtrInv, NEW t \in Threads, pc[t] \in {"relUnlock", "relMutex"}, Return(t),
         UNCHANGED <<count, ptr, to, from, seen>>
  PROVE  /\ work' \in [Threads -> Seq(Frame)]
         /\ pc' \in [Threads -> {"idle", "relLock", "relLoad", "relStore", "relUnlock",
                                 "relMutex", "read", "addLock", "addLoad", "addStore"}]
         /\ \A u \in Threads \ {t} : pc'[u] = pc[u] /\ work'[u] = work[u]
         /\ pc'[t] \in {"relUnlock", "read"}
         /\ Len(work'[t]) = Len(work[t]) - 1
         /\ \A i \in 1..Len(work'[t]) : work'[t][i] = work[t][i + 1] /\ work'[t][i].delete
         /\ \A u \in Threads : Control(u)'
         /\ Exclusive' /\ SeenIsCount'
         /\ \A u, v \in Threads : \A i \in 1..Len(work'[u]), j \in 1..Len(work'[v]) :
              work'[u][i].delete /\ work'[v][j].delete /\ work'[u][i].block = work'[v][j].block
                => u = v /\ i = j
         /\ pc'[t] = "relUnlock" => work'[t][1].delete
         /\ \A u \in Threads \ {t}, c \in Blocks : Holds(u, c)' <=> Holds(u, c)
         /\ \A c \in Blocks : Holds(t, c)' <=> \E i \in 2..Len(work[t]) : work[t][i].block = c
         /\ \A c \in Blocks : Counted(c)' = Counted(c) /\ Dropped(c)' = Dropped(c)
<1>0. InRelease(t) /\ ~Dropping(t) /\ ~Adding(t)
  BY DEF InRelease, Dropping, Adding
<1>1. /\ work[t] \in Seq(Frame) /\ Len(work[t]) \in Nat /\ Len(work[t]) >= 1 /\ work[t] # << >>
      /\ \A i \in 2..Len(work[t]) : work[t][i].delete
  BY <1>0, ReleasingIs DEF PtrInv, Control
<1>2. /\ Tail(work[t]) \in Seq(Frame) /\ Len(Tail(work[t])) = Len(work[t]) - 1
      /\ \A i \in 1..Len(Tail(work[t])) : Tail(work[t])[i] = work[t][i + 1]
  BY <1>1, HeadTailProperties
<1>3. /\ work' = [work EXCEPT ![t] = Tail(work[t])]
      /\ pc' = [pc EXCEPT ![t] = IF Len(work[t]) > 1 THEN "relUnlock" ELSE "read"]
  BY DEF Return
<1>4. work' \in [Threads -> Seq(Frame)]
  BY <1>2, <1>3 DEF PtrInv, TypeInv
<1>5. pc' \in [Threads -> {"idle", "relLock", "relLoad", "relStore", "relUnlock",
                           "relMutex", "read", "addLock", "addLoad", "addStore"}]
  BY <1>3 DEF PtrInv, TypeInv
<1>6. /\ \A u \in Threads \ {t} : pc'[u] = pc[u] /\ work'[u] = work[u]
      /\ work'[t] = Tail(work[t])
      /\ pc'[t] = IF Len(work[t]) > 1 THEN "relUnlock" ELSE "read"
  BY <1>3 DEF PtrInv, TypeInv
<1>7. /\ Len(work'[t]) = Len(work[t]) - 1
      /\ \A i \in 1..Len(work'[t]) : work'[t][i] = work[t][i + 1] /\ work'[t][i].delete
  BY <1>1, <1>2, <1>6
<1>8. /\ ~Dropping(t)' /\ ~Adding(t)' /\ (InRelease(t)' <=> pc'[t] = "relUnlock")
      /\ \A u \in Threads \ {t} : /\ InRelease(u)' <=> InRelease(u)
                                  /\ Dropping(u)' <=> Dropping(u)
                                  /\ Adding(u)' <=> Adding(u)
  BY <1>6 DEF InRelease, Dropping, Adding
<1>9. InRelease(t)' <=> work'[t] # << >>
  <2>1. Len(work'[t]) > 0 <=> work'[t] # << >>
    BY <1>2, <1>6, EmptySeq, LenProperties
  <2>2. pc'[t] = "relUnlock" <=> Len(work[t]) > 1
    BY <1>1, <1>6
  <2> QED  BY <1>1, <1>7, <1>8, <2>1, <2>2
<1>10. \A u \in Threads : Control(u)'
  <2>1. \A u \in Threads \ {t} : Control(u)'
    BY <1>6, <1>8 DEF PtrInv, Control
  <2>2. \A i \in 2..Len(work'[t]) : work'[t][i].delete
    BY <1>1, <1>7
  <2>3. /\ to[t] \in Own(t) \cup Blocks /\ ptr[to[t]] = None
        /\ from[t] # None => ptr[from[t]] # None
    BY <1>0 DEF PtrInv, Control
  <2>4. Control(t)'
    BY <1>6, <1>8, <1>9, <2>2, <2>3 DEF Control
  <2> QED  BY <2>1, <2>4
<1>11. Exclusive'
  BY DEF PtrInv, Exclusive
<1>12. SeenIsCount'
  BY <1>6 DEF PtrInv, SeenIsCount
<1>13. \A u, v \in Threads : \A i \in 1..Len(work'[u]), j \in 1..Len(work'[v]) :
         work'[u][i].delete /\ work'[v][j].delete /\ work'[u][i].block = work'[v][j].block
           => u = v /\ i = j
  <2> DEFINE shift(u, i) == IF u = t THEN i + 1 ELSE i
  <2>1. \A u \in Threads : \A i \in 1..Len(work'[u]) :
          i \in Int /\ shift(u, i) \in 1..Len(work[u]) /\ work'[u][i] = work[u][shift(u, i)]
    <3> SUFFICES ASSUME NEW u \in Threads, NEW i \in 1..Len(work'[u])
                 PROVE  i \in Int /\ shift(u, i) \in 1..Len(work[u])
                        /\ work'[u][i] = work[u][shift(u, i)]
      OBVIOUS
    <3>1. CASE u = t
      <4>1. i \in 1..Len(work'[t]) /\ shift(u, i) = i + 1
        BY <3>1
      <4> QED  BY <1>1, <1>7, <3>1, <4>1
    <3>2. CASE u # t
      BY <1>6, <3>2
    <3> QED  BY <3>1, <3>2
  <2>2. \A u, v \in Threads : \A i \in 1..Len(work[u]), j \in 1..Len(work[v]) :
          work[u][i].delete /\ work[v][j].delete /\ work[u][i].block = work[v][j].block
            => u = v /\ i = j
    BY DEF PtrInv, DeletedOnce
  <2>3. \A u \in Threads : \A i, j \in Int : shift(u, i) = shift(u, j) => i = j
    OBVIOUS
  <2> HIDE DEF shift
  <2>4. SUFFICES ASSUME NEW u \in Threads, NEW v \in Threads,
                 NEW i \in 1..Len(work'[u]), NEW j \in 1..Len(work'[v]),
                 work'[u][i].delete, work'[v][j].delete, work'[u][i].block = work'[v][j].block
               PROVE  u = v /\ i = j
    OBVIOUS
  <2>5. u = v /\ shift(u, i) = shift(v, j)
    <3>1. work'[u][i] = work[u][shift(u, i)] /\ shift(u, i) \in 1..Len(work[u])
      BY <2>1
    <3>2. work'[v][j] = work[v][shift(v, j)] /\ shift(v, j) \in 1..Len(work[v])
      BY <2>1
    <3> QED  BY <2>2, <2>4, <3>1, <3>2
  <2> QED  BY <2>1, <2>3, <2>5
<1>14. pc'[t] = "relUnlock" => work'[t][1].delete
  BY <1>1, <1>6, <1>7
<1>15. \A u \in Threads \ {t}, c \in Blocks : Holds(u, c)' <=> Holds(u, c)
  BY <1>6 DEF Holds
<1>16. \A c \in Blocks : Holds(t, c)' <=> \E i \in 2..Len(work[t]) : work[t][i].block = c
  <2> SUFFICES ASSUME NEW c \in Blocks
               PROVE  Holds(t, c)' <=> \E i \in 2..Len(work[t]) : work[t][i].block = c
    OBVIOUS
  <2>1. Holds(t, c)' <=> \E i \in 1..Len(work'[t]) : work'[t][i].block = c
    <3>1. pc'[t] = "relUnlock" \/ Len(work'[t]) < 1
      <4>1. CASE Len(work[t]) > 1
        BY <1>6, <4>1
      <4>2. CASE ~(Len(work[t]) > 1)
        BY <1>1, <1>7, <4>2
      <4> QED  BY <4>1, <4>2
    <3>2. pc'[t] \notin {"addLoad", "addStore"}
      BY <1>6
    <3>3. \A i \in 1..Len(work'[t]) : pc'[t] = "relUnlock"
      BY <3>1
    <3> QED  BY <3>2, <3>3 DEF Holds
  <2>2. \A i \in 2..Len(work[t]) : i - 1 \in 1..Len(work'[t]) /\ work'[t][i - 1] = work[t][i]
    BY <1>1, <1>7
  <2>3. \A i \in 1..Len(work'[t]) : i + 1 \in 2..Len(work[t]) /\ work'[t][i] = work[t][i + 1]
    BY <1>1, <1>7
  <2> QED  BY <2>1, <2>2, <2>3
<1>17. \A c \in Blocks : Counted(c)' = Counted(c) /\ Dropped(c)' = Dropped(c)
  BY <1>0, <1>6, <1>8 DEF Counted, Dropped
<1>18. pc'[t] \in {"relUnlock", "read"}
  BY <1>6
<1> QED  BY <1>4, <1>5, <1>6, <1>7, <1>10, <1>11, <1>12, <1>13, <1>14, <1>15, <1>16, <1>17, <1>18

\* At the unlock, and while it deletes, a Release has no inner frame of its block.
LEMMA FrameOnce ==
  ASSUME PtrInv, NEW t \in Threads, pc[t] \in {"relUnlock", "relMutex"}
  PROVE  \A i \in 2..Len(work[t]) : work[t][i].block # work[t][1].block
<1>0. InRelease(t)
  BY DEF InRelease
<1>1. Len(work[t]) \in Nat /\ Len(work[t]) >= 1 /\ \A i \in 2..Len(work[t]) : work[t][i].delete
  BY <1>0, ReleasingIs DEF PtrInv, Control
<1> SUFFICES ASSUME NEW i \in 2..Len(work[t])  PROVE work[t][i].block # work[t][1].block
  OBVIOUS
<1>2. i \in 1..Len(work[t]) /\ 1 \in 1..Len(work[t]) /\ i # 1 /\ work[t][i].delete
  BY <1>1
<1>3. CASE work[t][1].delete
  BY <1>2, <1>3 DEF PtrInv, DeletedOnce
<1>4. CASE ~work[t][1].delete
  <2>1. pc[t] = "relUnlock"
    BY <1>4 DEF PtrInv, Control
  <2>2. block[work[t][1].block] \in {"live", "null"} /\ block[work[t][i].block] = "deleted"
    BY <1>2, <1>4, <2>1 DEF PtrInv, DeletedOnce
  <2> QED  BY <2>2
<1> QED  BY <1>3, <1>4

LEMMA ReleaseUnlockKeeps ==
  ASSUME PtrInv, NEW t \in Threads, ReleaseUnlock(t)
  PROVE  PtrInv'
<1>0. PICK b : b = Releasing(t)
  OBVIOUS
<1>1. /\ pc[t] = "relUnlock" /\ mutex' = [mutex EXCEPT ![b] = None]
      /\ UNCHANGED <<block, count, ptr, to, from, seen>>
  BY <1>0 DEF ReleaseUnlock
<1>2. InRelease(t) /\ ~Dropping(t) /\ ~Adding(t)
  BY <1>1 DEF InRelease, Dropping, Adding
<1>3. /\ b \in Blocks /\ b = work[t][1].block /\ Head(work[t]) = work[t][1]
      /\ Len(work[t]) \in Nat /\ Len(work[t]) >= 1
  BY <1>0, <1>2, ReleasingIs
<1>4. \A i \in 2..Len(work[t]) : work[t][i].block # b
  BY <1>1, <1>3, FrameOnce
<1>5. mutex'[b] = None /\ \A c \in Blocks \ {b} : mutex'[c] = mutex[c]
  BY <1>1, <1>3 DEF PtrInv, TypeInv
<1>6. Holds(t, b)
  BY <1>1, <1>3 DEF Holds
<1>7. \A c \in Blocks \ {b} : Holds(t, c) <=> \E i \in 2..Len(work[t]) : work[t][i].block = c
  BY <1>1, <1>3 DEF Holds
<1>8. \A u \in Threads \ {t} : ~Holds(u, b)
  BY <1>3, <1>6 DEF PtrInv, MutexHeld
<1>9. mutex' \in [Blocks -> Threads \cup {None}]
  BY <1>1 DEF PtrInv, TypeInv
<1>10. (\A u \in Threads : KeptAlive(u)') /\ GoneIsEmpty'
  BY <1>1 DEF PtrInv, KeptAlive, GoneIsEmpty
<1>11. CASE work[t][1].delete
  <2>1. pc' = [pc EXCEPT ![t] = "relMutex"] /\ work' = work
    BY <1>3, <1>11 DEF ReleaseUnlock
  <2>2. pc'[t] = "relMutex" /\ \A u \in Threads \ {t} : pc'[u] = pc[u]
    BY <2>1 DEF PtrInv, TypeInv
  <2>3. InRelease(t)' /\ ~Dropping(t)' /\ ~Adding(t)'
        /\ \A u \in Threads \ {t} : /\ InRelease(u)' <=> InRelease(u)
                                    /\ Dropping(u)' <=> Dropping(u)
                                    /\ Adding(u)' <=> Adding(u)
    BY <2>2 DEF InRelease, Dropping, Adding
  <2>4. TypeInv'
    BY <1>1, <1>9, <2>1 DEF PtrInv, TypeInv
  <2>5. \A u \in Threads : Control(u)'
    BY <1>1, <1>2, <1>11, <2>1, <2>2, <2>3 DEF PtrInv, Control
  <2>6. Exclusive' /\ SeenIsCount'
    BY <1>1, <2>1, <2>2 DEF PtrInv, Exclusive, SeenIsCount
  <2>7. DeletedOnce'
    BY <1>1, <2>1, <2>2 DEF PtrInv, DeletedOnce
  <2>8. MutexHeld'
    <3>1. \A c \in Blocks : Holds(t, c)' <=> \E i \in 2..Len(work[t]) : work[t][i].block = c
      BY <1>3, <2>1, <2>2 DEF Holds
    <3>2. \A u \in Threads \ {t}, c \in Blocks : Holds(u, c)' <=> Holds(u, c)
      BY <1>1, <2>1, <2>2 DEF Holds
    <3>3. ~Holds(t, b)'
      BY <1>3, <1>4, <3>1
    <3> QED  BY <1>5, <1>7, <1>8, <3>1, <3>2, <3>3, HandlesAre DEF PtrInv, MutexHeld
  <2>9. \A c \in Blocks : Counts(c)'
    <3>1. \A c \in Blocks : Counted(c)' = Counted(c) /\ Dropped(c)' = Dropped(c)
      BY <1>1, <1>2, <2>1, <2>2, <2>3 DEF Counted, Dropped
    <3> QED  BY <1>1, <3>1 DEF PtrInv, Counts
  <2> QED  BY <1>10, <2>4, <2>5, <2>6, <2>7, <2>8, <2>9 DEF PtrInv
<1>12. CASE ~work[t][1].delete
  <2>1. Return(t)
    BY <1>3, <1>12 DEF ReleaseUnlock
  <2>2. TypeInv'
    BY <1>1, <1>9, <2>1, ReturnKeeps DEF PtrInv, TypeInv
  <2>3. /\ \A u \in Threads \ {t} : pc'[u] = pc[u] /\ work'[u] = work[u]
        /\ Len(work'[t]) = Len(work[t]) - 1
        /\ \A i \in 1..Len(work'[t]) : work'[t][i] = work[t][i + 1] /\ work'[t][i].delete
        /\ pc'[t] = "relUnlock" => work'[t][1].delete
    BY <1>1, <2>1, ReturnKeeps
  <2>4. DeletedOnce'
    <3>1. \A i \in 1..Len(work'[t]) :
            work'[t][i].delete => block[work'[t][i].block] = "deleted"
      <4> SUFFICES ASSUME NEW i \in 1..Len(work'[t])  PROVE block[work'[t][i].block] = "deleted"
        OBVIOUS
      <4>1. i + 1 \in 1..Len(work[t]) /\ work'[t][i] = work[t][i + 1] /\ work[t][i + 1].delete
        BY <1>3, <2>3
      <4> QED  BY <4>1 DEF PtrInv, DeletedOnce
    <3>2. \A u \in Threads \ {t} : \A i \in 1..Len(work'[u]) :
            work'[u][i].delete => block[work'[u][i].block] = "deleted"
      BY <2>3 DEF PtrInv, DeletedOnce
    <3>3. \A u \in Threads :
            pc'[u] = "relUnlock" /\ ~work'[u][1].delete
              => block[work'[u][1].block] \in {"live", "null"}
      BY <2>3 DEF PtrInv, DeletedOnce
    <3>4. \A u, v \in Threads : \A i \in 1..Len(work'[u]), j \in 1..Len(work'[v]) :
            work'[u][i].delete /\ work'[v][j].delete /\ work'[u][i].block = work'[v][j].block
              => u = v /\ i = j
      BY <1>1, <2>1, ReturnKeeps
    <3>5. \A u \in Threads : \A i \in 1..Len(work'[u]) :
            work'[u][i].delete => block[work'[u][i].block] = "deleted"
      BY <3>1, <3>2
    <3> QED  BY <1>1, <3>3, <3>4, <3>5 DEF DeletedOnce
  <2>5. MutexHeld'
    <3>1. /\ \A u \in Threads \ {t}, c \in Blocks : Holds(u, c)' <=> Holds(u, c)
          /\ \A c \in Blocks : Holds(t, c)' <=> \E i \in 2..Len(work[t]) : work[t][i].block = c
      BY <1>1, <2>1, ReturnKeeps
    <3>2. ~Holds(t, b)'
      BY <1>3, <1>4, <3>1
    <3> QED  BY <1>5, <1>7, <1>8, <3>1, <3>2, HandlesAre DEF PtrInv, MutexHeld
  <2>6. \A c \in Blocks : Counts(c)'
    <3>1. \A c \in Blocks : Counted(c)' = Counted(c) /\ Dropped(c)' = Dropped(c)
      BY <1>1, <2>1, ReturnKeeps
    <3> QED  BY <1>1, <3>1 DEF PtrInv, Counts
  <2>7. (\A u \in Threads : Control(u)') /\ Exclusive' /\ SeenIsCount'
    BY <1>1, <2>1, ReturnKeeps
  <2> QED  BY <1>10, <2>2, <2>4, <2>5, <2>6, <2>7 DEF PtrInv
<1> QED  BY <1>11, <1>12

LEMMA ReleaseMutexKeeps ==
  ASSUME PtrInv, NEW t \in Threads, ReleaseMutex(t)
  PROVE  PtrInv'
<1>0. PICK b : b = Releasing(t)
  OBVIOUS
<1>1. /\ pc[t] = "relMutex" /\ block' = [block EXCEPT ![b] = "free"] /\ Return(t)
      /\ UNCHANGED <<count, mutex, ptr, to, from, seen>>
  BY <1>0 DEF ReleaseMutex
<1>2. InRelease(t) /\ ~Dropping(t) /\ ~Adding(t)
  BY <1>1 DEF InRelease, Dropping, Adding
<1>3. /\ b \in Blocks /\ b = work[t][1].block
      /\ Len(work[t]) \in Nat /\ Len(work[t]) >= 1 /\ work[t][1].delete
  BY <1>0, <1>1, <1>2, ReleasingIs DEF PtrInv, Control
<1>4. block[b] = "deleted" /\ Counted(b) = {} /\ Dropped(b) = {} /\ ptr[b] = None
  <2>1. block[b] = "deleted"
    BY <1>3 DEF PtrInv, DeletedOnce
  <2> QED  BY <1>3, <2>1 DEF PtrInv, Counts, GoneIsEmpty
<1>5. block'[b] = "free" /\ \A c \in Blocks \ {b} : block'[c] = block[c]
  BY <1>1, <1>3 DEF PtrInv, TypeInv
<1>6. /\ \A u \in Threads \ {t} : pc'[u] = pc[u] /\ work'[u] = work[u]
      /\ Len(work'[t]) = Len(work[t]) - 1
      /\ \A i \in 1..Len(work'[t]) : work'[t][i] = work[t][i + 1] /\ work'[t][i].delete
      /\ pc'[t] = "relUnlock" => work'[t][1].delete
  BY <1>1, ReturnKeeps
<1>7. (\A u \in Threads : Control(u)') /\ Exclusive' /\ SeenIsCount'
  BY <1>1, ReturnKeeps
<1>8. TypeInv'
  BY <1>1, <1>3, ReturnKeeps DEF PtrInv, TypeInv
<1>9. \A u \in Threads : KeptAlive(u)'
  <2>1. \A c \in Blocks : block[c] = "live" => block'[c] = "live"
    BY <1>4, <1>5
  <2> QED  BY <1>1, <2>1 DEF PtrInv, KeptAlive
<1>10. GoneIsEmpty'
  BY <1>1, <1>4, <1>5 DEF PtrInv, GoneIsEmpty
<1>11. DeletedOnce'
  <2>1. \A u \in Threads : \A i \in 1..Len(work'[u]) :
          work'[u][i].delete => block'[work'[u][i].block] = "deleted"
    <3> SUFFICES ASSUME NEW u \in Threads, NEW i \in 1..Len(work'[u]), work'[u][i].delete
                 PROVE  block'[work'[u][i].block] = "deleted"
      OBVIOUS
    <3>1. CASE u = t
      <4>1. i + 1 \in 1..Len(work[t]) /\ i + 1 # 1 /\ 1 \in 1..Len(work[t])
            /\ work'[t][i] = work[t][i + 1] /\ work[t][i + 1].delete
        BY <1>3, <1>6, <3>1
      <4>2. work[t][i + 1].block \in Blocks \ {b} /\ block[work[t][i + 1].block] = "deleted"
        BY <1>3, <4>1, FramesAre DEF PtrInv, DeletedOnce
      <4> QED  BY <1>5, <3>1, <4>1, <4>2
    <3>2. CASE u # t
      <4>1. 1 \in 1..Len(work[t]) /\ i \in 1..Len(work[u]) /\ work'[u] = work[u]
        BY <1>3, <1>6, <3>2
      <4>2. work[u][i].block \in Blocks \ {b} /\ block[work[u][i].block] = "deleted"
        BY <1>3, <3>2, <4>1, FramesAre DEF PtrInv, DeletedOnce
      <4> QED  BY <1>5, <4>1, <4>2
    <3> QED  BY <3>1, <3>2
  <2>2. \A u \in Threads :
          pc'[u] = "relUnlock" /\ ~work'[u][1].delete
            => block'[work'[u][1].block] \in {"live", "null"}
    <3> SUFFICES ASSUME NEW u \in Threads \ {t}, pc[u] = "relUnlock", ~work[u][1].delete
                 PROVE  block'[work[u][1].block] \in {"live", "null"}
      BY <1>6
    <3>1. work[u][1].block \in Blocks
      BY ReleasingIs DEF InRelease
    <3>2. block[work[u][1].block] \in {"live", "null"}
      BY DEF PtrInv, DeletedOnce
    <3> QED  BY <1>4, <1>5, <3>1, <3>2
  <2>3. \A u, v \in Threads : \A i \in 1..Len(work'[u]), j \in 1..Len(work'[v]) :
          work'[u][i].delete /\ work'[v][j].delete /\ work'[u][i].block = work'[v][j].block
            => u = v /\ i = j
    BY <1>1, ReturnKeeps
  <2> QED  BY <2>1, <2>2, <2>3 DEF DeletedOnce
<1>12. MutexHeld'
  <2>1. /\ \A u \in Threads \ {t}, c \in Blocks : Holds(u, c)' <=> Holds(u, c)
        /\ \A c \in Blocks : Holds(t, c)' <=> \E i \in 2..Len(work[t]) : work[t][i].block = c
    BY <1>1, ReturnKeeps
  <2>2. \A c \in Blocks : Holds(t, c) <=> \E i \in 2..Len(work[t]) : work[t][i].block = c
    BY <1>1, <1>3 DEF Holds
  <2> QED  BY <1>1, <2>1, <2>2 DEF PtrInv, MutexHeld
<1>13. \A c \in Blocks : Counts(c)'
  <2>1. \A c \in Blocks : Counted(c)' = Counted(c) /\ Dropped(c)' = Dropped(c)
    BY <1>1, ReturnKeeps
  <2> QED  BY <1>1, <1>4, <1>5, <2>1 DEF PtrInv, Counts
<1> QED  BY <1>7, <1>8, <1>9, <1>10, <1>11, <1>12, <1>13 DEF PtrInv

LEMMA Cons ==
  ASSUME NEW S, NEW s \in Seq(S), NEW x \in S
  PROVE  /\ <<x>> \o s \in Seq(S) /\ Len(<<x>> \o s) = Len(s) + 1 /\ (<<x>> \o s)[1] = x
         /\ \A i \in 2..Len(s) + 1 : (<<x>> \o s)[i] = s[i - 1]
<1>1. <<x>> \in Seq(S) /\ Len(<<x>>) = 1 /\ <<x>>[1] = x
  OBVIOUS
<1>2. Len(s) \in Nat
  BY LenProperties
<1> QED  BY <1>1, <1>2, ConcatProperties

\* A Release that stores a count of 0 was the last: no handle of the block is left,
\* and no other Release of it is under way.
LEMMA LastIsLast ==
  ASSUME PtrInv, NEW b \in Blocks, NEW t \in Dropped(b), count[b] = 1
  PROVE  Counted(b) = {} /\ Dropped(b) = {t}
<1>1. count[b] = Cardinality(Counted(b)) + Cardinality(Dropped(b))
  BY DroppedIsLive DEF PtrInv, Counts
<1>2. IsFiniteSet(Counted(b)) /\ IsFiniteSet(Dropped(b)) /\ IsFiniteSet(Dropped(b) \ {t})
  BY SetsFinite, FS_RemoveElement
<1>3. Cardinality(Dropped(b) \ {t}) = Cardinality(Dropped(b)) - 1
  BY <1>2, FS_RemoveElement
<1>4. /\ Cardinality(Counted(b)) \in Nat /\ Cardinality(Dropped(b)) \in Nat
      /\ Cardinality(Dropped(b) \ {t}) \in Nat
  BY <1>2, FS_CardinalityType
<1>5. Cardinality(Counted(b)) = 0 /\ Cardinality(Dropped(b) \ {t}) = 0
  BY <1>1, <1>3, <1>4
<1>6. Counted(b) = {} /\ Dropped(b) \ {t} = {}
  BY <1>2, <1>5, FS_EmptySet
<1> QED  BY <1>6

LEMMA ReleaseStoreKeeps ==
  ASSUME PtrInv, NEW t \in Threads, ReleaseStore(t)
  PROVE  PtrInv'
<1>0. PICK b, k : b = Releasing(t) /\ k = (IF seen[t] = 1 /\ ptr[b] # None THEN 2 ELSE 1)
  OBVIOUS
<1> DEFINE frame == [block |-> b, delete |-> seen[t] = 1]
           outer == <<frame>> \o Tail(work[t])
           inner == [block |-> ptr[b], delete |-> FALSE]
<1>1. /\ pc[t] = "relStore"
      /\ count' = [count EXCEPT ![b] = seen[t] - 1]
      /\ block' = IF seen[t] = 1 THEN [block EXCEPT ![b] = "deleted"] ELSE block
      /\ seen' = [seen EXCEPT ![t] = 0]
      /\ UNCHANGED <<mutex, to, from>>
  BY <1>0 DEF ReleaseStore
<1>2. /\ k = 2 => /\ seen[t] = 1 /\ ptr[b] # None
                  /\ work' = [work EXCEPT ![t] = <<inner>> \o outer]
                  /\ ptr' = [ptr EXCEPT ![b] = None]
                  /\ pc' = [pc EXCEPT ![t] = "relLock"]
      /\ k # 2 => /\ k = 1 /\ ~(seen[t] = 1 /\ ptr[b] # None)
                  /\ work' = [work EXCEPT ![t] = outer]
                  /\ pc' = [pc EXCEPT ![t] = "relUnlock"]
                  /\ ptr' = ptr
  <2>1. CASE seen[t] = 1 /\ ptr[b] # None
    BY <1>0, <2>1 DEF ReleaseStore
  <2>2. CASE ~(seen[t] = 1 /\ ptr[b] # None)
    <3>1. k = 1
      BY <1>0, <2>2
    <3>2. ~(seen[t] = 1 /\ ptr[Releasing(t)] # None)
      BY <1>0, <2>2
    <3>3. work' = [work EXCEPT ![t] = outer] /\ pc' = [pc EXCEPT ![t] = "relUnlock"] /\ ptr' = ptr
      BY <1>0, <3>2 DEF ReleaseStore
    <3> QED  BY <2>2, <3>1, <3>3
  <2> QED  BY <2>1, <2>2
<1>3. InRelease(t) /\ Dropping(t) /\ ~Adding(t)
  BY <1>1 DEF InRelease, Dropping, Adding
<1>4. /\ b \in Blocks /\ b = work[t][1].block /\ work[t] \in Seq(Frame) /\ work[t] # << >>
      /\ Len(work[t]) \in Nat /\ Len(work[t]) >= 1
      /\ \A i \in 2..Len(work[t]) : work[t][i].delete
  BY <1>0, <1>3, ReleasingIs DEF PtrInv, Control
<1>5. t \in Dropped(b) /\ block[b] \in {"live", "null"} /\ seen[t] = count[b]
  BY <1>1, <1>3, <1>4, DroppedIsLive DEF Dropped, PtrInv, SeenIsCount
<1>6. seen[t] = 1 => Counted(b) = {} /\ Dropped(b) = {t}
  BY <1>4, <1>5, LastIsLast
<1>7. seen[t] = 1 => \A u \in Threads : to[u] # b /\ from[u] # b
  BY <1>4, <1>6, UsedIsLive
<1>8. /\ k = 2 => ptr[b] \in Blocks \ {b} /\ b \in Counted(ptr[b])
      /\ k = 1 => ~(seen[t] = 1 /\ ptr[b] # None)
      /\ k \in {1, 2}
  <2>1. k = 2 => ptr[b] \in Blocks /\ b \in Handles /\ b \in Counted(ptr[b])
    BY <1>2, <1>4, <1>7, HandlesAre DEF PtrInv, TypeInv, Counted
  <2> QED  BY <1>2, <1>6, <2>1
<1>9. /\ seen[t] = 1 => ptr'[b] = None
      /\ seen[t] # 1 => ptr' = ptr
      /\ \A g \in Handles \ {b} : ptr'[g] = ptr[g]
      /\ k = 1 => ptr' = ptr
  BY <1>2, <1>4, HandlesAre DEF PtrInv, TypeInv
<1>10. /\ count'[b] = count[b] - 1 /\ \A c \in Blocks \ {b} : count'[c] = count[c]
       /\ seen[t] = 1 => block'[b] = "deleted"
       /\ seen[t] # 1 => block' = block
       /\ \A c \in Blocks \ {b} : block'[c] = block[c]
  BY <1>1, <1>4, <1>5 DEF PtrInv, TypeInv
<1>11. frame \in Frame /\ frame.block = b /\ (frame.delete <=> seen[t] = 1)
  BY <1>4 DEF Frame
<1>12. /\ outer \in Seq(Frame) /\ Len(outer) = Len(work[t]) /\ outer[1] = frame
       /\ \A i \in 2..Len(work[t]) : outer[i] = work[t][i]
  <2>1. /\ Tail(work[t]) \in Seq(Frame) /\ Len(Tail(work[t])) = Len(work[t]) - 1
        /\ \A i \in 1..Len(Tail(work[t])) : Tail(work[t])[i] = work[t][i + 1]
    BY <1>4, HeadTailProperties
  <2>2. \A i \in 2..Len(work[t]) : i - 1 \in 1..Len(Tail(work[t]))
    BY <1>4, <2>1
  <2> HIDE DEF frame
  <2>3. /\ outer \in Seq(Frame) /\ Len(outer) = Len(Tail(work[t])) + 1 /\ outer[1] = frame
        /\ \A i \in 2..Len(Tail(work[t])) + 1 : outer[i] = Tail(work[t])[i - 1]
    BY <1>11, <2>1, Cons
  <2> QED  BY <1>4, <2>1, <2>2, <2>3
<1>13. k = 2 => /\ <<inner>> \o outer \in Seq(Frame) /\ Len(<<inner>> \o outer) = Len(work[t]) + 1
                /\ (<<inner>> \o outer)[1] = inner
                /\ \A i \in 2..Len(work[t]) + 1 : (<<inner>> \o outer)[i] = outer[i - 1]
  <2> HIDE DEF outer
  <2>1. k = 2 => inner \in Frame
    BY <1>8 DEF Frame
  <2> HIDE DEF inner
  <2> QED  BY <1>12, <2>1, Cons
<1> HIDE DEF frame, outer
\* What thread t goes on with.
<1>14. k = 1 => /\ pc'[t] = "relUnlock" /\ Len(work'[t]) = Len(work[t]) /\ work'[t][1] = frame
                /\ \A i \in 2..Len(work[t]) : work'[t][i] = work[t][i]
  BY <1>2, <1>12 DEF PtrInv, TypeInv
<1>15. k = 2 => /\ pc'[t] = "relLock" /\ Len(work'[t]) = Len(work[t]) + 1
                /\ work'[t][1].block = ptr[b] /\ ~work'[t][1].delete /\ work'[t][2] = frame
                /\ \A i \in 3..Len(work[t]) + 1 : work'[t][i] = work[t][i - 1]
  <2>1. k = 2 => /\ pc'[t] = "relLock" /\ work'[t] = <<inner>> \o outer
    BY <1>2 DEF PtrInv, TypeInv
  <2>2. k = 2 => (<<inner>> \o outer)[2] = outer[1]
    BY <1>4, <1>13
  <2>3. k = 2 => \A i \in 3..Len(work[t]) + 1 : (<<inner>> \o outer)[i] = work[t][i - 1]
    BY <1>4, <1>12, <1>13
  <2>4. inner.block = ptr[b] /\ ~inner.delete
    OBVIOUS
  <2> HIDE DEF inner
  <2> QED  BY <1>12, <1>13, <2>1, <2>2, <2>3, <2>4
<1>16. \A u \in Threads \ {t} : pc'[u] = pc[u] /\ work'[u] = work[u] /\ seen'[u] = seen[u]
  BY <1>1, <1>2, <1>8 DEF PtrInv, TypeInv
<1>17. TypeInv'
  <2>1. block' \in [Blocks -> {"free", "live", "null", "deleted"}]
    BY <1>1, <1>4 DEF PtrInv, TypeInv
  <2>2. count' \in [Blocks -> Int] /\ seen' \in [Threads -> Int]
    BY <1>1, <1>4 DEF PtrInv, TypeInv
  <2>3. work' \in [Threads -> Seq(Frame)]
    BY <1>2, <1>12, <1>13 DEF PtrInv, TypeInv
  <2>4. pc' \in [Threads -> {"idle", "relLock", "relLoad", "relStore", "relUnlock", "relMutex",
                             "read", "addLock", "addLoad", "addStore"}]
        /\ ptr' \in [Handles -> Blocks \cup {None}]
    BY <1>2 DEF PtrInv, TypeInv
  <2> QED  BY <1>1, <2>1, <2>2, <2>3, <2>4 DEF PtrInv, TypeInv
<1>18. /\ InRelease(t)' /\ ~Adding(t)' /\ (Dropping(t)' <=> k = 2)
       /\ \A u \in Threads \ {t} : /\ InRelease(u)' <=> InRelease(u)
                                   /\ Dropping(u)' <=> Dropping(u)
                                   /\ Adding(u)' <=> Adding(u)
  BY <1>8, <1>14, <1>15, <1>16 DEF InRelease, Dropping, Adding
<1>19. \A u \in Threads : to[u] \in Handles \cup {None} /\ from[u] \in Handles \cup {None}
                          /\ (pc[u] # "idle" => to[u] # None)
  BY HandlesAre DEF PtrInv, TypeInv, Control
<1>20. \A u \in Threads : /\ to[u] # None => ptr'[to[u]] = ptr[to[u]]
                          /\ from[u] # None => ptr'[from[u]] = ptr[from[u]]
  BY <1>7, <1>9, <1>19
<1>21. \A u \in Threads : Control(u)'
  <2>1. \A u \in Threads \ {t} : Control(u)'
    BY <1>1, <1>16, <1>18, <1>19, <1>20 DEF PtrInv, Control, InRelease, Adding
  <2>2. Control(t)'
    <3>1. /\ to[t] \in Own(t) \cup Blocks /\ ptr'[to[t]] = None
          /\ from[t] # None => ptr'[from[t]] # None
      BY <1>1, <1>3, <1>19, <1>20 DEF PtrInv, Control
    <3>2. work'[t] # << >>
      <4>1. Len(work'[t]) >= 1 /\ work'[t] \in Seq(Frame)
        BY <1>4, <1>8, <1>14, <1>15, <1>17 DEF TypeInv
      <4> QED  BY <4>1, EmptySeq
    <3>3. \A i \in 2..Len(work'[t]) : work'[t][i].delete
      <4>1. CASE k = 1
        BY <1>4, <1>14, <4>1
      <4>2. CASE k = 2
        <5> SUFFICES ASSUME NEW i \in 2..Len(work'[t])  PROVE work'[t][i].delete
          OBVIOUS
        <5>1. CASE i = 2
          BY <1>2, <1>11, <1>15, <4>2, <5>1
        <5>2. CASE i # 2
          <6>1. i \in 3..Len(work[t]) + 1 /\ i - 1 \in 2..Len(work[t])
            BY <1>4, <1>15, <4>2, <5>2
          <6> QED  BY <1>4, <1>15, <4>2, <6>1
        <5> QED  BY <5>1, <5>2
      <4> QED  BY <1>8, <4>1, <4>2
    <3>4. pc'[t] \in {"relLock", "relUnlock"} /\ (Dropping(t)' => ~work'[t][1].delete)
      BY <1>8, <1>14, <1>15, <1>18
    <3> QED  BY <1>1, <1>18, <3>1, <3>2, <3>3, <3>4 DEF Control
  <2> QED  BY <2>1, <2>2
<1>22. \A u \in Threads : KeptAlive(u)'
  <2> SUFFICES ASSUME NEW u \in Threads  PROVE KeptAlive(u)'
    OBVIOUS
  <2>1. \A x \in Own(u) : ptr'[x] = ptr[x]
    BY <1>4, <1>9, HandlesAre
  <2>2. to[u] \in Blocks => block'[to[u]] = block[to[u]]
    BY <1>7, <1>10
  <2> QED  BY <1>1, <2>1, <2>2 DEF PtrInv, KeptAlive
<1>23. Exclusive'
  BY <1>1 DEF PtrInv, Exclusive
<1>24. GoneIsEmpty'
  <2> SUFFICES ASSUME NEW c \in Blocks, block'[c] # "live"  PROVE ptr'[c] = None
    BY DEF GoneIsEmpty
  <2> QED  BY <1>9, <1>10, HandlesAre DEF PtrInv, GoneIsEmpty
<1>25. \A u \in Threads : \A i \in 1..Len(work[u]) :
         work[u][i].delete => /\ work[u][i].block \in Blocks \ {b}
                              /\ block[work[u][i].block] = "deleted"
  BY <1>5, FramesAre DEF PtrInv, DeletedOnce
<1>26. Holds(t, b) /\ \A u \in Threads \ {t} : ~Holds(u, b)
  BY <1>1, <1>4 DEF PtrInv, MutexHeld, Holds
<1> DEFINE old(u, i) == IF u = t THEN i - (k - 1) ELSE i
\* A frame that deletes was there before, or is the one of this Release.
<1>27. \A u \in Threads : \A i \in 1..Len(work'[u]) :
         work'[u][i].delete =>
           \/ u = t /\ i = k /\ work'[u][i].block = b /\ seen[t] = 1
           \/ /\ old(u, i) \in 1..Len(work[u]) /\ work'[u][i] = work[u][old(u, i)]
              /\ i \in Int /\ work'[u][i].block \in Blocks \ {b}
              /\ block[work'[u][i].block] = "deleted"
  <2> SUFFICES ASSUME NEW u \in Threads, NEW i \in 1..Len(work'[u]), work'[u][i].delete,
                      ~(u = t /\ i = k /\ work'[u][i].block = b /\ seen[t] = 1)
               PROVE  /\ old(u, i) \in 1..Len(work[u]) /\ work'[u][i] = work[u][old(u, i)]
                      /\ i \in Int
    BY <1>25
  <2>1. CASE u # t
    BY <1>16, <2>1
  <2>2. CASE u = t /\ k = 1
    <3>1. i \in 1..Len(work[t]) /\ old(u, i) = i
      BY <1>14, <2>2
    <3>2. i # 1
      BY <1>11, <1>14, <2>2
    <3>3. i \in 2..Len(work[t])
      BY <1>4, <3>1, <3>2
    <3> QED  BY <1>14, <2>2, <3>1, <3>3
  <2>3. CASE u = t /\ k = 2
    <3>1. i \in 1..Len(work[t]) + 1 /\ old(u, i) = i - 1
      BY <1>4, <1>15, <2>3
    <3>2. i # 1 /\ i # 2
      BY <1>2, <1>11, <1>15, <2>3
    <3>3. i \in 3..Len(work[t]) + 1 /\ i - 1 \in 1..Len(work[t])
      BY <1>4, <3>1, <3>2
    <3> QED  BY <1>15, <2>3, <3>1, <3>3
  <2> QED  BY <1>8, <2>1, <2>2, <2>3
<1>28. \A u \in Threads : \A i, j \in Int : old(u, i) = old(u, j) => i = j
  BY <1>8
<1> HIDE DEF old
<1>29. DeletedOnce'
  <2>1. \A u \in Threads : \A i \in 1..Len(work'[u]) :
          work'[u][i].delete => block'[work'[u][i].block] = "deleted"
    BY <1>4, <1>10, <1>27
  <2>2. ASSUME NEW u \in Threads, NEW v \in Threads,
               NEW i \in 1..Len(work'[u]), NEW j \in 1..Len(work'[v]),
               work'[u][i].delete, work'[v][j].delete, work'[u][i].block = work'[v][j].block
        PROVE  u = v /\ i = j
    <3>1. CASE work'[u][i].block = b
      BY <1>27, <2>2, <3>1
    <3>2. CASE work'[u][i].block # b
      <4>1. /\ old(u, i) \in 1..Len(work[u]) /\ work'[u][i] = work[u][old(u, i)] /\ i \in Int
            /\ old(v, j) \in 1..Len(work[v]) /\ work'[v][j] = work[v][old(v, j)] /\ j \in Int
        BY <1>27, <2>2, <3>2
      <4>2. u = v /\ old(u, i) = old(v, j)
        BY <2>2, <4>1 DEF PtrInv, DeletedOnce
      <4> QED  BY <1>28, <4>1, <4>2
    <3> QED  BY <3>1, <3>2
  <2>3. \A u \in Threads \ {t} :
          pc'[u] = "relUnlock" /\ ~work'[u][1].delete
            => block'[work'[u][1].block] \in {"live", "null"}
    <3> SUFFICES ASSUME NEW u \in Threads \ {t}, pc[u] = "relUnlock", ~work[u][1].delete
                 PROVE  block'[work[u][1].block] \in {"live", "null"}
      BY <1>16
    <3>1. work[u][1].block \in Blocks /\ Len(work[u]) \in Nat /\ Len(work[u]) >= 1
      BY ReleasingIs DEF InRelease
    <3>2. block[work[u][1].block] \in {"live", "null"}
      BY DEF PtrInv, DeletedOnce
    <3>3. Holds(u, work[u][1].block)
      BY <3>1 DEF Holds
    <3> QED  BY <1>10, <1>26, <3>1, <3>2, <3>3
  <2>4. pc'[t] = "relUnlock" /\ ~work'[t][1].delete => block'[work'[t][1].block] \in {"live", "null"}
    <3>1. pc'[t] = "relUnlock" => k = 1 /\ work'[t][1] = frame
      BY <1>8, <1>14, <1>15
    <3> QED  BY <1>5, <1>10, <1>11, <3>1
  <2> QED  BY <2>1, <2>2, <2>3, <2>4 DEF DeletedOnce
<1>30. MutexHeld'
  <2>1. \A u \in Threads \ {t}, c \in Blocks : Holds(u, c)' <=> Holds(u, c)
    BY <1>1, <1>16, <1>19, <1>20 DEF Holds
  <2>2. \A c \in Blocks :
          Holds(t, c) <=> c = b \/ \E i \in 2..Len(work[t]) : work[t][i].block = c
    BY <1>1, <1>4 DEF Holds
  <2>3. \A c \in Blocks :
          Holds(t, c)' <=> c = b \/ \E i \in 2..Len(work[t]) : work[t][i].block = c
    <3> SUFFICES ASSUME NEW c \in Blocks
                 PROVE  Holds(t, c)' <=> c = b \/ \E i \in 2..Len(work[t]) : work[t][i].block = c
      OBVIOUS
    <3>1. CASE k = 1
      <4>1. Holds(t, c)' <=> \E i \in 1..Len(work[t]) : work'[t][i].block = c
        BY <1>14, <3>1 DEF Holds
      <4>2. work'[t][1].block = b
        BY <1>11, <1>14, <3>1
      <4> QED  BY <1>4, <1>14, <3>1, <4>1, <4>2
    <3>2. CASE k = 2
      <4>1. Holds(t, c)' <=> \E i \in 2..Len(work[t]) + 1 : work'[t][i].block = c
        BY <1>4, <1>15, <3>2 DEF Holds
      <4>2. work'[t][2].block = b
        BY <1>11, <1>15, <3>2
      <4>3. \A i \in 2..Len(work[t]) + 1 : i = 2 \/ (i \in 3..Len(work[t]) + 1 /\ i - 1 \in 2..Len(work[t]))
        BY <1>4
      <4>4. \A i \in 2..Len(work[t]) : i + 1 \in 3..Len(work[t]) + 1 /\ work'[t][i + 1] = work[t][i]
        BY <1>4, <1>15, <3>2
      <4>5. 2 \in 2..Len(work[t]) + 1 /\ \A i \in 3..Len(work[t]) + 1 : i \in 2..Len(work[t]) + 1
        BY <1>4
      <4> QED  BY <1>15, <3>2, <4>1, <4>2, <4>3, <4>4, <4>5
    <3> QED  BY <1>8, <3>1, <3>2
  <2> QED  BY <1>1, <2>1, <2>2, <2>3 DEF PtrInv, MutexHeld
<1>31. SeenIsCount'
  <2>1. \A u \in Threads \ {t} : pc[u] = "relStore" => seen[u] = count'[work[u][1].block]
    <3> SUFFICES ASSUME NEW u \in Threads \ {t}, pc[u] = "relStore"
                 PROVE  seen[u] = count'[work[u][1].block]
      OBVIOUS
    <3>1. work[u][1].block \in Blocks /\ Len(work[u]) \in Nat /\ Len(work[u]) >= 1
      BY ReleasingIs DEF InRelease
    <3>2. Holds(u, work[u][1].block) /\ seen[u] = count[work[u][1].block]
      BY <3>1 DEF Holds, PtrInv, SeenIsCount
    <3> QED  BY <1>10, <1>26, <3>1, <3>2
  <2>2. \A u \in Threads \ {t} : pc[u] = "addStore" => seen[u] = count'[ptr[to[u]]]
    <3> SUFFICES ASSUME NEW u \in Threads \ {t}, pc[u] = "addStore"
                 PROVE  seen[u] = count'[ptr[to[u]]]
      OBVIOUS
    <3>1. ptr[to[u]] \in Blocks
      BY SourceCounted DEF PtrInv, Control, Adding
    <3>2. Holds(u, ptr[to[u]]) /\ seen[u] = count[ptr[to[u]]]
      BY DEF Holds, PtrInv, SeenIsCount
    <3> QED  BY <1>10, <1>26, <3>1, <3>2
  <2>3. pc'[t] \notin {"relStore", "addStore"}
    BY <1>8, <1>14, <1>15
  <2> QED  BY <1>1, <1>16, <1>19, <1>20, <2>1, <2>2, <2>3 DEF SeenIsCount
<1>32. \A c \in Blocks : Counted(c)' = Counted(c) \ (IF k = 2 THEN {b} ELSE {})
  <2> SUFFICES ASSUME NEW c \in Blocks
               PROVE  Counted(c)' = Counted(c) \ (IF k = 2 THEN {b} ELSE {})
    OBVIOUS
  <2>1. \A u \in Threads : (Adding(u)' <=> Adding(u)) /\ to'[u] = to[u]
    BY <1>1, <1>3, <1>18
  <2>2. CASE k = 1
    BY <1>9, <2>1, <2>2 DEF Counted
  <2>3. CASE k = 2
    <3>1. ptr'[b] = None
      BY <1>2, <1>9, <2>3
    <3> QED  BY <1>9, <2>1, <2>3, <3>1, HandlesAre DEF Counted
  <2> QED  BY <1>8, <2>2, <2>3
<1>33. \A c \in Blocks : Dropped(c)' = (Dropped(c) \ {t}) \cup (IF k = 2 /\ c = ptr[b] THEN {t} ELSE {})
  <2> SUFFICES ASSUME NEW c \in Blocks
               PROVE  Dropped(c)' = (Dropped(c) \ {t})
                                      \cup (IF k = 2 /\ c = ptr[b] THEN {t} ELSE {})
    OBVIOUS
  <2>1. \A u \in Threads \ {t} : u \in Dropped(c)' <=> u \in Dropped(c)
    BY <1>16, <1>18 DEF Dropped
  <2>2. t \in Dropped(c)' <=> k = 2 /\ c = ptr[b]
    BY <1>15, <1>18 DEF Dropped
  <2>3. Dropped(c) \subseteq Threads /\ Dropped(c)' \subseteq Threads
    BY DEF Dropped
  <2>4. CASE k = 2 /\ c = ptr[b]
    BY <2>1, <2>2, <2>3, <2>4
  <2>5. CASE ~(k = 2 /\ c = ptr[b])
    BY <2>1, <2>2, <2>3, <2>5
  <2> QED  BY <2>4, <2>5
<1>34. \A c \in Blocks : Counts(c)'
  <2> SUFFICES ASSUME NEW c \in Blocks  PROVE Counts(c)'
    OBVIOUS
  <2>1. c # b => t \notin Dropped(c)
    BY <1>4 DEF Dropped
  <2>2. c # ptr[b] => b \notin Counted(c)
    BY DEF Counted
  <2>3. CASE c = b /\ seen[t] = 1
    <3>1. Counted(c)' = {} /\ Dropped(c)' = {}
      BY <1>6, <1>8, <1>32, <1>33, <2>3
    <3> QED  BY <1>10, <2>3, <3>1 DEF Counts
  <2>4. CASE c = b /\ seen[t] # 1
    <3>1. Counted(b)' = Counted(b) /\ Dropped(b)' = Dropped(b) \ {t}
      BY <1>2, <1>4, <1>8, <1>32, <1>33, <2>4
    <3>2. Cardinality(Dropped(b) \ {t}) = Cardinality(Dropped(b)) - 1
      BY <1>5, SetsFinite, FS_RemoveElement
    <3>3. Cardinality(Counted(b)) \in Nat /\ Cardinality(Dropped(b)) \in Nat
      BY SetsFinite, FS_CardinalityType
    <3>4. count[b] = Cardinality(Counted(b)) + Cardinality(Dropped(b)) /\ count[b] > 0
      BY <1>4, <1>5 DEF PtrInv, Counts
    <3> QED  BY <1>5, <1>10, <2>4, <3>1, <3>2, <3>3, <3>4 DEF Counts
  <2>5. CASE c # b /\ k = 2 /\ c = ptr[b]
    <3>1. Counted(c)' = Counted(c) \ {b} /\ Dropped(c)' = Dropped(c) \cup {t}
      BY <1>32, <1>33, <2>1, <2>5
    <3>2. /\ Cardinality(Counted(c) \ {b}) = Cardinality(Counted(c)) - 1
          /\ Cardinality(Dropped(c) \cup {t}) = Cardinality(Dropped(c)) + 1
          /\ Cardinality(Counted(c)) \in Nat /\ Cardinality(Dropped(c)) \in Nat
      <4>1. b \in Counted(c) /\ t \notin Dropped(c)
        BY <1>8, <2>1, <2>5
      <4>2. IsFiniteSet(Counted(c)) /\ IsFiniteSet(Dropped(c))
        BY SetsFinite
      <4> QED  BY <4>1, <4>2, MovedCount
    <3>3. block[c] \in {"live", "null"}
      BY <1>4, <1>8, <2>5, PointsToLive, HandlesAre
    <3> QED  BY <1>10, <2>5, <3>1, <3>2, <3>3 DEF PtrInv, Counts
  <2>6. CASE c # b /\ ~(k = 2 /\ c = ptr[b])
    <3>1. Counted(c)' = Counted(c) /\ Dropped(c)' = Dropped(c)
      BY <1>8, <1>32, <1>33, <2>1, <2>2, <2>6
    <3> QED  BY <1>10, <2>6, <3>1 DEF PtrInv, Counts
  <2> QED  BY <2>3, <2>4, <2>5, <2>6
<1> QED  BY <1>17, <1>21, <1>22, <1>23, <1>24, <1>29, <1>30, <1>31, <1>34 DEF PtrInv

--------------------------------------------------------------------------------
\* The invariant, and what it says of the pointers.

LEMMA NextInv == PtrInv /\ [Next]_vars => PtrInv'
<1> SUFFICES ASSUME PtrInv, [Next]_vars  PROVE PtrInv'
  OBVIOUS
<1>1. CASE UNCHANGED vars
  <2>1. UNCHANGED <<block, count, mutex, ptr, pc, to, from, work, seen>>
    BY <1>1 DEF vars, blockVars
  <2>2. TypeInv' /\ GoneIsEmpty' /\ SeenIsCount' /\ DeletedOnce' /\ Exclusive'
    BY <2>1 DEF PtrInv, TypeInv, GoneIsEmpty, SeenIsCount, DeletedOnce, Exclusive
  <2>3. \A t \in Threads : Control(t)' /\ KeptAlive(t)'
    BY <2>1 DEF PtrInv, Control, KeptAlive, InRelease, Dropping, Adding
  <2>4. MutexHeld'
    BY <2>1 DEF PtrInv, MutexHeld, Holds
  <2>5. \A b \in Blocks : Counts(b)'
    BY <2>1 DEF PtrInv, Counts, Counted, Dropped, Adding, Dropping
  <2> QED  BY <2>2, <2>3, <2>4, <2>5 DEF PtrInv
<1>2. ASSUME NEW t \in Threads, NEW h \in Handles, NEW b \in Blocks, Construct(t, h, b)
      PROVE  PtrInv'
  BY <1>2, ConstructKeeps
<1>3. ASSUME NEW t \in Threads, NEW h \in Handles, NEW g \in Handles \cup {None}, Begin(t, h, g)
      PROVE  PtrInv'
  BY <1>3, BeginKeeps
<1>4. ASSUME NEW t \in Threads, LockStep(t)  PROVE PtrInv'
  BY <1>4, ReleaseLockKeeps, AddLockKeeps DEF LockStep
<1>5. ASSUME NEW t \in Threads, FreeStep(t)  PROVE PtrInv'
  BY <1>5, ReleaseLoadKeeps, ReleaseStoreKeeps, ReleaseUnlockKeeps, ReleaseMutexKeeps,
     ReadSourceKeeps, AddLoadKeeps, AddStoreKeeps
     DEF FreeStep
<1> QED  BY <1>1, <1>2, <1>3, <1>4, <1>5 DEF Next

(***************************************************************************)
(* Whatever the threads call, whatever handles they share for reading and  *)
(* however the objects are linked: the places of the threads in operator=, *)
(* the mutexes and the counts agree.                                       *)
(***************************************************************************)
THEOREM PtrInvariance == Spec => []PtrInv
BY InitInv, NextInv, PTL DEF Spec

\* A thread that copies a handle has one that is not counted yet, a different one
\* from that of any other thread.
LEMMA UncountedHandles ==
  ASSUME PtrInv, NEW b \in Blocks
  PROVE  /\ IsFiniteSet(Uncounted(b))
         /\ Cardinality({h \in Handles : ptr[h] = b}) = Cardinality(Counted(b)) + Cardinality(Uncounted(b))
<1> DEFINE E == {h \in Handles : ptr[h] = b /\ \E t \in Threads : Adding(t) /\ to[t] = h}
           f == [t \in Uncounted(b) |-> to[t]]
<1>1. Uncounted(b) = {t \in Threads : Adding(t) /\ ptr[to[t]] = b}
  BY DEF Uncounted, Adding
<1>2. IsFiniteSet(Uncounted(b))
  BY <1>1, PointsToLive, PointersAssumption, FS_Subset
<1>3. \A t \in Uncounted(b) : to[t] \in E
  <2>1. \A t \in Uncounted(b) : to[t] \in Handles
    BY <1>1, HandlesAre DEF PtrInv, Control, Adding
  <2> QED  BY <1>1, <2>1
<1>4. \A h \in E : \E t \in Uncounted(b) : to[t] = h
  BY <1>1
<1>5. \A t, u \in Uncounted(b) : to[t] = to[u] => t = u
  BY <1>1, <1>3, HandlesAre DEF PtrInv, Exclusive
<1>6. f \in Bijection(Uncounted(b), E)
  <2> HIDE DEF E
  <2>1. f \in [Uncounted(b) -> E] /\ \A t \in Uncounted(b) : f[t] = to[t]
    BY <1>3
  <2> HIDE DEF f
  <2>2. f \in Injection(Uncounted(b), E)
    BY <1>5, <2>1 DEF Injection, IsInjective
  <2>3. f \in Surjection(Uncounted(b), E)
    BY <1>4, <2>1 DEF Surjection
  <2> QED  BY <2>2, <2>3 DEF Bijection
<1>7. IsFiniteSet(E) /\ Cardinality(E) = Cardinality(Uncounted(b))
  <2> HIDE DEF E, f
  <2> QED  BY <1>2, <1>6, FS_Bijection DEF ExistsBijection
<1>8. {h \in Handles : ptr[h] = b} = Counted(b) \cup E /\ Counted(b) \cap E = {}
  BY DEF Counted
<1>9. Cardinality(Counted(b) \cup E) = Cardinality(Counted(b)) + Cardinality(E) - 0
  <2> HIDE DEF E
  <2> QED  BY <1>7, <1>8, SetsFinite, FS_Union, FS_EmptySet
<1>10. Cardinality(Counted(b)) \in Nat /\ Cardinality(Uncounted(b)) \in Nat
  BY <1>2, SetsFinite, FS_CardinalityType
<1>11. Cardinality({h \in Handles : ptr[h] = b}) = Cardinality(Counted(b) \cup E)
  BY <1>8
<1> HIDE DEF E
<1> QED  BY <1>2, <1>7, <1>9, <1>10, <1>11

(***************************************************************************)
(* The count of a Shared_Ptr is exact: that of a live object is the number *)
(* of handles on it, but for the calls under way, and positive; the object *)
(* is deleted once, when its last handle goes; and nobody is at work on a  *)
(* count, or deletes, but the thread that holds the mutex.                 *)
(***************************************************************************)
THEOREM CountOfHandles == Spec => []CountExact
<1>1. PtrInv => CountExact
  <2> SUFFICES ASSUME PtrInv, NEW b \in Blocks
               PROVE  LET handles == Cardinality({h \in Handles : ptr[h] = b})
                                       + Cardinality(Undropped(b)) - Cardinality(Uncounted(b))
                      IN  /\ IF block[b] \in {"live", "null"} THEN count[b] = handles /\ handles > 0
                                                              ELSE handles = 0
                          /\ \A t \in Threads : Holds(t, b) <=> mutex[b] = t
    BY DEF CountExact
  <2>1. Undropped(b) = Dropped(b)
    BY ReleasingIs DEF Undropped, Dropped, Dropping, InRelease
  <2>2. /\ Cardinality(Counted(b)) \in Nat /\ Cardinality(Dropped(b)) \in Nat
        /\ Cardinality(Uncounted(b)) \in Nat
    BY SetsFinite, UncountedHandles, FS_CardinalityType
  <2>3. Cardinality({h \in Handles : ptr[h] = b}) + Cardinality(Undropped(b))
          - Cardinality(Uncounted(b)) = Cardinality(Counted(b)) + Cardinality(Dropped(b))
    BY <2>1, <2>2, UncountedHandles
  <2>4. block[b] \notin {"live", "null"} => Cardinality(Counted(b)) + Cardinality(Dropped(b)) = 0
    BY FS_EmptySet DEF PtrInv, Counts
  <2>5. block[b] \in {"live", "null"} =>
          count[b] = Cardinality(Counted(b)) + Cardinality(Dropped(b)) /\ count[b] > 0
    BY DEF PtrInv, Counts
  <2>6. \A t \in Threads : Holds(t, b) <=> mutex[b] = t
    BY DEF PtrInv, MutexHeld
  <2> QED  BY <2>3, <2>4, <2>5, <2>6
<1> QED  BY <1>1, PtrInvariance, PTL

(***************************************************************************)
(* No handle points to an object that was deleted, a thread that is about  *)
(* to lock, read or write a count finds it there, and the mutex a Release  *)
(* unlocks and deletes has not been deleted by another.                    *)
(***************************************************************************)
THEOREM NoUseAfterDelete == Spec => []NothingUsedAfterDelete
<1>1. PtrInv => NothingUsedAfterDelete
  <2> SUFFICES ASSUME PtrInv  PROVE NothingUsedAfterDelete
    OBVIOUS
  <2>1. \A h \in Handles : ptr[h] # None => block[ptr[h]] \in {"live", "null"}
    BY PointsToLive
  <2>2. ASSUME NEW t \in Threads, pc[t] \in {"relLock", "relLoad", "relStore"}
        PROVE  block[Releasing(t)] \in {"live", "null"}
    <3>1. InRelease(t) /\ Dropping(t)
      BY <2>2 DEF InRelease, Dropping
    <3>2. Releasing(t) \in Blocks /\ t \in Dropped(Releasing(t))
      BY <3>1, ReleasingIs DEF Dropped
    <3> QED  BY <3>2, DroppedIsLive
  <2>3. ASSUME NEW t \in Threads, pc[t] \in {"relUnlock", "relMutex"}
        PROVE  block[Releasing(t)] # "free"
    <3>1. /\ Releasing(t) = work[t][1].block /\ 1 \in 1..Len(work[t])
          /\ pc[t] = "relMutex" => work[t][1].delete
      BY <2>3, ReleasingIs DEF InRelease, PtrInv, Control
    <3>2. work[t][1].delete => block[work[t][1].block] = "deleted"
      BY <3>1 DEF PtrInv, DeletedOnce
    <3>3. ~work[t][1].delete => block[work[t][1].block] \in {"live", "null"}
      BY <2>3, <3>1 DEF PtrInv, DeletedOnce
    <3> QED  BY <3>1, <3>2, <3>3
  <2> QED  BY <2>1, <2>2, <2>3 DEF NothingUsedAfterDelete
<1> QED  BY <1>1, PtrInvariance, PTL

================================================================================
