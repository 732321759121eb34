--------------------------- MODULE ContainerProofs ----------------------------
(***************************************************************************)
(* Proofs about the containers and the graph, for every capacity and every *)
(* number of vertices: the circular buffer is a dropping deque, the LRU    *)
(* cache is a cache of the most recent pairs, the searches find what can   *)
(* be reached, a sort is wrong on cycles only, and the priority cache      *)
(* answers with the value that was set last and evicts in order.           *)
(***************************************************************************)
EXTENDS MCContainers, SequenceTheorems, FiniteSetTheorems, FunctionTheorems,
        WellFoundedInduction, TLAPS

--------------------------------------------------------------------------------
(***************************************************************************)
(* CircularBuffer, for every capacity that a size_t can count twice.       *)
(***************************************************************************)

\* The slot k places after h, without the wrap-arounds of size_t.
Slot(h, k) == IF h + k < Capacity THEN h + k ELSE h + k - Capacity

\* (i + 1) % capacity_ and (i - 1 + capacity_) % capacity_ are what they look
\* like: the addition never reaches Word, and the subtraction at 0 wraps back.
LEMMA FollowingIs ==
  ASSUME NEW i \in Indices
  PROVE  /\ Following(i) = IF i = Capacity - 1 THEN 0 ELSE i + 1
         /\ Following(i) \in Indices
<1>1. (i + 1) % Word = i + 1
  BY CapacityAssumption DEF Indices
<1> QED
  BY <1>1, CapacityAssumption DEF Indices, Following

LEMMA PrecedingIs ==
  ASSUME NEW i \in Indices
  PROVE  /\ Preceding(i) = IF i = 0 THEN Capacity - 1 ELSE i - 1
         /\ Preceding(i) \in Indices
<1>1. (((i - 1) % Word) + Capacity) % Word = i - 1 + Capacity
  <2>1. CASE i = 0
    <3>1. (i - 1) % Word = Word - 1
      BY <2>1, CapacityAssumption
    <3> QED
      BY <2>1, <3>1, CapacityAssumption
  <2>2. CASE i # 0
    <3>1. (i - 1) % Word = i - 1
      BY <2>2, CapacityAssumption DEF Indices
    <3> QED
      BY <2>2, <3>1, CapacityAssumption DEF Indices
  <2> QED
    BY <2>1, <2>2
<1> QED
  BY <1>1, CapacityAssumption DEF Indices, Preceding

\* The index iterate() computes for the k-th item.
LEMMA SlotIs ==
  ASSUME NEW h \in Indices, NEW k \in 0..Capacity
  PROVE  /\ (h + k) % Capacity = Slot(h, k)
         /\ k < Capacity => ((h + k) % Word) % Capacity = Slot(h, k)
         /\ Slot(h, k) \in Indices
<1>1. (h + k) % Capacity = Slot(h, k)
  BY CapacityAssumption DEF Indices, Slot
<1>2. k < Capacity => (h + k) % Word = h + k
  BY CapacityAssumption DEF Indices
<1> QED
  BY <1>1, <1>2, CapacityAssumption DEF Indices, Slot

\* The types, with tail_ given by a sum.
CountersOK ==
  /\ buffer \in [Indices -> Items \cup {Default}]
  /\ head \in Indices /\ tail \in Indices /\ size \in 0..Capacity
  /\ popped \in Items \cup {NoItem}
  /\ tail = Slot(head, size)

\* What iterate() visits are items: the slots between head_ and tail_ are filled.
Filled == \A k \in 1..size : buffer[Slot(head, k - 1)] \in Items

BufferInv == CountersOK /\ Filled

LEMMA InitIInv == Init => BufferInv
BY CapacityAssumption DEF Init, BufferInv, CountersOK, Filled, Indices, Slot

\* The items of a buffer, by their slots.
ItemsInSlots ==
  /\ Contents \in Seq(Items) /\ Len(Contents) = size
  /\ \A k \in 1..size : Contents[k] = buffer[Slot(head, k - 1)]

LEMMA ContentsIs == BufferInv => ItemsInSlots
<1> SUFFICES ASSUME BufferInv PROVE ItemsInSlots
  OBVIOUS
<1>1. \A k \in 1..size : ((head + k - 1) % Word) % Capacity = Slot(head, k - 1)
  <2> SUFFICES ASSUME NEW k \in 1..size
               PROVE  ((head + k - 1) % Word) % Capacity = Slot(head, k - 1)
    OBVIOUS
  <2>1. k - 1 \in 0..Capacity - 1 /\ head + k - 1 = head + (k - 1)
    BY CapacityAssumption DEF BufferInv, CountersOK, Indices
  <2> QED
    BY <2>1, SlotIs, CapacityAssumption DEF BufferInv, CountersOK
<1>2. Contents = [k \in 1..size |-> buffer[Slot(head, k - 1)]]
  BY <1>1 DEF Contents
<1>3. size \in Nat
  BY CapacityAssumption DEF BufferInv, CountersOK
<1> QED
  BY <1>2, <1>3 DEF BufferInv, Filled, ItemsInSlots

LEMMA ContentsIsNext == BufferInv' => ItemsInSlots'
BY ContentsIs, PTL
--------------------------------------------------------------------------------
LEMMA PushBackStep ==
  ASSUME BufferInv, NEW val \in Items, push_back(val)
  PROVE  BufferInv' /\ Deque!PushBack(val)
<1>0. /\ Capacity \in Nat \ {0} /\ head \in Indices /\ tail \in Indices
      /\ size \in 0..Capacity /\ tail = Slot(head, size)
      /\ buffer \in [Indices -> Items \cup {Default}]
  BY CapacityAssumption DEF BufferInv, CountersOK
<1>1. /\ tail' = IF tail = Capacity - 1 THEN 0 ELSE tail + 1
      /\ buffer' = [buffer EXCEPT ![tail] = val]
      /\ popped' = popped
      /\ IF size = Capacity
           THEN head' = (IF head = Capacity - 1 THEN 0 ELSE head + 1) /\ size' = size
           ELSE size' = size + 1 /\ head' = head
  BY <1>0, FollowingIs DEF push_back, is_full
<1>2. CountersOK'
  BY <1>0, <1>1 DEF BufferInv, CountersOK, Slot, Indices
<1>3. \A k \in 1..size' :
        buffer'[Slot(head', k - 1)] =
          IF k = size' THEN val
          ELSE IF size = Capacity THEN buffer[Slot(head, k)] ELSE buffer[Slot(head, k - 1)]
  <2> SUFFICES ASSUME NEW k \in 1..size'
               PROVE  buffer'[Slot(head', k - 1)] =
                 IF k = size' THEN val
                 ELSE IF size = Capacity THEN buffer[Slot(head, k)] ELSE buffer[Slot(head, k - 1)]
    OBVIOUS
  <2>1. CASE size = Capacity
    <3>1. Slot(head', k - 1) = Slot(head, k) /\ Slot(head, k) \in Indices /\ tail = head
      BY <1>0, <1>1, <2>1 DEF Slot, Indices
    <3>2. Slot(head, k) = tail <=> k = size'
      BY <1>0, <1>1, <2>1, <3>1 DEF Slot, Indices
    <3> QED
      BY <1>0, <1>1, <2>1, <3>1, <3>2
  <2>2. CASE size # Capacity
    <3>1. Slot(head', k - 1) = Slot(head, k - 1) /\ Slot(head, k - 1) \in Indices
      BY <1>0, <1>1, <2>2 DEF Slot, Indices
    <3>2. Slot(head, k - 1) = tail <=> k = size'
      BY <1>0, <1>1, <2>2, <3>1 DEF Slot, Indices
    <3> QED
      BY <1>0, <1>1, <2>2, <3>1, <3>2
  <2> QED
    BY <2>1, <2>2
<1>4. Filled'
  BY <1>0, <1>1, <1>3 DEF BufferInv, Filled
<1>5. BufferInv'
  BY <1>2, <1>4 DEF BufferInv
<1>6. Contents' = Append(IF size = Capacity THEN Tail(Contents) ELSE Contents, val)
  <2> DEFINE kept == IF size = Capacity THEN Tail(Contents) ELSE Contents
  <2>1. /\ Contents \in Seq(Items) /\ Len(Contents) = size
        /\ \A k \in 1..size : Contents[k] = buffer[Slot(head, k - 1)]
    BY ContentsIs DEF ItemsInSlots
  <2>2. /\ Contents' \in Seq(Items) /\ Len(Contents') = size'
        /\ \A k \in 1..size' : Contents'[k] = buffer'[Slot(head', k - 1)]
    BY <1>5, ContentsIsNext DEF ItemsInSlots
  <2>3. /\ kept \in Seq(Items) /\ Len(kept) = size' - 1
        /\ \A k \in 1..size' - 1 : kept[k] = Contents'[k]
    <3>1. CASE size = Capacity
      <4>1. Contents # << >>
        BY <1>0, <2>1, <3>1
      <4>2. /\ Tail(Contents) \in Seq(Items) /\ Len(Tail(Contents)) = size - 1
            /\ \A k \in 1..size - 1 : Tail(Contents)[k] = Contents[k + 1]
        BY <2>1, <4>1, HeadTailProperties
      <4>3. \A k \in 1..size - 1 : Contents[k + 1] = Contents'[k]
        BY <1>0, <1>1, <1>3, <2>1, <2>2, <3>1
      <4> QED
        BY <1>1, <3>1, <4>2, <4>3
    <3>2. CASE size # Capacity
      BY <1>0, <1>1, <1>3, <2>1, <2>2, <3>2
    <3> QED
      BY <3>1, <3>2
  <2>4. Contents'[size'] = val
    BY <1>0, <1>1, <1>3, <2>2
  <2> QED
    BY <2>2, <2>3, <2>4, SeqEqual
<1>7. Deque!Full <=> size = Capacity
  BY ContentsIs DEF Deque!Full, ItemsInSlots
<1> QED
  BY <1>1, <1>5, <1>6, <1>7 DEF Deque!PushBack

LEMMA PushFrontStep ==
  ASSUME BufferInv, NEW val \in Items, push_front(val)
  PROVE  BufferInv' /\ Deque!PushFront(val)
<1>0. /\ Capacity \in Nat \ {0} /\ head \in Indices /\ tail \in Indices
      /\ size \in 0..Capacity /\ tail = Slot(head, size)
      /\ buffer \in [Indices -> Items \cup {Default}]
  BY CapacityAssumption DEF BufferInv, CountersOK
<1>1. /\ head' = IF head = 0 THEN Capacity - 1 ELSE head - 1
      /\ head' \in Indices
      /\ buffer' = [buffer EXCEPT ![head'] = val]
      /\ popped' = popped
      /\ IF size = Capacity
           THEN tail' = (IF tail = 0 THEN Capacity - 1 ELSE tail - 1) /\ size' = size
           ELSE size' = size + 1 /\ tail' = tail
  BY <1>0, PrecedingIs DEF push_front, is_full
<1>2. CountersOK'
  BY <1>0, <1>1 DEF BufferInv, CountersOK, Slot, Indices
<1>3. \A k \in 1..size' :
        buffer'[Slot(head', k - 1)] = IF k = 1 THEN val ELSE buffer[Slot(head, k - 2)]
  <2> SUFFICES ASSUME NEW k \in 1..size'
               PROVE  buffer'[Slot(head', k - 1)] =
                        IF k = 1 THEN val ELSE buffer[Slot(head, k - 2)]
    OBVIOUS
  <2>1. k # 1 => Slot(head', k - 1) = Slot(head, k - 2)
    BY <1>0, <1>1 DEF Slot, Indices
  <2>2. Slot(head', k - 1) \in Indices /\ (Slot(head', k - 1) = head' <=> k = 1)
    BY <1>0, <1>1 DEF Slot, Indices
  <2> QED
    BY <1>0, <1>1, <2>1, <2>2
<1>4. Filled'
  <2>1. \A k \in 1..size' : k # 1 => k - 1 \in 1..size /\ k - 2 = (k - 1) - 1
    BY <1>0, <1>1
  <2> QED
    BY <1>3, <2>1 DEF BufferInv, Filled
<1>5. BufferInv'
  BY <1>2, <1>4 DEF BufferInv
<1> DEFINE kept == IF size = Capacity THEN Deque!AllButLast(Contents) ELSE Contents
<1>6. Contents' = <<val>> \o kept
  <2>1. /\ Contents \in Seq(Items) /\ Len(Contents) = size
        /\ \A k \in 1..size : Contents[k] = buffer[Slot(head, k - 1)]
    BY ContentsIs DEF ItemsInSlots
  <2>2. /\ Contents' \in Seq(Items) /\ Len(Contents') = size'
        /\ \A k \in 1..size' : Contents'[k] = buffer'[Slot(head', k - 1)]
    BY <1>5, ContentsIsNext DEF ItemsInSlots
  <2>3. /\ kept \in Seq(Items) /\ Len(kept) = size' - 1
        /\ \A k \in 1..size' - 1 : kept[k] = Contents[k]
    <3>1. CASE size = Capacity
      <4>1. /\ \A k \in 1..size - 1 : Contents[k] \in Items
            /\ size - 1 \in Int /\ 1 \in Int /\ (1 <= size - 1 \/ size - 1 = 0)
        BY <1>0, <2>1, <3>1
      <4>2. /\ SubSeq(Contents, 1, size - 1) \in Seq(Items)
            /\ Len(SubSeq(Contents, 1, size - 1)) = size - 1
            /\ \A k \in 1..size - 1 : SubSeq(Contents, 1, size - 1)[k] = Contents[k]
        BY <4>1, SubSeqProperties
      <4> QED
        BY <1>1, <2>1, <3>1, <4>2 DEF Deque!AllButLast
    <3>2. CASE size # Capacity
      BY <1>0, <1>1, <2>1, <3>2
    <3> QED
      BY <3>1, <3>2
  <2>4. \A k \in 1..size' : k # 1 => Contents'[k] = kept[k - 1]
    <3> SUFFICES ASSUME NEW k \in 1..size', k # 1 PROVE Contents'[k] = kept[k - 1]
      OBVIOUS
    <3>1. k - 1 \in 1..size' - 1 /\ k - 1 \in 1..size /\ k - 2 = (k - 1) - 1
      BY <1>0, <1>1
    <3>2. Contents'[k] = buffer[Slot(head, k - 2)]
      BY <1>3, <2>2
    <3> QED
      BY <2>1, <2>3, <3>1, <3>2
  <2>5. Contents'[1] = val /\ size' >= 1 /\ size' \in Nat
    BY <1>0, <1>1, <1>3, <2>2
  <2>6. /\ <<val>> \o kept \in Seq(Items) /\ Len(<<val>> \o kept) = size'
        /\ \A k \in 1..size' : (<<val>> \o kept)[k] = IF k = 1 THEN val ELSE kept[k - 1]
    <3> HIDE DEF kept
    <3>1. <<val>> \in Seq(Items) /\ Len(<<val>>) = 1 /\ <<val>>[1] = val
      OBVIOUS
    <3>2. /\ <<val>> \o kept \in Seq(Items)
          /\ Len(<<val>> \o kept) = Len(<<val>>) + Len(kept)
          /\ \A k \in 1..Len(<<val>>) + Len(kept) : (<<val>> \o kept)[k] =
               IF k <= Len(<<val>>) THEN <<val>>[k] ELSE kept[k - Len(<<val>>)]
      BY <2>3, <3>1, ConcatProperties
    <3>3. 1 + (size' - 1) = size'
      <4>1. \A n \in Nat : 1 + (n - 1) = n
        OBVIOUS
      <4> QED
        BY <2>5, <4>1
    <3>4. \A k \in 1..size' : k <= 1 <=> k = 1
      BY <2>5
    <3> QED
      BY <2>3, <3>1, <3>2, <3>3, <3>4
  <2>7. \A k \in 1..size' : Contents'[k] = (<<val>> \o kept)[k]
    BY <2>4, <2>5, <2>6
  <2> HIDE DEF kept
  <2> QED
    BY <2>2, <2>6, <2>7, SeqEqual
<1>7. Deque!Full <=> size = Capacity
  BY ContentsIs DEF Deque!Full, ItemsInSlots
<1> QED
  BY <1>1, <1>5, <1>6, <1>7 DEF Deque!PushFront

LEMMA PopBackStep ==
  ASSUME BufferInv, pop_back
  PROVE  BufferInv' /\ Deque!PopBack
<1>0. /\ Capacity \in Nat \ {0} /\ head \in Indices /\ tail \in Indices
      /\ size \in 1..Capacity /\ tail = Slot(head, size)
      /\ buffer \in [Indices -> Items \cup {Default}]
  BY CapacityAssumption DEF BufferInv, CountersOK, pop_back, is_empty
<1>1. /\ tail' = IF tail = 0 THEN Capacity - 1 ELSE tail - 1
      /\ tail' \in Indices
      /\ size' = size - 1 /\ popped' = buffer[tail']
      /\ buffer' = buffer /\ head' = head
  BY <1>0, PrecedingIs DEF pop_back
<1>2. tail' = Slot(head, size - 1)
  BY <1>0, <1>1 DEF Slot, Indices
<1>3. /\ Contents \in Seq(Items) /\ Len(Contents) = size
      /\ \A k \in 1..size : Contents[k] = buffer[Slot(head, k - 1)]
  BY ContentsIs DEF ItemsInSlots
<1>4. popped' = Contents[size] /\ popped' \in Items
  BY <1>0, <1>1, <1>2, <1>3 DEF BufferInv, Filled
<1>5. BufferInv'
  BY <1>0, <1>1, <1>2, <1>4 DEF BufferInv, CountersOK, Filled
<1>6. /\ Contents' \in Seq(Items) /\ Len(Contents') = size'
      /\ \A k \in 1..size' : Contents'[k] = buffer'[Slot(head', k - 1)]
  BY <1>5, ContentsIsNext DEF ItemsInSlots
<1>7. Contents' = Deque!AllButLast(Contents)
  <2>1. /\ \A k \in 1..size - 1 : Contents[k] \in Items
        /\ size - 1 \in Int /\ 1 \in Int /\ (1 <= size - 1 \/ size - 1 = 0)
    BY <1>0, <1>3
  <2>2. /\ SubSeq(Contents, 1, size - 1) \in Seq(Items)
        /\ Len(SubSeq(Contents, 1, size - 1)) = size - 1
        /\ \A k \in 1..size - 1 : SubSeq(Contents, 1, size - 1)[k] = Contents[k]
    BY <2>1, SubSeqProperties
  <2>3. ASSUME NEW k \in 1..size' PROVE Contents'[k] = SubSeq(Contents, 1, size - 1)[k]
    <3>1. k \in 1..size - 1 /\ k \in 1..size
      BY <1>0, <1>1
    <3>2. Contents'[k] = Contents[k]
      BY <1>1, <1>3, <1>6, <3>1
    <3> QED
      BY <2>2, <3>1, <3>2
  <2>4. Contents' = SubSeq(Contents, 1, size - 1)
    BY <1>1, <1>6, <2>2, <2>3, SeqEqual
  <2> QED
    BY <1>3, <2>4 DEF Deque!AllButLast
<1>8. Contents # << >>
  BY <1>0, <1>3
<1> QED
  BY <1>3, <1>4, <1>5, <1>7, <1>8 DEF Deque!PopBack

LEMMA PopFrontStep ==
  ASSUME BufferInv, pop_front
  PROVE  BufferInv' /\ Deque!PopFront
<1>0. /\ Capacity \in Nat \ {0} /\ head \in Indices /\ tail \in Indices
      /\ size \in 1..Capacity /\ tail = Slot(head, size)
      /\ buffer \in [Indices -> Items \cup {Default}]
  BY CapacityAssumption DEF BufferInv, CountersOK, pop_front, is_empty
<1>1. /\ head' = IF head = Capacity - 1 THEN 0 ELSE head + 1
      /\ head' \in Indices
      /\ size' = size - 1 /\ popped' = buffer[head]
      /\ buffer' = buffer /\ tail' = tail
  BY <1>0, FollowingIs DEF pop_front
<1>2. /\ tail = Slot(head', size - 1) /\ head = Slot(head, 0)
      /\ \A k \in 1..size - 1 : Slot(head', k - 1) = Slot(head, k)
  BY <1>0, <1>1 DEF Slot, Indices
<1>3. /\ Contents \in Seq(Items) /\ Len(Contents) = size
      /\ \A k \in 1..size : Contents[k] = buffer[Slot(head, k - 1)]
  BY ContentsIs DEF ItemsInSlots
<1>4. Contents # << >> /\ popped' = Contents[1] /\ popped' \in Items
  BY <1>0, <1>1, <1>2, <1>3
<1>5. \A k \in 1..size' : k + 1 \in 1..size /\ Contents[k + 1] = buffer'[Slot(head', k - 1)]
  BY <1>0, <1>1, <1>2, <1>3
<1>6. BufferInv'
  <2>1. CountersOK'
    BY <1>0, <1>1, <1>2, <1>4 DEF BufferInv, CountersOK
  <2>2. Filled'
    BY <1>0, <1>3, <1>5 DEF Filled
  <2> QED
    BY <2>1, <2>2 DEF BufferInv
<1>7. /\ Contents' \in Seq(Items) /\ Len(Contents') = size'
      /\ \A k \in 1..size' : Contents'[k] = buffer'[Slot(head', k - 1)]
  BY <1>6, ContentsIsNext DEF ItemsInSlots
<1>8. Contents' = Tail(Contents)
  <2>1. /\ Tail(Contents) \in Seq(Items) /\ Len(Tail(Contents)) = size - 1
        /\ \A k \in 1..size - 1 : Tail(Contents)[k] = Contents[k + 1]
    BY <1>3, <1>4, HeadTailProperties
  <2>2. \A k \in 1..size' : Contents'[k] = Tail(Contents)[k]
    BY <1>1, <1>5, <1>7, <2>1
  <2> QED
    BY <1>1, <1>7, <2>1, <2>2, SeqEqual
<1> QED
  BY <1>3, <1>4, <1>6, <1>8 DEF Deque!PopFront

LEMMA ClearStep ==
  ASSUME BufferInv, clear
  PROVE  BufferInv' /\ Deque!Clear
<1>1. BufferInv'
  BY CapacityAssumption DEF BufferInv, CountersOK, Filled, clear, Slot, Indices
<1>2. Contents' \in Seq(Items) /\ Len(Contents') = 0
  BY <1>1, ContentsIsNext DEF ItemsInSlots, clear
<1>3. Contents' = << >>
  BY <1>2
<1> QED
  BY <1>1, <1>3 DEF Deque!Clear, clear

--------------------------------------------------------------------------------
LEMMA NextIInv == BufferInv /\ [Next]_vars => BufferInv'
<1> SUFFICES ASSUME BufferInv, [Next]_vars PROVE BufferInv'
  OBVIOUS
<1>1. CASE UNCHANGED vars
  BY <1>1 DEF vars, BufferInv, CountersOK, Filled
<1> QED
  BY <1>1, PushBackStep, PushFrontStep, PopBackStep, PopFrontStep, ClearStep DEF Next

\* The counters agree and the slots between them are filled, in every
\* reachable state.
THEOREM Invariance == Spec => []BufferInv
BY InitIInv, NextIInv, PTL DEF Spec

(***************************************************************************)
(* head_, tail_ and size_ stay in range and agree, for every capacity:     *)
(* tail_ is size_ slots after head_, through every wrap-around.            *)
(***************************************************************************)
THEOREM CountersAgree == Spec => []TypeOK
<1>1. BufferInv => TypeOK
  BY SlotIs DEF BufferInv, CountersOK, TypeOK
<1> QED
  BY Invariance, <1>1, PTL

LEMMA StepImplements == BufferInv /\ [Next]_vars => [Deque!Next]_(Deque!dequeVars)
<1> SUFFICES ASSUME BufferInv, [Next]_vars PROVE [Deque!Next]_(Deque!dequeVars)
  OBVIOUS
<1>1. CASE UNCHANGED vars
  BY <1>1 DEF vars, Deque!dequeVars, Contents
<1> QED
  BY <1>1, PushBackStep, PushFrontStep, PopBackStep, PopFrontStep, ClearStep
     DEF Next, Deque!Next

(***************************************************************************)
(* The buffer is a deque that drops from its other end when it is full,    *)
(* and each pop returns the item at its end.                               *)
(***************************************************************************)
THEOREM BufferIsDeque == Spec => ImplementsDeque
<1>1. Init => Deque!Init
  <2> SUFFICES ASSUME Init PROVE Deque!Init
    OBVIOUS
  <2>1. Contents \in Seq(Items) /\ Len(Contents) = 0
    BY InitIInv, ContentsIs DEF ItemsInSlots, Init
  <2> QED
    BY <2>1 DEF Deque!Init, Init
<1> QED
  BY Invariance, StepImplements, <1>1, PTL DEF Spec, ImplementsDeque, Deque!Spec

--------------------------------------------------------------------------------
(***************************************************************************)
(* LRUCache.  The facts about list, node and map are stated for any three, *)
(* so that they can be used before and after a step.                       *)
(***************************************************************************)

\* s with x in front and without its i-th element.
Moved(s, i, x) == <<x>> \o (SubSeq(s, 1, i - 1) \o SubSeq(s, i + 1, Len(s)))

LEMMA MovedIs ==
  ASSUME NEW S, NEW s \in Seq(S), NEW x \in S, NEW i \in 1..Len(s)
  PROVE  /\ Moved(s, i, x) \in Seq(S)
         /\ Len(Moved(s, i, x)) = Len(s)
         /\ \A j \in 1..Len(s) :
              Moved(s, i, x)[j] = IF j = 1 THEN x ELSE IF j <= i THEN s[j - 1] ELSE s[j]
<1>1. PICK n \in Nat : n = Len(s) /\ i \in 1..n /\ i \in Int
  OBVIOUS
<1>2. PICK a \in Seq(S) : /\ a = SubSeq(s, 1, i - 1) /\ Len(a) = i - 1
                          /\ \A j \in 1..i - 1 : a[j] = s[j]
  <2>1. SubSeq(s, 1, i - 1) \in Seq(S) /\ Len(SubSeq(s, 1, i - 1)) = i - 1
    BY <1>1
  <2>2. \A j \in 1..i - 1 : SubSeq(s, 1, i - 1)[j] = s[j]
    BY <1>1
  <2> QED  BY <2>1, <2>2
<1>3. PICK b \in Seq(S) : /\ b = SubSeq(s, i + 1, n) /\ Len(b) = n - i
                          /\ \A j \in 1..n - i : b[j] = s[j + i]
  <2>1. SubSeq(s, i + 1, n) \in Seq(S) /\ Len(SubSeq(s, i + 1, n)) = n - i
    BY <1>1
  <2>2. \A j \in 1..n - i : SubSeq(s, i + 1, n)[j] = s[j + i]
    BY <1>1
  <2> QED  BY <2>1, <2>2
<1>4. PICK c \in Seq(S) : /\ c = a \o b /\ Len(c) = n - 1
                          /\ \A j \in 1..n - 1 : c[j] = IF j < i THEN s[j] ELSE s[j + 1]
  <2>0. /\ a \o b \in Seq(S) /\ Len(a \o b) = Len(a) + Len(b)
        /\ \A j \in 1..Len(a) + Len(b) :
             (a \o b)[j] = IF j <= Len(a) THEN a[j] ELSE b[j - Len(a)]
    BY ConcatProperties
  <2>6. Len(a) = i - 1 /\ Len(b) = n - i
    BY <1>2, <1>3
  <2>7. (i - 1) + (n - i) = n - 1
    <3>1. i \in Int /\ n \in Int
      BY <1>1
    <3> QED  BY <3>1
  <2>5. Len(a) = i - 1 /\ Len(b) = n - i /\ (i - 1) + (n - i) = n - 1
    BY <2>6, <2>7
  <2>1. a \o b \in Seq(S) /\ Len(a \o b) = n - 1
    BY <2>0, <2>5
  <2>4. \A j \in 1..n - 1 : (a \o b)[j] = IF j <= i - 1 THEN a[j] ELSE b[j - (i - 1)]
    BY <2>0, <2>5
  <2>2. ASSUME NEW j \in 1..n - 1, j < i  PROVE (a \o b)[j] = s[j]
    BY <2>2, <2>4, <1>1, <1>2
  <2>3. ASSUME NEW j \in 1..n - 1, ~(j < i)  PROVE (a \o b)[j] = s[j + 1]
    <3>1. (a \o b)[j] = b[j - (i - 1)]
      <4>1. ~(j <= i - 1)
        <5>1. i \in Int
          BY <1>1
        <5> QED  BY <5>1, <2>3
      <4> QED  BY <4>1, <2>4
    <3>2. j - (i - 1) \in 1..n - i /\ (j - (i - 1)) + i = j + 1
      BY <1>1, <2>3
    <3> QED  BY <3>1, <3>2, <1>3
  <2> QED  BY <2>1, <2>2, <2>3
<1>5. Moved(s, i, x) = <<x>> \o c
  BY <1>1, <1>2, <1>3, <1>4 DEF Moved
<1>6. /\ <<x>> \o c \in Seq(S) /\ Len(<<x>> \o c) = n
      /\ \A j \in 1..n : (<<x>> \o c)[j] = IF j = 1 THEN x ELSE c[j - 1]
  <2>1. <<x>> \in Seq(S) /\ Len(<<x>>) = 1 /\ <<x>>[1] = x
    OBVIOUS
  <2>2. /\ <<x>> \o c \in Seq(S) /\ Len(<<x>> \o c) = Len(<<x>>) + Len(c)
        /\ \A j \in 1..Len(<<x>>) + Len(c) :
             (<<x>> \o c)[j] = IF j <= Len(<<x>>) THEN <<x>>[j] ELSE c[j - Len(<<x>>)]
    BY <2>1, ConcatProperties
  <2>3. Len(<<x>>) + Len(c) = n
    BY <2>1, <1>1, <1>4
  <2>4. \A j \in 1..n : (<<x>> \o c)[j] = IF j <= 1 THEN <<x>>[j] ELSE c[j - 1]
    BY <2>1, <2>2, <2>3
  <2> QED  BY <2>1, <2>2, <2>3, <2>4
<1>7. ASSUME NEW j \in 1..n, j # 1
      PROVE  c[j - 1] = IF j <= i THEN s[j - 1] ELSE s[j]
  <2>1. j - 1 \in 1..n - 1 /\ (j - 1 < i <=> j <= i) /\ (j - 1) + 1 = j
    BY <1>7
  <2> QED  BY <2>1, <1>4
<1> QED  BY <1>1, <1>5, <1>6, <1>7

--------------------------------------------------------------------------------
LruPairs == [key : LruKeys, value : LruValues]

\* The list is a sequence of distinct nodes, and what Lru!TypeOK says.
LruInv == list \in Seq(Nat) /\ Lru!TypeOK

\* The invariant, read through the positions of the list.
Nodes(l, nd) ==
  /\ l \in Seq(Nat)
  /\ \A i, j \in 1..Len(l) : l[i] = l[j] => i = j
  /\ Len(l) <= LruCapacity
  /\ nd \in [{l[i] : i \in 1..Len(l)} -> LruPairs]

Maps(l, nd, mp) ==
  /\ DOMAIN mp = {nd[l[i]].key : i \in 1..Len(l)}
  /\ \A i \in 1..Len(l) : mp[nd[l[i]].key] = l[i]

LEMMA LruInvIs == LruInv <=> Nodes(list, node) /\ Maps(list, node, map)
<1>1. ASSUME list \in Seq(Nat)
      PROVE  DOMAIN list = 1..Len(list) /\ Lru!ToSet(list) = {list[i] : i \in 1..Len(list)}
  BY <1>1 DEF Lru!ToSet
<1>2. ASSUME list \in Seq(Nat), node \in [{list[i] : i \in 1..Len(list)} -> LruPairs]
      PROVE  /\ {node[n].key : n \in DOMAIN node} = {node[list[i]].key : i \in 1..Len(list)}
             /\ (\A n \in DOMAIN node : map[node[n].key] = n)
                  <=> \A i \in 1..Len(list) : map[node[list[i]].key] = list[i]
  <2>1. DOMAIN node = {list[i] : i \in 1..Len(list)}
    BY <1>2
  <2>2. \A i \in 1..Len(list) : list[i] \in DOMAIN node
    BY <2>1
  <2>3. \A n \in DOMAIN node : \E i \in 1..Len(list) : n = list[i]
    BY <2>1
  <2>4. \A x : x \in {node[n].key : n \in DOMAIN node}
                 <=> x \in {node[list[i]].key : i \in 1..Len(list)}
    <3>1. ASSUME NEW x \in {node[n].key : n \in DOMAIN node}
          PROVE  x \in {node[list[i]].key : i \in 1..Len(list)}
      <4>1. PICK n \in DOMAIN node : x = node[n].key
        BY <3>1
      <4>2. PICK i \in 1..Len(list) : n = list[i]
        BY <2>3
      <4> QED  BY <4>1, <4>2
    <3>2. ASSUME NEW i \in 1..Len(list)
          PROVE  node[list[i]].key \in {node[n].key : n \in DOMAIN node}
      BY <2>2
    <3> QED  BY <3>1, <3>2
  <2>5. (\A n \in DOMAIN node : map[node[n].key] = n)
          <=> \A i \in 1..Len(list) : map[node[list[i]].key] = list[i]
    BY <2>2, <2>3
  <2> QED  BY <2>4, <2>5
<1>3. Lru!IsInjective(list) <=> \A i, j \in DOMAIN list : list[i] = list[j] => i = j
  BY DEF Lru!IsInjective
<1> QED  BY <1>1, <1>2, <1>3 DEF LruInv, Nodes, Maps, Lru!TypeOK, LruPairs

\* The cache as the abstract specification sees it.
Pairs(l, nd) == [i \in 1..Len(l) |-> nd[l[i]]]

LEMMA PairsAre ==
  ASSUME NEW l, NEW nd, Nodes(l, nd)
  PROVE  /\ Pairs(l, nd) \in Seq(LruPairs)
         /\ Len(Pairs(l, nd)) = Len(l)
         /\ DOMAIN Pairs(l, nd) = 1..Len(l) /\ DOMAIN l = 1..Len(l)
         /\ \A i \in 1..Len(l) : Pairs(l, nd)[i] = nd[l[i]] /\ nd[l[i]] \in LruPairs
<1>1. Len(l) \in Nat /\ DOMAIN l = 1..Len(l)
  BY DEF Nodes
<1>2. \A i \in 1..Len(l) : nd[l[i]] \in LruPairs
  BY DEF Nodes
<1> QED  BY <1>1, <1>2 DEF Pairs

(***************************************************************************)
(* A node spliced to the front: the list keeps its nodes, and the pairs    *)
(* move with them.                                                         *)
(***************************************************************************)
LEMMA SpliceKeeps ==
  ASSUME NEW l, NEW nd, Nodes(l, nd), NEW i \in 1..Len(l)
  PROVE  LET l2 == Moved(l, i, l[i])
         IN  /\ Nodes(l2, nd)
             /\ \A mp : Maps(l, nd, mp) => Maps(l2, nd, mp)
             /\ Pairs(l2, nd) = Moved(Pairs(l, nd), i, nd[l[i]])
<1>1. PICK n \in Nat : n = Len(l) /\ l \in Seq(Nat) /\ i \in 1..n
  BY DEF Nodes
<1>2. PICK l2 \in Seq(Nat) :
        /\ l2 = Moved(l, i, l[i]) /\ Len(l2) = n
        /\ \A j \in 1..n : l2[j] = IF j = 1 THEN l[i] ELSE IF j <= i THEN l[j - 1] ELSE l[j]
  <2>1. l[i] \in Nat
    BY <1>1
  <2> QED  BY <2>1, <1>1, MovedIs
\* l2 is a permutation of l.
<1>3. ASSUME NEW j \in 1..n
      PROVE  \E k \in 1..n : l2[j] = l[k] /\ k = IF j = 1 THEN i ELSE IF j <= i THEN j - 1 ELSE j
  <2>1. (IF j = 1 THEN i ELSE IF j <= i THEN j - 1 ELSE j) \in 1..n
    BY <1>1
  <2> QED  BY <2>1, <1>2
<1>4. ASSUME NEW k \in 1..n
      PROVE  \E j \in 1..n : l2[j] = l[k]
  <2>1. CASE k = i
    <3>1. 1 \in 1..n
      BY <1>1
    <3> QED  BY <3>1, <2>1, <1>2
  <2>2. CASE k < i
    <3>1. k + 1 \in 1..n /\ k + 1 # 1 /\ k + 1 <= i /\ (k + 1) - 1 = k
      BY <2>2, <1>1
    <3> QED  BY <3>1, <1>2
  <2>3. CASE k > i
    <3>1. k # 1 /\ ~(k <= i)
      BY <2>3, <1>1
    <3> QED  BY <3>1, <1>2
  <2> QED  BY <2>1, <2>2, <2>3, <1>1
<1>5. \A j, k \in 1..n : l2[j] = l2[k] => j = k
  <2> SUFFICES ASSUME NEW j \in 1..n, NEW k \in 1..n, l2[j] = l2[k]  PROVE j = k
    OBVIOUS
  <2>1. PICK a \in 1..n : l2[j] = l[a] /\ a = IF j = 1 THEN i ELSE IF j <= i THEN j - 1 ELSE j
    BY <1>3
  <2>2. PICK b \in 1..n : l2[k] = l[b] /\ b = IF k = 1 THEN i ELSE IF k <= i THEN k - 1 ELSE k
    BY <1>3
  <2>3. a = b
    BY <2>1, <2>2, <1>1 DEF Nodes
  <2> QED  BY <2>1, <2>2, <2>3, <1>1
<1>6. {l2[j] : j \in 1..n} = {l[j] : j \in 1..n}
  <2>1. \A j \in 1..n : l2[j] \in {l[k] : k \in 1..n}
    BY <1>3
  <2>2. \A k \in 1..n : l[k] \in {l2[j] : j \in 1..n}
    BY <1>4
  <2> QED  BY <2>1, <2>2
<1>7. Nodes(l2, nd)
  BY <1>1, <1>2, <1>5, <1>6 DEF Nodes
<1>8. ASSUME NEW mp, Maps(l, nd, mp)  PROVE Maps(l2, nd, mp)
  <2>1. {nd[l2[j]].key : j \in 1..n} = {nd[l[j]].key : j \in 1..n}
    <3>1. \A j \in 1..n : nd[l2[j]].key \in {nd[l[k]].key : k \in 1..n}
      BY <1>3
    <3>2. \A k \in 1..n : nd[l[k]].key \in {nd[l2[j]].key : j \in 1..n}
      BY <1>4
    <3> QED  BY <3>1, <3>2
  <2>2. \A j \in 1..n : mp[nd[l2[j]].key] = l2[j]
    <3>1. \A k \in 1..n : mp[nd[l[k]].key] = l[k]
      BY <1>1, <1>8 DEF Maps
    <3> TAKE j \in 1..n
    <3>2. PICK k \in 1..n : l2[j] = l[k]
      BY <1>3
    <3> QED  BY <3>1, <3>2
  <2> QED  BY <2>1, <2>2, <1>1, <1>2, <1>8 DEF Maps
<1>9. Pairs(l2, nd) = Moved(Pairs(l, nd), i, nd[l[i]])
  <2>1. PICK p \in Seq(LruPairs) : /\ p = Pairs(l, nd) /\ Len(p) = n
                                  /\ \A j \in 1..n : p[j] = nd[l[j]]
    BY <1>1, PairsAre
  <2>2. PICK x \in LruPairs : x = nd[l[i]]
    BY <1>1, PairsAre
  <2>3. PICK m \in Seq(LruPairs) :
          /\ m = Moved(p, i, x) /\ Len(m) = n
          /\ \A j \in 1..n : m[j] = IF j = 1 THEN x ELSE IF j <= i THEN p[j - 1] ELSE p[j]
    <3>1. i \in 1..Len(p) /\ Len(p) = n
      BY <1>1, <2>1
    <3>2. /\ Moved(p, i, x) \in Seq(LruPairs) /\ Len(Moved(p, i, x)) = Len(p)
          /\ \A j \in 1..Len(p) :
               Moved(p, i, x)[j] = IF j = 1 THEN x ELSE IF j <= i THEN p[j - 1] ELSE p[j]
      BY <3>1, MovedIs
    <3> QED  BY <3>1, <3>2
  <2>4. \A j \in 1..n : m[j] = nd[l2[j]]
    <3> TAKE j \in 1..n
    <3>1. CASE j = 1
      BY <3>1, <2>2, <2>3, <1>2
    <3>2. CASE j # 1 /\ j <= i
      <4>1. j - 1 \in 1..n
        BY <3>2
      <4> QED  BY <4>1, <3>2, <2>1, <2>3, <1>2
    <3>3. CASE j # 1 /\ ~(j <= i)
      BY <3>3, <2>1, <2>3, <1>2
    <3> QED  BY <3>1, <3>2, <3>3
  <2>5. m = [j \in 1..n |-> nd[l2[j]]]
    BY <2>3, <2>4
  <2> QED  BY <2>1, <2>2, <2>3, <2>5, <1>2 DEF Pairs
<1> QED  BY <1>2, <1>7, <1>8, <1>9

\* The element that moves is not read.
LEMMA MovedSkips ==
  ASSUME NEW S, NEW s \in Seq(S), NEW t \in Seq(S), NEW x \in S, NEW i \in 1..Len(s),
         Len(t) = Len(s), \A j \in 1..Len(s) : j # i => t[j] = s[j]
  PROVE  Moved(t, i, x) = Moved(s, i, x)
<1>1. PICK n \in Nat : n = Len(s) /\ n = Len(t) /\ i \in 1..n
  OBVIOUS
<1>2. PICK a \in Seq(S) :
        /\ a = Moved(s, i, x) /\ Len(a) = n
        /\ \A j \in 1..n : a[j] = IF j = 1 THEN x ELSE IF j <= i THEN s[j - 1] ELSE s[j]
  BY <1>1, MovedIs
<1>3. PICK b \in Seq(S) :
        /\ b = Moved(t, i, x) /\ Len(b) = n
        /\ \A j \in 1..n : b[j] = IF j = 1 THEN x ELSE IF j <= i THEN t[j - 1] ELSE t[j]
  BY <1>1, MovedIs
<1>4. ASSUME NEW j \in 1..n  PROVE a[j] = b[j]
  <2>1. CASE j = 1
    BY <2>1, <1>2, <1>3
  <2>2. CASE j # 1 /\ j <= i
    <3>1. j - 1 \in 1..n /\ j - 1 # i
      BY <2>2, <1>1
    <3> QED  BY <3>1, <2>2, <1>1, <1>2, <1>3
  <2>3. CASE j # 1 /\ ~(j <= i)
    BY <2>3, <1>1, <1>2, <1>3
  <2> QED  BY <2>1, <2>2, <2>3
<1> QED  BY <1>2, <1>3, <1>4

--------------------------------------------------------------------------------
\* What is left of the cache when there is room for a node: the nodes of l and
\* the keys left, before node and map are cut down to them.
Room(l, nd, mp, left) ==
  /\ l \in Seq(Nat) /\ Len(l) < LruCapacity
  /\ \A i, j \in 1..Len(l) : l[i] = l[j] => i = j
  /\ \A i \in 1..Len(l) : nd[l[i]] \in LruPairs
  /\ left = {nd[l[i]].key : i \in 1..Len(l)}
  /\ \A i \in 1..Len(l) : mp[nd[l[i]].key] = l[i]

\* One of Len(l) + 1 names is not in use.
LEMMA AFreshName ==
  ASSUME NEW l \in Seq(Nat)
  PROVE  \E m \in 1..Len(l) + 1 : \A i \in 1..Len(l) : l[i] # m
<1>1. PICK n \in Nat : n = Len(l)
  OBVIOUS
<1> SUFFICES ASSUME \A m \in 1..n + 1 : \E i \in 1..n : l[i] = m  PROVE FALSE
  BY <1>1
<1>2. PICK f \in [1..n + 1 -> 1..n] : \A m \in 1..n + 1 : l[f[m]] = m
  <2> DEFINE g == [m \in 1..n + 1 |-> CHOOSE i \in 1..n : l[i] = m]
  <2>1. \A m \in 1..n + 1 : g[m] \in 1..n /\ l[g[m]] = m
    OBVIOUS
  <2> QED  BY <2>1
<1>3. PICK D, E : /\ D = 1..n + 1 /\ IsFiniteSet(D) /\ Cardinality(D) = n + 1
                  /\ E = 1..n /\ IsFiniteSet(E) /\ Cardinality(E) = n
  <2>1. 1 \in Int /\ n \in Int /\ n + 1 \in Int
    OBVIOUS
  <2>2. /\ IsFiniteSet(1..n + 1)
        /\ Cardinality(1..n + 1) = IF 1 > n + 1 THEN 0 ELSE n + 1 - 1 + 1
    BY <2>1, FS_Interval
  <2>3. /\ IsFiniteSet(1..n)
        /\ Cardinality(1..n) = IF 1 > n THEN 0 ELSE n - 1 + 1
    BY <2>1, FS_Interval
  <2> QED  BY <2>2, <2>3
<1>4. f \in Injection(D, E)
  <2>1. f \in [D -> E]
    BY <1>2, <1>3
  <2>2. \A x, y \in D : f[x] = f[y] => x = y
    BY <1>2, <1>3
  <2> QED  BY <2>1, <2>2 DEF Injection, IsInjective
<1>5. Cardinality(D) <= Cardinality(E)
  BY <1>3, <1>4, FS_Injection
<1> QED  BY <1>3, <1>5

\* What Inserted does with the fresh name n.
Linked(l, n) == <<n>> \o l

IsLinked(c, S, l, n) ==
  /\ c \in Seq(S)
  /\ Len(c) = Len(l) + 1
  /\ c[1] = n
  /\ \A i \in 1..Len(l) : c[i + 1] = l[i]
  /\ \A j \in 1..Len(l) + 1 : j # 1 => c[j] = l[j - 1] /\ j - 1 \in 1..Len(l)

LEMMA LinkedIs ==
  ASSUME NEW S, NEW l \in Seq(S), NEW n \in S
  PROVE  IsLinked(Linked(l, n), S, l, n)
<1>1. <<n>> \in Seq(S) /\ Len(<<n>>) = 1 /\ <<n>>[1] = n
  OBVIOUS
<1>2. PICK c \in Seq(S) :
        /\ c = <<n>> \o l /\ Len(c) = Len(<<n>>) + Len(l)
        /\ \A j \in 1..Len(<<n>>) + Len(l) :
             c[j] = IF j <= Len(<<n>>) THEN <<n>>[j] ELSE l[j - Len(<<n>>)]
  <2>1. /\ <<n>> \o l \in Seq(S) /\ Len(<<n>> \o l) = Len(<<n>>) + Len(l)
        /\ \A j \in 1..Len(<<n>>) + Len(l) :
             (<<n>> \o l)[j] = IF j <= Len(<<n>>) THEN <<n>>[j] ELSE l[j - Len(<<n>>)]
    BY <1>1, ConcatProperties
  <2> QED  BY <2>1
<1>3. /\ Len(c) = Len(l) + 1
      /\ \A j \in 1..Len(l) + 1 : c[j] = IF j <= 1 THEN n ELSE l[j - 1]
  <2>1. \A j \in 1..1 + Len(l) : c[j] = IF j <= 1 THEN <<n>>[j] ELSE l[j - 1]
    BY <1>1, <1>2
  <2> QED  BY <1>1, <1>2, <2>1
<1>4. c[1] = n
  BY <1>3
<1>5. \A i \in 1..Len(l) : c[i + 1] = l[i]
  BY <1>3
<1>6. \A j \in 1..Len(l) + 1 : j # 1 => c[j] = l[j - 1] /\ j - 1 \in 1..Len(l)
  BY <1>3
<1> QED  BY <1>2, <1>3, <1>4, <1>5, <1>6 DEF Linked, IsLinked

\* node and map after Inserted.
NewNode(l2, nd, n, pair) == [m \in {l2[i] : i \in 1..Len(l2)} |-> IF m = n THEN pair ELSE nd[m]]
NewMap(left, mp, n, key) == [k \in left \cup {key} |-> IF k = key THEN n ELSE mp[k]]

(***************************************************************************)
(* A pair of a new key put in front of what is left: list, node and map    *)
(* agree again, and the cache has that pair before those it had.           *)
(***************************************************************************)
LEMMA InsertKeeps ==
  ASSUME NEW l, NEW nd, NEW mp, NEW left, Room(l, nd, mp, left),
         NEW pair \in LruPairs, pair.key \notin left,
         NEW n \in Nat, \A i \in 1..Len(l) : l[i] # n
  PROVE  /\ Nodes(Linked(l, n), NewNode(Linked(l, n), nd, n, pair))
         /\ Maps(Linked(l, n), NewNode(Linked(l, n), nd, n, pair),
                 NewMap(left, mp, n, pair.key))
         /\ Pairs(Linked(l, n), NewNode(Linked(l, n), nd, n, pair))
              = Linked(Pairs(l, nd), pair)
<1>1. PICK c \in Nat : c = Len(l) /\ l \in Seq(Nat) /\ c < LruCapacity
  BY DEF Room
<1>2. PICK l2 \in Seq(Nat) :
        /\ l2 = Linked(l, n) /\ Len(l2) = c + 1
        /\ l2[1] = n
        /\ \A i \in 1..c : l2[i + 1] = l[i]
        /\ \A j \in 1..c + 1 : j # 1 => l2[j] = l[j - 1] /\ j - 1 \in 1..c
  <2>1. IsLinked(Linked(l, n), Nat, l, n)
    BY <1>1, LinkedIs
  <2> QED  BY <1>1, <2>1 DEF IsLinked
<1>3. PICK nd2 : nd2 = NewNode(l2, nd, n, pair)
  OBVIOUS
<1>4. nd2 = [m \in {l2[i] : i \in 1..c + 1} |-> IF m = n THEN pair ELSE nd[m]]
  BY <1>2, <1>3 DEF NewNode
<1>5. nd2[l2[1]] = pair /\ 1 \in 1..c + 1
  <2>1. 1 \in 1..c + 1
    BY <1>1
  <2>2. l2[1] \in {l2[i] : i \in 1..c + 1}
    BY <2>1
  <2> QED  BY <2>1, <2>2, <1>2, <1>4
<1>6. \A i \in 1..c : nd2[l[i]] = nd[l[i]]
  <2> TAKE i \in 1..c
  <2>1. i + 1 \in 1..c + 1 /\ l2[i + 1] = l[i]
    BY <1>1, <1>2
  <2>2. l[i] \in {l2[j] : j \in 1..c + 1}
    BY <2>1
  <2>3. l[i] # n
    BY <1>1
  <2> QED  BY <2>2, <2>3, <1>4
<1>7. \A j \in 1..c + 1 : j # 1 => nd2[l2[j]] = nd[l[j - 1]]
  BY <1>2, <1>6
<1>8. Nodes(l2, nd2)
  <2>1. \A i, j \in 1..c + 1 : l2[i] = l2[j] => i = j
    <3> SUFFICES ASSUME NEW i \in 1..c + 1, NEW j \in 1..c + 1, l2[i] = l2[j]  PROVE i = j
      OBVIOUS
    <3>1. CASE i = 1 /\ j = 1
      BY <3>1
    <3>2. CASE i = 1 /\ j # 1
      BY <3>2, <1>1, <1>2
    <3>3. CASE i # 1 /\ j = 1
      BY <3>3, <1>1, <1>2
    <3>4. CASE i # 1 /\ j # 1
      <4>1. i - 1 \in 1..c /\ j - 1 \in 1..c /\ l[i - 1] = l[j - 1]
        BY <3>4, <1>2
      <4>2. i - 1 = j - 1
        BY <4>1, <1>1 DEF Room
      <4> QED  BY <4>2
    <3> QED  BY <3>1, <3>2, <3>3, <3>4
  <2>2. \A j \in 1..c + 1 : nd2[l2[j]] \in LruPairs
    BY <1>1, <1>2, <1>5, <1>7 DEF Room
  <2>3. nd2 \in [{l2[i] : i \in 1..c + 1} -> LruPairs]
    <3>1. \A m \in {l2[i] : i \in 1..c + 1} : nd2[m] \in LruPairs
      BY <2>2
    <3> QED  BY <3>1, <1>4
  <2>4. LruCapacity \in Nat
    BY ContainersAssumption DEF Lru!LruAssumption
  <2>5. Len(l2) <= LruCapacity
    BY <1>1, <1>2, <2>4
  <2> QED  BY <1>2, <2>1, <2>3, <2>5 DEF Nodes
<1>9. Maps(l2, nd2, NewMap(left, mp, n, pair.key))
  <2>1. left = {nd[l[i]].key : i \in 1..c} /\ \A i \in 1..c : mp[nd[l[i]].key] = l[i]
    BY <1>1 DEF Room
  <2>2. PICK mp2 : /\ mp2 = NewMap(left, mp, n, pair.key)
                   /\ DOMAIN mp2 = left \cup {pair.key}
                   /\ mp2[pair.key] = n
                   /\ \A k \in left : mp2[k] = mp[k]
    <3>1. /\ DOMAIN NewMap(left, mp, n, pair.key) = left \cup {pair.key}
          /\ NewMap(left, mp, n, pair.key)[pair.key] = n
          /\ \A k \in left : NewMap(left, mp, n, pair.key)[k] = mp[k]
      BY DEF NewMap
    <3> QED  BY <3>1
  <2>3. \A j \in 1..c + 1 : j # 1 => /\ nd2[l2[j]].key \in left
                                     /\ mp2[nd2[l2[j]].key] = l2[j]
    <3> SUFFICES ASSUME NEW j \in 1..c + 1, j # 1
                 PROVE  nd2[l2[j]].key \in left /\ mp2[nd2[l2[j]].key] = l2[j]
      OBVIOUS
    <3>1. PICK i \in 1..c : l2[j] = l[i] /\ nd2[l2[j]] = nd[l[i]]
      BY <1>2, <1>7
    <3>2. nd[l[i]].key \in left /\ mp[nd[l[i]].key] = l[i]
      BY <2>1
    <3> QED  BY <3>1, <3>2, <2>2
  <2>4. left \cup {pair.key} = {nd2[l2[j]].key : j \in 1..c + 1}
    <3>1. \A j \in 1..c + 1 : nd2[l2[j]].key \in left \cup {pair.key}
      BY <2>3, <1>5
    <3>2. pair.key \in {nd2[l2[j]].key : j \in 1..c + 1}
      BY <1>5
    <3>3. ASSUME NEW k \in left  PROVE k \in {nd2[l2[j]].key : j \in 1..c + 1}
      <4>1. PICK i \in 1..c : k = nd[l[i]].key
        BY <2>1, <3>3
      <4>2. i + 1 \in 1..c + 1 /\ l2[i + 1] = l[i]
        BY <1>2
      <4>3. nd2[l2[i + 1]].key = k
        BY <4>1, <4>2, <1>6
      <4> QED  BY <4>2, <4>3
    <3> QED  BY <3>1, <3>2, <3>3
  <2>5. \A j \in 1..c + 1 : mp2[nd2[l2[j]].key] = l2[j]
    BY <2>2, <2>3, <1>2, <1>5
  <2> QED  BY <2>2, <2>4, <2>5, <1>2 DEF Maps
<1>10. Pairs(l2, nd2) = Linked(Pairs(l, nd), pair)
  <2>1. PICK p \in Seq(LruPairs) : /\ p = Pairs(l, nd) /\ Len(p) = c
                                   /\ \A i \in 1..c : p[i] = nd[l[i]]
    <3>1. \A i \in 1..c : nd[l[i]] \in LruPairs
      BY <1>1 DEF Room
    <3>2. Pairs(l, nd) = [i \in 1..c |-> nd[l[i]]]
      BY <1>1 DEF Pairs
    <3>3. [i \in 1..c |-> nd[l[i]]] \in Seq(LruPairs) /\ Len([i \in 1..c |-> nd[l[i]]]) = c
      BY <3>1, <1>1
    <3> QED  BY <3>2, <3>3
  <2>2. PICK m \in Seq(LruPairs) :
          /\ m = Linked(p, pair) /\ Len(m) = c + 1
          /\ m[1] = pair
          /\ \A j \in 1..c + 1 : j # 1 => m[j] = p[j - 1] /\ j - 1 \in 1..c
    <3>1. IsLinked(Linked(p, pair), LruPairs, p, pair)
      BY <2>1, LinkedIs
    <3> QED  BY <2>1, <3>1 DEF IsLinked
  <2>3. \A j \in 1..c + 1 : m[j] = nd2[l2[j]]
    <3> SUFFICES ASSUME NEW j \in 1..c + 1  PROVE m[j] = nd2[l2[j]]
      OBVIOUS
    <3>1. CASE j = 1
      BY <3>1, <2>2, <1>5
    <3>2. CASE j # 1
      BY <3>2, <2>1, <2>2, <1>7
    <3> QED  BY <3>1, <3>2
  <2>4. m = [j \in 1..c + 1 |-> nd2[l2[j]]]
    BY <2>2, <2>3
  <2> QED  BY <2>1, <2>2, <2>4, <1>2 DEF Pairs
<1> QED  BY <1>2, <1>3, <1>8, <1>9, <1>10

--------------------------------------------------------------------------------
\* Without its last element.
Shorter(s) == SubSeq(s, 1, Len(s) - 1)

LEMMA ShorterIs ==
  ASSUME NEW S, NEW s \in Seq(S), Len(s) > 0
  PROVE  /\ Shorter(s) \in Seq(S)
         /\ Len(Shorter(s)) = Len(s) - 1
         /\ \A i \in 1..Len(s) - 1 : Shorter(s)[i] = s[i]
<1>1. PICK n \in Nat : n = Len(s) /\ n > 0
  OBVIOUS
<1>2. SubSeq(s, 1, n - 1) \in Seq(S) /\ Len(SubSeq(s, 1, n - 1)) = n - 1
  BY <1>1
<1>3. \A i \in 1..n - 1 : SubSeq(s, 1, n - 1)[i] = s[i]
  BY <1>1
<1> QED  BY <1>1, <1>2, <1>3 DEF Shorter

(***************************************************************************)
(* There is room without the last node and its key, and the cache without  *)
(* them is the cache without its last pair.                                *)
(***************************************************************************)
LEMMA EvictKeeps ==
  ASSUME NEW l, NEW nd, NEW mp, Nodes(l, nd), Maps(l, nd, mp), Len(l) = LruCapacity
  PROVE  /\ Room(Shorter(l), nd, mp, DOMAIN mp \ {nd[l[Len(l)]].key})
         /\ Pairs(Shorter(l), nd) = Shorter(Pairs(l, nd))
<1>0. LruCapacity \in Nat /\ LruCapacity > 0
  BY ContainersAssumption DEF Lru!LruAssumption
<1>1. PICK n \in Nat : n = Len(l) /\ n > 0 /\ n = LruCapacity /\ l \in Seq(Nat)
  BY <1>0 DEF Nodes
<1>2. PICK s \in Seq(Nat) : /\ s = Shorter(l) /\ Len(s) = n - 1
                            /\ \A i \in 1..n - 1 : s[i] = l[i]
  <2>1. /\ Shorter(l) \in Seq(Nat) /\ Len(Shorter(l)) = Len(l) - 1
        /\ \A i \in 1..Len(l) - 1 : Shorter(l)[i] = l[i]
    BY <1>1, ShorterIs
  <2>2. PICK s \in Seq(Nat) : s = Shorter(l)
    BY <2>1
  <2> QED  BY <1>1, <2>1, <2>2
<1>3. \A i \in 1..n - 1 : i \in 1..n /\ i # n
  BY <1>1
<1>4. \A i \in 1..n : nd[l[i]] \in LruPairs /\ mp[nd[l[i]].key] = l[i]
  BY <1>1 DEF Nodes, Maps
<1>5. \A i, j \in 1..n : nd[l[i]].key = nd[l[j]].key => i = j
  <2>1. \A i, j \in 1..n : l[i] = l[j] => i = j
    BY <1>1 DEF Nodes
  <2> QED  BY <2>1, <1>4
<1>6. DOMAIN mp = {nd[l[i]].key : i \in 1..n}
  BY <1>1 DEF Maps
<1>7. DOMAIN mp \ {nd[l[n]].key} = {nd[s[i]].key : i \in 1..n - 1}
  <2>1. ASSUME NEW i \in 1..n - 1
        PROVE  nd[s[i]].key \in DOMAIN mp \ {nd[l[n]].key}
    <3>1. n \in 1..n
      BY <1>1
    <3> QED  BY <3>1, <1>2, <1>3, <1>5, <1>6
  <2>2. ASSUME NEW k \in DOMAIN mp, k # nd[l[n]].key
        PROVE  k \in {nd[s[i]].key : i \in 1..n - 1}
    <3>1. PICK i \in 1..n : k = nd[l[i]].key
      BY <1>6
    <3>2. i # n
      BY <3>1, <2>2
    <3>3. i \in 1..n - 1
      BY <3>2, <1>1
    <3> QED  BY <3>1, <3>3, <1>2
  <2> QED  BY <2>1, <2>2
<1>8. Room(s, nd, mp, DOMAIN mp \ {nd[l[n]].key})
  <2>1. Len(s) < LruCapacity
    BY <1>1, <1>2
  <2>2. \A i, j \in 1..n - 1 : s[i] = s[j] => i = j
    BY <1>1, <1>2, <1>3 DEF Nodes
  <2>3. \A i \in 1..n - 1 : nd[s[i]] \in LruPairs /\ mp[nd[s[i]].key] = s[i]
    BY <1>2, <1>3, <1>4
  <2> QED  BY <2>1, <2>2, <2>3, <1>2, <1>7 DEF Room
<1>9. Pairs(s, nd) = Shorter(Pairs(l, nd))
  <2>1. PICK p \in Seq(LruPairs) : /\ p = Pairs(l, nd) /\ Len(p) = n
                                   /\ \A i \in 1..n : p[i] = nd[l[i]]
    <3>1. /\ Pairs(l, nd) \in Seq(LruPairs) /\ Len(Pairs(l, nd)) = n
          /\ \A i \in 1..n : Pairs(l, nd)[i] = nd[l[i]]
      BY <1>1, PairsAre
    <3> QED  BY <3>1
  <2>2. PICK m \in Seq(LruPairs) : /\ m = Shorter(p) /\ Len(m) = n - 1
                                   /\ \A i \in 1..n - 1 : m[i] = p[i]
    <3>1. /\ Shorter(p) \in Seq(LruPairs) /\ Len(Shorter(p)) = Len(p) - 1
          /\ \A i \in 1..Len(p) - 1 : Shorter(p)[i] = p[i]
      BY <1>1, <2>1, ShorterIs
    <3> QED  BY <2>1, <3>1
  <2>3. \A i \in 1..n - 1 : m[i] = nd[s[i]]
    BY <2>1, <2>2, <1>2, <1>3
  <2>4. m = [i \in 1..n - 1 |-> nd[s[i]]]
    <3>1. m = [i \in 1..Len(m) |-> m[i]]
      BY <2>2
    <3> QED  BY <3>1, <2>2, <2>3
  <2> QED  BY <2>1, <2>2, <2>4, <1>2 DEF Pairs
<1> QED  BY <1>1, <1>2, <1>8, <1>9

--------------------------------------------------------------------------------
LEMMA LruInvNext == LruInv' <=> Nodes(list', node') /\ Maps(list', node', map')
<1>1. (LruInv <=> Nodes(list, node) /\ Maps(list, node, map))'
  BY LruInvIs, PTL
<1> QED  BY <1>1

\* What the abstract specification reads.
LEMMA RecentIs ==
  ASSUME NEW l, NEW nd, Nodes(l, nd)
  PROVE  [i \in DOMAIN l |-> nd[l[i]]] = Pairs(l, nd)
BY PairsAre DEF Pairs

\* A key of the map is that of one node of the list.
LEMMA KeyIsSomewhere ==
  ASSUME NEW l, NEW nd, NEW mp, Nodes(l, nd), Maps(l, nd, mp), NEW key \in DOMAIN mp
  PROVE  \E i \in 1..Len(l) : nd[l[i]].key = key /\ mp[key] = l[i]
BY DEF Maps

LEMMA ToFrontIs ==
  ASSUME Nodes(list, node), NEW i \in 1..Len(list), Lru!ToFront(list[i])
  PROVE  list' = Moved(list, i, list[i])
<1>1. list \in Seq(Nat) /\ DOMAIN list = 1..Len(list)
  BY DEF Nodes
<1>2. PICK j \in DOMAIN list : list[j] = list[i] /\ list' = <<list[i]>> \o Lru!RemoveAt(list, j)
  BY DEF Lru!ToFront
<1>3. j = i
  BY <1>1, <1>2 DEF Nodes
<1> QED  BY <1>2, <1>3 DEF Moved, Lru!RemoveAt

\* The abstract step of a pair that moves to the front, its value new or not.
LEMMA MovedIsLatest ==
  ASSUME NEW i \in 1..Len(list), NEW pair, Nodes(list, node), Nodes(list', node'),
         pair.key = node[list[i]].key,
         Pairs(list', node') = Moved(Pairs(list, node), i, pair)
  PROVE  Lru!Recency!Latest(pair)
<1>1. /\ [k \in DOMAIN list |-> node[list[k]]] = Pairs(list, node)
      /\ [k \in DOMAIN list' |-> node'[list'[k]]] = Pairs(list', node')
  BY RecentIs
<1>2. i \in DOMAIN Pairs(list, node) /\ Pairs(list, node)[i].key = pair.key
  BY PairsAre
<1> QED  BY <1>1, <1>2 DEF Moved, Lru!Recency!Latest, Lru!Recency!RemoveAt

LEMMA GetStep ==
  ASSUME LruInv, NEW key \in LruKeys, Lru!get(key)
  PROVE  LruInv' /\ Lru!Recency!Next
<1>1. Nodes(list, node) /\ Maps(list, node, map)
  BY LruInvIs
<1>2. node' = node /\ map' = map
  BY DEF Lru!get
<1>3. CASE key \in DOMAIN map
  <2>1. PICK i \in 1..Len(list) : node[list[i]].key = key /\ map[key] = list[i]
    BY <1>1, <1>3, KeyIsSomewhere
  <2>2. found' = node[list[i]].value /\ Lru!ToFront(list[i])
    BY <1>3, <2>1 DEF Lru!get
  <2>3. list' = Moved(list, i, list[i])
    BY <1>1, <2>2, ToFrontIs
  <2>4. /\ Nodes(list', node') /\ Maps(list', node', map')
        /\ Pairs(list', node') = Moved(Pairs(list, node), i, node[list[i]])
    BY <1>1, <1>2, <2>3, SpliceKeeps
  <2>5. LruInv'
    BY <2>4, LruInvNext
  <2>6. PICK pair : pair = node[list[i]]
    OBVIOUS
  <2>7. Lru!Recency!Latest(pair)
    <3>1. pair.key = node[list[i]].key
      BY <2>6
    <3>2. Pairs(list', node') = Moved(Pairs(list, node), i, pair)
      BY <2>4, <2>6
    <3> QED  BY <3>1, <3>2, <1>1, <2>4, MovedIsLatest
  <2>9. Lru!Recency!Hit(i)
    <3>1. [k \in DOMAIN list |-> node[list[k]]][i] = pair
      BY <1>1, <2>6, PairsAre
    <3>2. found' = pair.value
      BY <2>2, <2>6
    <3> QED  BY <2>7, <3>1, <3>2, Zenon DEF Lru!Recency!Hit, Lru!Recency!Latest
  <2>8. i \in DOMAIN [k \in DOMAIN list |-> node[list[k]]]
    BY <1>1, PairsAre
  <2> QED  BY <2>5, <2>8, <2>9 DEF Lru!Recency!Next
<1>4. CASE key \notin DOMAIN map
  <2>1. found' = Absent /\ list' = list
    BY <1>4 DEF Lru!get
  <2>2. LruInv'
    BY <1>1, <1>2, <2>1, LruInvNext
  <2>3. \A i \in 1..Len(list) : node[list[i]].key # key
    BY <1>1, <1>4 DEF Maps
  <2>4. Lru!Recency!Miss(key)
    <3>1. \A i \in DOMAIN [k \in DOMAIN list |-> node[list[k]]] :
            [k \in DOMAIN list |-> node[list[k]]][i].key # key
      BY <1>1, <2>3, PairsAre
    <3> QED  BY <1>2, <2>1, <3>1 DEF Lru!Recency!Miss
  <2> QED  BY <2>2, <2>4 DEF Lru!Recency!Next
<1> QED  BY <1>3, <1>4

LEMMA UpdateStep ==
  ASSUME LruInv, NEW key \in LruKeys, NEW value \in LruValues, Lru!update(key, value)
  PROVE  LruInv' /\ Lru!Recency!Next
<1>1. Nodes(list, node) /\ Maps(list, node, map)
  BY LruInvIs
<1>2. PICK i \in 1..Len(list) : node[list[i]].key = key /\ map[key] = list[i]
  BY <1>1, KeyIsSomewhere DEF Lru!update
<1>3. PICK n \in Nat : n = Len(list) /\ list \in Seq(Nat) /\ i \in 1..n
  BY <1>1 DEF Nodes
<1>4. /\ node' = [node EXCEPT ![list[i]].value = value]
      /\ Lru!ToFront(list[i]) /\ map' = map /\ found' = found
  BY <1>2 DEF Lru!update
<1>5. list' = Moved(list, i, list[i])
  BY <1>1, <1>4, ToFrontIs
<1>6. PICK pair \in LruPairs : pair = [key |-> key, value |-> value]
  BY DEF LruPairs
<1>7. /\ node' \in [{list[j] : j \in 1..n} -> LruPairs]
      /\ node'[list[i]] = pair
      /\ \A j \in 1..n : j # i => node'[list[j]] = node[list[j]]
      /\ \A j \in 1..n : node'[list[j]].key = node[list[j]].key
  <2>1. /\ node \in [{list[j] : j \in 1..n} -> LruPairs]
        /\ list[i] \in {list[j] : j \in 1..n}
    BY <1>1, <1>3 DEF Nodes
  <2>2. [node[list[i]] EXCEPT !.value = value] = pair
    <3>1. node[list[i]] \in LruPairs
      BY <2>1
    <3> QED  BY <3>1, <1>2, <1>6 DEF LruPairs
  <2>3. node' = [node EXCEPT ![list[i]] = pair]
    BY <1>4, <2>2
  <2>4. node' \in [{list[j] : j \in 1..n} -> LruPairs] /\ node'[list[i]] = pair
    BY <2>1, <2>3
  <2>5. \A j \in 1..n : j # i => list[j] # list[i]
    BY <1>1, <1>3 DEF Nodes
  <2>6. \A j \in 1..n : j # i => node'[list[j]] = node[list[j]]
    BY <2>1, <2>3, <2>5
  <2>7. \A j \in 1..n : node'[list[j]].key = node[list[j]].key
    BY <1>2, <1>6, <2>4, <2>6
  <2> QED  BY <2>4, <2>6, <2>7
<1>8. Nodes(list, node')
  BY <1>1, <1>3, <1>7 DEF Nodes
<1>9. Maps(list, node', map')
  <2>1. {node'[list[j]].key : j \in 1..n} = {node[list[j]].key : j \in 1..n}
    BY <1>7
  <2> QED  BY <2>1, <1>1, <1>3, <1>4, <1>7 DEF Maps
<1>10. /\ Nodes(list', node') /\ Maps(list', node', map')
       /\ Pairs(list', node') = Moved(Pairs(list, node'), i, pair)
  BY <1>5, <1>7, <1>8, <1>9, SpliceKeeps
<1>11. Moved(Pairs(list, node'), i, pair) = Moved(Pairs(list, node), i, pair)
  <2>1. PICK p \in Seq(LruPairs) : /\ p = Pairs(list, node) /\ Len(p) = n
                                   /\ \A j \in 1..n : p[j] = node[list[j]]
    BY <1>1, <1>3, PairsAre
  <2>2. PICK m \in Seq(LruPairs) : /\ m = Pairs(list, node') /\ Len(m) = n
                                   /\ \A j \in 1..n : m[j] = node'[list[j]]
    BY <1>8, <1>3, PairsAre
  <2>3. \A j \in 1..n : j # i => m[j] = p[j]
    BY <2>1, <2>2, <1>7
  <2> QED  BY <2>1, <2>2, <2>3, <1>3, MovedSkips
<1>12. Lru!Recency!Latest(pair)
  <2>1. pair.key = node[list[i]].key
    BY <1>2, <1>6
  <2> QED  BY <2>1, <1>1, <1>10, <1>11, MovedIsLatest
<1>13. Lru!Recency!Put(key, value)
  BY <1>4, <1>6, <1>12 DEF Lru!Recency!Put
<1>14. LruInv'
  BY <1>10, LruInvNext
<1> QED  BY <1>13, <1>14 DEF Lru!Recency!Next

LEMMA InsertStep ==
  ASSUME LruInv, NEW key \in LruKeys, NEW value \in LruValues, Lru!insert(key, value)
  PROVE  LruInv' /\ Lru!Recency!Next
<1>1. Nodes(list, node) /\ Maps(list, node, map)
  BY LruInvIs
<1>2. LruCapacity \in Nat /\ LruCapacity > 0
  BY ContainersAssumption DEF Lru!LruAssumption
<1>3. PICK pair \in LruPairs : pair = [key |-> key, value |-> value] /\ pair.key = key
  <2>1. [key |-> key, value |-> value] \in LruPairs
    BY DEF LruPairs
  <2> QED  BY <2>1
<1>4. key \notin DOMAIN map /\ found' = found
  BY DEF Lru!insert
\* What is left, whether or not a node had to go.
<1>5. PICK kept, left :
        /\ Lru!Inserted(kept, left, key, value)
        /\ Room(kept, node, map, left)
        /\ left \subseteq DOMAIN map
        /\ Pairs(kept, node) = IF Len(list) < LruCapacity THEN Pairs(list, node)
                                                          ELSE Shorter(Pairs(list, node))
  <2>1. CASE Len(list) = LruCapacity
    <3>1. /\ Lru!Front(list) = Shorter(list) /\ Lru!Last(list) = list[Len(list)]
          /\ ~(Len(list) < LruCapacity)
      BY <2>1, <1>2 DEF Lru!Front, Lru!Last, Shorter
    <3>2. Lru!Inserted(Shorter(list), DOMAIN map \ {node[list[Len(list)]].key}, key, value)
      BY <2>1, <3>1 DEF Lru!insert
    <3>3. /\ Room(Shorter(list), node, map, DOMAIN map \ {node[list[Len(list)]].key})
          /\ Pairs(Shorter(list), node) = Shorter(Pairs(list, node))
      BY <1>1, <2>1, EvictKeeps
    <3> QED  BY <3>1, <3>2, <3>3
  <2>2. CASE Len(list) # LruCapacity
    <3>1. Len(list) < LruCapacity
      BY <2>2, <1>1, <1>2 DEF Nodes
    <3>2. Lru!Inserted(list, DOMAIN map, key, value)
      BY <2>2 DEF Lru!insert
    <3>3. Room(list, node, map, DOMAIN map)
      <4>1. \A i \in 1..Len(list) : node[list[i]] \in LruPairs
        BY <1>1 DEF Nodes
      <4> QED  BY <1>1, <3>1, <4>1 DEF Nodes, Maps, Room
    <3> QED  BY <3>1, <3>2, <3>3
  <2> QED  BY <2>1, <2>2
<1>6. kept \in Seq(Nat)
  BY <1>5 DEF Room
<1>7. PICK n \in Nat : /\ n = CHOOSE m \in 1..Len(kept) + 1 : m \notin Lru!ToSet(kept)
                       /\ \A i \in 1..Len(kept) : kept[i] # n
  <2>1. DOMAIN kept = 1..Len(kept)
    BY <1>6
  <2>2. \A m : m \notin Lru!ToSet(kept) <=> \A i \in 1..Len(kept) : kept[i] # m
    BY <2>1 DEF Lru!ToSet
  <2>3. \E m \in 1..Len(kept) + 1 : m \notin Lru!ToSet(kept)
    BY <1>6, <2>2, AFreshName
  <2>4. PICK n : n = CHOOSE m \in 1..Len(kept) + 1 : m \notin Lru!ToSet(kept)
    OBVIOUS
  <2>5. n \in 1..Len(kept) + 1 /\ n \notin Lru!ToSet(kept)
    BY <2>3, <2>4
  <2>6. n \in Nat
    BY <2>5, <1>6
  <2> QED  BY <2>2, <2>4, <2>5, <2>6
<1>8. list' = Linked(kept, n)
  BY <1>5, <1>7 DEF Lru!Inserted, Linked
<1>9. Lru!ToSet(list') = {list'[i] : i \in 1..Len(list')}
  <2>1. list' \in Seq(Nat)
    BY <1>6, <1>8, LinkedIs DEF IsLinked
  <2> QED  BY <2>1 DEF Lru!ToSet
<1>10. node' = NewNode(list', node, n, pair)
  BY <1>3, <1>5, <1>7, <1>9 DEF Lru!Inserted, NewNode
<1>11. map' = NewMap(left, map, n, key)
  BY <1>5, <1>7 DEF Lru!Inserted, NewMap
<1>12. /\ Nodes(list', node') /\ Maps(list', node', map')
       /\ Pairs(list', node') = Linked(Pairs(kept, node), pair)
  <2>1. pair.key \notin left
    BY <1>3, <1>4, <1>5
  <2> QED  BY <2>1, <1>3, <1>5, <1>7, <1>8, <1>10, <1>11, InsertKeeps
<1>13. LruInv'
  BY <1>12, LruInvNext
<1>14. /\ [i \in DOMAIN list |-> node[list[i]]] = Pairs(list, node)
       /\ [i \in DOMAIN list' |-> node'[list'[i]]] = Pairs(list', node')
  BY <1>1, <1>12, RecentIs
<1>15. Len(Pairs(list, node)) = Len(list) /\ DOMAIN Pairs(list, node) = 1..Len(list)
  BY <1>1, PairsAre
<1>16. \A i \in DOMAIN Pairs(list, node) : Pairs(list, node)[i].key # pair.key
  <2>1. \A i \in 1..Len(list) : node[list[i]].key # key
    BY <1>1, <1>4 DEF Maps
  <2> QED  BY <2>1, <1>1, <1>3, PairsAre
<1>17. Lru!Recency!Latest(pair)
  <2>1. Pairs(list', node')
          = <<pair>> \o IF Len(Pairs(list, node)) < LruCapacity
                          THEN Pairs(list, node)
                          ELSE Lru!Recency!Front(Pairs(list, node))
    BY <1>5, <1>12, <1>15 DEF Linked, Shorter, Lru!Recency!Front
  <2> QED  BY <2>1, <1>14, <1>16 DEF Lru!Recency!Latest
<1>18. Lru!Recency!Put(key, value)
  BY <1>3, <1>4, <1>17 DEF Lru!Recency!Put
<1> QED  BY <1>13, <1>18 DEF Lru!Recency!Next

--------------------------------------------------------------------------------
LEMMA LruStep ==
  LruInv /\ [Lru!Next]_(Lru!vars) => LruInv' /\ [Lru!Recency!Next]_(Lru!Recency!cacheVars)
<1> SUFFICES ASSUME LruInv, [Lru!Next]_(Lru!vars)
             PROVE  LruInv' /\ [Lru!Recency!Next]_(Lru!Recency!cacheVars)
  OBVIOUS
<1>1. CASE UNCHANGED Lru!vars
  <2>1. UNCHANGED <<list, node, map, found>>
    BY <1>1 DEF Lru!vars
  <2>2. LruInv'
    BY <2>1, LruInvIs, LruInvNext
  <2> QED  BY <2>1, <2>2 DEF Lru!Recency!cacheVars
<1>2. ASSUME NEW key \in LruKeys, Lru!get(key)
      PROVE  LruInv' /\ Lru!Recency!Next
  BY <1>2, GetStep
<1>3. ASSUME NEW key \in LruKeys, NEW value \in LruValues, Lru!put(key, value)
      PROVE  LruInv' /\ Lru!Recency!Next
  BY <1>3, UpdateStep, InsertStep DEF Lru!put
<1> QED  BY <1>1, <1>2, <1>3 DEF Lru!Next

LEMMA LruStart == Lru!Init => LruInv /\ Lru!Recency!Init
<1> SUFFICES ASSUME Lru!Init  PROVE LruInv /\ Lru!Recency!Init
  OBVIOUS
<1>1. list = << >> /\ node = << >> /\ map = << >> /\ found = Absent
  BY DEF Lru!Init
<1>2. Nodes(list, node)
  <2>1. LruCapacity \in Nat
    BY ContainersAssumption DEF Lru!LruAssumption
  <2>2. list \in Seq(Nat) /\ Len(list) = 0 /\ 1..Len(list) = {}
    BY <1>1
  <2>3. node \in [{} -> LruPairs]
    BY <1>1
  <2> QED  BY <2>1, <2>2, <2>3 DEF Nodes
<1>3. Maps(list, node, map)
  BY <1>1 DEF Maps
<1>4. LruInv
  BY <1>2, <1>3, LruInvIs
<1>5. [i \in DOMAIN list |-> node[list[i]]] = << >>
  BY <1>1
<1> QED  BY <1>1, <1>4, <1>5 DEF Lru!Recency!Init

(***************************************************************************)
(* LRUCache: in every state, and for every capacity but 0, the map has the *)
(* keys of the list's nodes and sends each to its own, so no iterator that *)
(* put and get follow dangles.                                             *)
(***************************************************************************)
THEOREM LruInvariance == Lru!Spec => []LruInv
<1>1. LruInv /\ [Lru!Next]_(Lru!vars) => LruInv'
  BY LruStep
<1> QED  BY <1>1, LruStart, PTL DEF Lru!Spec

(***************************************************************************)
(* LRUCache is a least-recently-used cache: get and put answer, move,      *)
(* store and evict as RecencyCache says, whatever the capacity, and        *)
(* whatever node takes the place of an evicted one.                        *)
(***************************************************************************)
THEOREM LruIsRecencyCache == Lru!Spec => ImplementsRecency
<1>1. LruInv /\ [Lru!Next]_(Lru!vars) => [Lru!Recency!Next]_(Lru!Recency!cacheVars)
  BY LruStep
<1> QED
  BY <1>1, LruInvariance, LruStart, PTL
  DEF Lru!Spec, ImplementsRecency, Lru!ImplementsRecency, Lru!Recency!Spec

--------------------------------------------------------------------------------
(***************************************************************************)
(* The graph.                                                              *)
(***************************************************************************)
Vs == G!Vertices

\* Every set of natural numbers but the empty one has a least member.
LEMMA Least ==
  ASSUME NEW T, T \subseteq Nat, T # {}
  PROVE  \E m \in T : \A n \in T : m <= n
<1> DEFINE Less == {ss \in Nat \X Nat : ss[1] < ss[2]}
<1>1. IsWellFoundedOn(Less, Nat)
  BY NatLessThanWellFounded DEF OpToRel
<1>2. \A n, m \in Nat : <<n, m>> \in Less <=> n < m
  OBVIOUS
<1> HIDE DEF Less
<1>3. PICK m \in T : \A n \in T : ~ (<<n, m>> \in Less)
  BY <1>1, WFMin
<1>4. ASSUME NEW n \in T  PROVE m <= n
  <2>1. n \in Nat /\ m \in Nat /\ ~(<<n, m>> \in Less)
    BY <1>3
  <2>2. ~(n < m)
    BY <2>1, <1>2
  <2> QED  BY <2>1, <2>2
<1> QED  BY <1>4

LEMMA VerticesAre == V \in Nat \ {0} /\ NoVertex \notin Vs /\ Vs = 0..V - 1
BY ContainersAssumption DEF G!GraphAssumption, G!Vertices, Vs

GraphTypes ==
  /\ adjList \in [Vs -> Seq(Vs)]
  /\ call \in {"none", "BFS", "DFS", "topologicalSort"}
  /\ start \in Vs \cup {NoVertex}
  /\ visited \subseteq Vs
  /\ q \in Seq(Vs) /\ topoStack \in Seq(Vs) /\ processed \in Seq(Vs) /\ order \in Seq(Vs)
  /\ frames \in Seq([vertex : Vs, seen : Nat])
  /\ \A i \in 1..Len(frames) : frames[i].seen <= Len(adjList[frames[i].vertex])

--------------------------------------------------------------------------------
\* Where the edges lead.
LEMMA EdgeIs ==
  ASSUME adjList \in [Vs -> Seq(Vs)], NEW u \in Vs
  PROVE  /\ Len(adjList[u]) \in Nat
         /\ \A v : G!Edge(u, v) <=> \E m \in 1..Len(adjList[u]) : v = adjList[u][m]
         /\ \A v : G!Edge(u, v) => v \in Vs
         /\ G!ToSet(adjList[u]) \subseteq Vs
<1>1. /\ adjList[u] \in Seq(Vs) /\ Len(adjList[u]) \in Nat
      /\ DOMAIN adjList[u] = 1..Len(adjList[u])
      /\ \A m \in 1..Len(adjList[u]) : adjList[u][m] \in Vs
  BY LenProperties, ElementOfSeq
<1>2. \A v : G!Edge(u, v) <=> \E m \in 1..Len(adjList[u]) : v = adjList[u][m]
  BY <1>1 DEF G!Edge, G!ToSet
<1>3. \A v : G!Edge(u, v) => v \in Vs
  BY <1>1, <1>2
<1>4. G!ToSet(adjList[u]) \subseteq Vs
  BY <1>1 DEF G!ToSet
<1> QED  BY <1>1, <1>2, <1>3, <1>4

LEMMA ReachesItself ==
  ASSUME NEW u \in Vs  PROVE u \in G!Reachable(u)
BY DEF G!Reachable, Vs

LEMMA ReachesOn ==
  ASSUME adjList \in [Vs -> Seq(Vs)], NEW u, NEW v \in G!Reachable(u), NEW w, G!Edge(v, w)
  PROVE  w \in G!Reachable(u)
<1>1. v \in Vs /\ w \in Vs
  BY EdgeIs DEF G!Reachable, Vs
<1>2. ASSUME NEW S \in SUBSET Vs, u \in S, G!Closed(S)  PROVE w \in S
  <2>1. v \in S
    BY <1>2 DEF G!Reachable, Vs
  <2> QED  BY <2>1, <1>2 DEF G!Closed, G!Edge
<1> QED  BY <1>1, <1>2 DEF G!Reachable, Vs

LEMMA ReachesFar ==
  ASSUME NEW u, NEW v \in G!Reachable(u), NEW w \in G!Reachable(v)
  PROVE  w \in G!Reachable(u)
BY DEF G!Reachable

LEMMA ReachesNoMore ==
  ASSUME NEW u, NEW S \in SUBSET Vs, u \in S,
         \A v \in S : \A w : G!Edge(v, w) => w \in S
  PROVE  G!Reachable(u) \subseteq S
BY DEF G!Reachable, G!Closed, G!Edge, Vs

\* A way can be followed on, and has one as long as its first part to each place on it.
LEMMA LeadsNowhere ==
  ASSUME NEW u \in Vs  PROVE G!Leads(u, u, 0)
<1>1. [i \in 0..0 |-> u] \in [0..0 -> G!Vertices]
  BY DEF Vs
<1>2. [i \in 0..0 |-> u][0] = u
  OBVIOUS
<1>3. \A i \in 1..0 : FALSE
  OBVIOUS
<1> QED  BY <1>1, <1>2, <1>3 DEF G!Leads

LEMMA LeadsOn ==
  ASSUME adjList \in [Vs -> Seq(Vs)], NEW u, NEW v, NEW w, NEW n \in Nat,
         G!Leads(u, v, n), G!Edge(v, w), v \in Vs
  PROVE  G!Leads(u, w, n + 1)
<1>1. PICK walk \in [0..n -> Vs] :
        walk[0] = u /\ walk[n] = v /\ \A i \in 1..n : G!Edge(walk[i - 1], walk[i])
  BY DEF G!Leads, Vs
<1>2. w \in Vs
  BY EdgeIs
<1> DEFINE longer == [i \in 0..n + 1 |-> IF i = n + 1 THEN w ELSE walk[i]]
<1>3. longer \in [0..n + 1 -> Vs]
  BY <1>2
<1>4. longer[0] = u /\ longer[n + 1] = w
  BY <1>1
<1>5. ASSUME NEW i \in 1..n + 1  PROVE G!Edge(longer[i - 1], longer[i])
  <2>1. CASE i = n + 1
    BY <2>1, <1>1
  <2>2. CASE i # n + 1
    BY <2>2, <1>1
  <2> QED  BY <2>1, <2>2
<1> HIDE DEF longer
<1> QED  BY <1>3, <1>4, <1>5 DEF G!Leads, Vs

LEMMA LeadsPart ==
  ASSUME NEW n \in Nat, NEW walk \in [0..n -> Vs], NEW l \in 0..n,
         \A i \in 1..n : G!Edge(walk[i - 1], walk[i])
  PROVE  G!Leads(walk[0], walk[l], l)
<1> DEFINE part == [i \in 0..l |-> walk[i]]
<1>1. part \in [0..l -> Vs] /\ part[0] = walk[0] /\ part[l] = walk[l]
  OBVIOUS
<1>2. \A i \in 1..l : G!Edge(part[i - 1], part[i])
  OBVIOUS
<1> HIDE DEF part
<1> QED  BY <1>1, <1>2 DEF G!Leads, Vs

\* A way out of a set crosses its border somewhere.
LEMMA LeadsOut ==
  ASSUME NEW S, NEW u \in S, NEW v, v \notin S, NEW n \in Nat, G!Leads(u, v, n)
  PROVE  \E x : \E l \in 0..n - 1, w \in S :
           G!Leads(u, w, l) /\ G!Edge(w, x) /\ x \notin S
<1>1. PICK walk \in [0..n -> Vs] :
        walk[0] = u /\ walk[n] = v /\ \A i \in 1..n : G!Edge(walk[i - 1], walk[i])
  BY DEF G!Leads, Vs
<1>2. PICK l \in 0..n : walk[l] \notin S /\ \A j \in 0..n : walk[j] \notin S => l <= j
  <2> DEFINE T == {i \in 0..n : walk[i] \notin S}
  <2>1. T \subseteq Nat /\ T # {}
    BY <1>1
  <2>2. PICK l \in T : \A j \in T : l <= j
    BY <2>1, Least
  <2> QED  BY <2>2
<1>3. l \in 1..n /\ l - 1 \in 0..n - 1 /\ l - 1 \in 0..n
  BY <1>1, <1>2
<1>4. walk[l - 1] \in S
  BY <1>2, <1>3
<1>5. G!Leads(u, walk[l - 1], l - 1)
  BY <1>1, <1>3, LeadsPart
<1>6. G!Edge(walk[l - 1], walk[l]) /\ walk[l] \notin S
  BY <1>1, <1>2, <1>3
<1> QED  BY <1>3, <1>4, <1>5, <1>6

LEMMA SameGraph ==
  ASSUME adjList' = adjList
  PROVE  /\ \A u, v : G!Edge(u, v)' <=> G!Edge(u, v)
         /\ \A u : G!Reachable(u)' = G!Reachable(u)
         /\ \A u, v, n : G!Leads(u, v, n)' <=> G!Leads(u, v, n)
BY DEF G!Edge, G!Reachable, G!Closed, G!Leads

--------------------------------------------------------------------------------
(***************************************************************************)
(* The invariant.  Met is what a call has met so far, in order: printed,   *)
(* or in BFS's queue.                                                      *)
(***************************************************************************)
Met == processed \o q

\* The place in Met of the vertex that BFS looks at, or comes to next.
Current == IF frames = << >> THEN Len(processed) + 1 ELSE Len(processed)

AtRest == call = "none" => visited = {} /\ q = << >> /\ frames = << >> /\ topoStack = << >>

Marks ==
  /\ \A i, j \in 1..Len(Met) : Met[i] = Met[j] => i = j
  /\ call # "none" => \A v \in Vs : v \in visited <=> \E i \in 1..Len(Met) : v = Met[i]

\* Inner loops are at vertices that can be reached from those of outer ones.
Nested ==
  /\ \A i, j \in 1..Len(frames) : i < j =>
       /\ frames[i].vertex # frames[j].vertex
       /\ frames[i].vertex \in G!Reachable(frames[j].vertex)
  /\ \A i \in 1..Len(frames) - 1 :
       adjList[frames[i + 1].vertex][frames[i + 1].seen] = frames[i].vertex
  /\ \A i \in 1..Len(frames) : \A m \in 1..frames[i].seen :
       adjList[frames[i].vertex][m] \in visited

\* What BFS is through with, in met before place c, has no edge to what it has
\* not met; what it met later is not nearer to its start; and nothing it met is
\* more than one edge further than the vertex at place c.
Through(met, c, marked) ==
  \A k \in 1..Len(met) : k < c => \A w \in Vs : G!Edge(met[k], w) => w \in marked

NearerFirst(from, met) ==
  \A i, j \in 1..Len(met), n \in Nat :
    i < j /\ G!Leads(from, met[j], n) => \E m \in 0..n : G!Leads(from, met[i], m)

OneFurther(from, met, c) ==
  \A j \in 1..Len(met), n \in Nat :
    c < j /\ G!Leads(from, met[c], n) => \E m \in 0..n + 1 : G!Leads(from, met[j], m)

Breadth == call = "BFS" =>
  /\ topoStack = << >> /\ Len(frames) <= 1
  /\ frames # << >> => Len(processed) > 0 /\ frames[1].vertex = Met[Len(processed)]
  /\ Through(Met, Current, visited) /\ NearerFirst(start, Met) /\ OneFurther(start, Met, Current)

\* DFSUtil has been called for a vertex that is marked, and has returned if the
\* vertex is on topoStack: then an edge from it leads to one below it there, or
\* to one it can be reached from.
Below(top, marked) ==
  \A j \in 1..Len(top), w \in Vs : G!Edge(top[j], w) =>
    /\ w \in marked
    /\ \/ \E i \in 1..Len(top) : j < i /\ w = top[i]
       \/ top[j] \in G!Reachable(w)

Depth == call \in {"DFS", "topologicalSort"} =>
  /\ q = << >>
  /\ \A v \in Vs : v \in visited <=> \/ \E i \in 1..Len(frames) : v = frames[i].vertex
                                     \/ \E j \in 1..Len(topoStack) : v = topoStack[j]
  /\ \A i, j \in 1..Len(topoStack) : topoStack[i] = topoStack[j] => i = j
  /\ \A i \in 1..Len(frames), j \in 1..Len(topoStack) : frames[i].vertex # topoStack[j]
  /\ Below(topoStack, visited)

Found ==
  /\ call \in {"BFS", "DFS"} => start \in Vs /\ start \in visited
  /\ call = "topologicalSort" => start = NoVertex
  /\ start # NoVertex =>
       /\ \A i \in 1..Len(Met) : Met[i] \in G!Reachable(start)
       /\ call = "none" => \A v \in G!Reachable(start) : \E i \in 1..Len(Met) : v = Met[i]

InOrder(top) ==
  /\ Len(top) = V
  /\ \A v \in Vs : \E i \in 1..Len(top) : v = top[i]
  /\ \A i, j \in 1..Len(top) :
       i < j /\ G!Edge(top[j], top[i]) => top[j] \in G!Reachable(top[i])

Sorted == order # << >> => call = "none" /\ InOrder(order)

GraphInv ==
  GraphTypes /\ AtRest /\ Marks /\ Nested /\ Breadth /\ Depth /\ Found /\ Sorted

--------------------------------------------------------------------------------
\* Sequences, element by element.
LEMMA ConsIs ==
  ASSUME NEW S, NEW s \in Seq(S), NEW x \in S
  PROVE  /\ <<x>> \o s \in Seq(S) /\ Len(<<x>> \o s) = Len(s) + 1 /\ Len(s) \in Nat
         /\ <<x>> \o s # << >>
         /\ (<<x>> \o s)[1] = x
         /\ \A i \in 1..Len(s) : (<<x>> \o s)[i + 1] = s[i]
         /\ \A i \in 1..Len(s) + 1 : i # 1 => (<<x>> \o s)[i] = s[i - 1]
<1>1. <<x>> \in Seq(S) /\ Len(<<x>>) = 1 /\ <<x>>[1] = x /\ Len(s) \in Nat
  OBVIOUS
<1>2. /\ <<x>> \o s \in Seq(S) /\ Len(<<x>> \o s) = 1 + Len(s)
      /\ \A i \in 1..1 + Len(s) : (<<x>> \o s)[i] = IF i <= 1 THEN <<x>>[i] ELSE s[i - 1]
  BY <1>1, ConcatProperties
<1> QED  BY <1>1, <1>2

LEMMA TailIs ==
  ASSUME NEW S, NEW s \in Seq(S), s # << >>
  PROVE  /\ Tail(s) \in Seq(S) /\ Len(Tail(s)) = Len(s) - 1 /\ Len(s) \in Nat \ {0}
         /\ \A i \in 1..Len(s) - 1 : Tail(s)[i] = s[i + 1]
         /\ Head(s) = s[1] /\ s[1] \in S /\ 1 \in 1..Len(s)
<1>1. Len(s) \in Nat \ {0}
  BY EmptySeq
<1> QED  BY <1>1

LEMMA TakeMoves ==
  ASSUME NEW S, NEW s \in Seq(S), NEW t \in Seq(S), t # << >>
  PROVE  Append(s, Head(t)) \o Tail(t) = s \o t
<1>1. /\ Head(t) \in S /\ Head(t) = t[1] /\ Len(t) \in Nat \ {0}
      /\ Tail(t) \in Seq(S) /\ Len(Tail(t)) = Len(t) - 1
      /\ \A i \in 1..Len(t) - 1 : Tail(t)[i] = t[i + 1]
  BY TailIs
<1>2. PICK c \in Seq(S) : /\ c = <<Head(t)>> \o Tail(t)
                          /\ Len(c) = (Len(t) - 1) + 1 /\ c[1] = Head(t)
                          /\ \A i \in 1..(Len(t) - 1) + 1 : i # 1 => c[i] = Tail(t)[i - 1]
  BY <1>1, ConsIs
<1>3. \A i \in 1..Len(t) : c[i] = t[i]
  BY <1>1, <1>2
<1>4. c = t
  BY <1>1, <1>2, <1>3, SeqEqual
<1>5. Append(s, Head(t)) = s \o <<Head(t)>> /\ <<Head(t)>> \in Seq(S)
  BY <1>1, AppendIsConcat
<1>6. (s \o <<Head(t)>>) \o Tail(t) = s \o (<<Head(t)>> \o Tail(t))
  BY <1>1, <1>5, ConcatAssociative
<1> QED  BY <1>2, <1>4, <1>5, <1>6

LEMMA AppendLast ==
  ASSUME NEW S, NEW s \in Seq(S), NEW t \in Seq(S), NEW x \in S
  PROVE  s \o Append(t, x) = Append(s \o t, x)
<1>1. t \o <<x>> = Append(t, x) /\ (s \o t) \o <<x>> = Append(s \o t, x)
  BY AppendIsConcat, ConcatProperties
<1>2. <<x>> \in Seq(S)
  OBVIOUS
<1> QED  BY <1>1, <1>2, ConcatAssociative

LEMMA MetIs ==
  ASSUME GraphTypes
  PROVE  /\ Len(processed) \in Nat /\ Len(q) \in Nat /\ Len(Met) \in Nat
         /\ Len(Met) = Len(processed) + Len(q) /\ Met \in Seq(Vs) /\ DOMAIN Met = 1..Len(Met)
         /\ \A i \in 1..Len(Met) : Met[i] \in Vs
         /\ \A i \in 1..Len(processed) : Met[i] = processed[i]
         /\ q = << >> => Met = processed
         /\ Len(frames) \in Nat /\ (frames # << >> => Len(frames) # 0)
         /\ \A i \in 1..Len(frames) : /\ frames[i].vertex \in Vs /\ frames[i].seen \in Nat
                                      /\ frames[i] \in [vertex : Vs, seen : Nat]
         /\ Len(topoStack) \in Nat /\ \A j \in 1..Len(topoStack) : topoStack[j] \in Vs
<1>1. /\ Met \in Seq(Vs) /\ Len(Met) = Len(processed) + Len(q)
      /\ \A i \in 1..Len(processed) + Len(q) :
           Met[i] = IF i <= Len(processed) THEN processed[i] ELSE q[i - Len(processed)]
  BY ConcatProperties DEF Met, GraphTypes
<1>2. /\ Len(processed) \in Nat /\ Len(q) \in Nat /\ Len(frames) \in Nat
      /\ Len(topoStack) \in Nat /\ (frames # << >> => Len(frames) # 0)
  BY EmptySeq DEF GraphTypes
<1>3. /\ \A i \in 1..Len(Met) : Met[i] \in Vs
      /\ DOMAIN Met = 1..Len(Met)
  BY <1>1, ElementOfSeq
<1>4. \A i \in 1..Len(frames) : frames[i] \in [vertex : Vs, seen : Nat]
  BY ElementOfSeq DEF GraphTypes
<1>5. \A j \in 1..Len(topoStack) : topoStack[j] \in Vs
  BY ElementOfSeq DEF GraphTypes
<1>6. q = << >> => Met = processed
  BY ConcatEmptySeq DEF Met, GraphTypes
<1> QED  BY <1>1, <1>2, <1>3, <1>4, <1>5, <1>6

\* The edge that the innermost loop looks at, and the loops after it.
LEMMA LookedIs ==
  ASSUME GraphTypes, G!HasEdge
  PROVE  /\ Len(frames) \in Nat \ {0} /\ 1 \in 1..Len(frames)
         /\ G!Top = frames[1]
         /\ G!Looked \in Seq([vertex : Vs, seen : Nat]) /\ Len(G!Looked) = Len(frames)
         /\ G!Looked[1] = [vertex |-> frames[1].vertex, seen |-> frames[1].seen + 1]
         /\ \A i \in 1..Len(frames) : i # 1 => G!Looked[i] = frames[i]
         /\ frames[1].seen + 1 \in 1..Len(adjList[frames[1].vertex])
         /\ G!Nxt = adjList[frames[1].vertex][frames[1].seen + 1]
         /\ G!Nxt \in Vs /\ G!Edge(frames[1].vertex, G!Nxt)
<1>1. frames \in Seq([vertex : Vs, seen : Nat]) /\ frames # << >>
  BY DEF GraphTypes, G!HasEdge
<1>2. PICK f \in [vertex : Vs, seen : Nat] : f = frames[1] /\ f = G!Top
  BY <1>1, TailIs DEF G!Top
<1>3. PICK g \in [vertex : Vs, seen : Nat] :
        /\ g = [vertex |-> f.vertex, seen |-> f.seen + 1]
        /\ g = [f EXCEPT !.seen = @ + 1]
  <2>1. f.vertex \in Vs /\ f.seen \in Nat /\ f = [vertex |-> f.vertex, seen |-> f.seen]
    OBVIOUS
  <2>2. [f EXCEPT !.seen = @ + 1] = [vertex |-> f.vertex, seen |-> f.seen + 1]
    BY <2>1
  <2> QED  BY <2>1, <2>2
<1>4. G!Looked = <<g>> \o Tail(frames)
  BY <1>2, <1>3 DEF G!Looked
<1>5. /\ Tail(frames) \in Seq([vertex : Vs, seen : Nat]) /\ Len(Tail(frames)) = Len(frames) - 1
      /\ Len(frames) \in Nat \ {0} /\ 1 \in 1..Len(frames)
      /\ \A i \in 1..Len(frames) - 1 : Tail(frames)[i] = frames[i + 1]
  BY <1>1, TailIs
<1>6. /\ G!Looked \in Seq([vertex : Vs, seen : Nat]) /\ Len(G!Looked) = Len(frames)
      /\ G!Looked[1] = g
      /\ \A i \in 1..Len(frames) : i # 1 => G!Looked[i] = Tail(frames)[i - 1]
  BY <1>4, <1>5, ConsIs
<1>7. \A i \in 1..Len(frames) : i # 1 => Tail(frames)[i - 1] = frames[i]
  BY <1>5
<1>8. /\ f.seen < Len(adjList[f.vertex]) /\ f.vertex \in Vs /\ f.seen \in Nat
      /\ G!Nxt = adjList[f.vertex][f.seen + 1]
  BY <1>2 DEF G!HasEdge, G!Nxt
<1>9. /\ adjList \in [Vs -> Seq(Vs)] /\ adjList[f.vertex] \in Seq(Vs)
      /\ Len(adjList[f.vertex]) \in Nat
  BY <1>8 DEF GraphTypes
<1>10. f.seen + 1 \in 1..Len(adjList[f.vertex])
  BY <1>8, <1>9
<1>11. G!Edge(f.vertex, G!Nxt) /\ G!Nxt \in Vs
  BY <1>8, <1>9, <1>10, EdgeIs
<1> QED  BY <1>2, <1>3, <1>5, <1>6, <1>7, <1>8, <1>10, <1>11

\* A loop that has seen all edges.
LEMMA AllSeen ==
  ASSUME GraphTypes, Nested, frames # << >>, ~G!HasEdge
  PROVE  /\ Len(frames) \in Nat \ {0} /\ 1 \in 1..Len(frames)
         /\ G!Top = frames[1] /\ frames[1].vertex \in Vs
         /\ \A w \in Vs : G!Edge(frames[1].vertex, w) => w \in visited
<1>1. frames \in Seq([vertex : Vs, seen : Nat])
  BY DEF GraphTypes
<1>2. /\ 1 \in 1..Len(frames) /\ Len(frames) \in Nat \ {0} /\ G!Top = frames[1]
      /\ frames[1] \in [vertex : Vs, seen : Nat]
  BY <1>1, TailIs DEF G!Top
<1>3. PICK u \in Vs, n \in Nat : u = frames[1].vertex /\ n = frames[1].seen
  BY <1>2
<1>4. adjList \in [Vs -> Seq(Vs)] /\ Len(adjList[u]) \in Nat /\ n <= Len(adjList[u])
  BY <1>2, <1>3 DEF GraphTypes
<1>5. n = Len(adjList[u])
  BY <1>2, <1>3, <1>4 DEF G!HasEdge
<1>6. \A m \in 1..n : adjList[u][m] \in visited
  BY <1>2, <1>3 DEF Nested
<1>7. \A w : G!Edge(u, w) => \E m \in 1..n : w = adjList[u][m]
  BY <1>4, <1>5, EdgeIs
<1> QED  BY <1>2, <1>3, <1>6, <1>7
--------------------------------------------------------------------------------
LEMMA SameSearch ==
  ASSUME adjList' = adjList
  PROVE  /\ \A met, c, marked : Through(met, c, marked)' <=> Through(met, c, marked)
         /\ \A from, met : NearerFirst(from, met)' <=> NearerFirst(from, met)
         /\ \A from, met, c : OneFurther(from, met, c)' <=> OneFurther(from, met, c)
         /\ \A top, marked : Below(top, marked)' <=> Below(top, marked)
BY SameGraph DEF Through, NearerFirst, OneFurther, Below

\* BFS takes the next vertex: it moves from the queue to the printout.
LEMMA TakeNextKeeps ==
  ASSUME GraphInv, G!TakeNext
  PROVE  GraphInv'
<1> USE DEF GraphInv
<1>1. /\ call = "BFS" /\ frames = << >> /\ q # << >>
      /\ processed' = Append(processed, Head(q)) /\ q' = Tail(q)
      /\ frames' = <<G!Frame(Head(q))>>
      /\ UNCHANGED <<adjList, call, start, visited, topoStack, order>>
  BY DEF G!TakeNext
<1>2. /\ Head(q) \in Vs /\ Tail(q) \in Seq(Vs) /\ processed \in Seq(Vs) /\ q \in Seq(Vs)
      /\ Append(processed, Head(q)) \in Seq(Vs)
      /\ Len(Append(processed, Head(q))) = Len(processed) + 1
  BY <1>1, TailIs, AppendProperties DEF GraphTypes
<1>3. Met' = Met
  BY <1>1, <1>2, TakeMoves DEF Met
<1>4. /\ Len(frames') = 1 /\ frames' # << >> /\ frames'[1].vertex = Head(q)
      /\ frames'[1].seen = 0 /\ frames' \in Seq([vertex : Vs, seen : Nat])
  BY <1>1, <1>2 DEF G!Frame
<1>5. GraphTypes'
  <2>1. \A i \in 1..Len(frames') : frames'[i].seen <= Len(adjList'[frames'[i].vertex])
    BY <1>1, <1>2, <1>4 DEF GraphTypes
  <2> QED  BY <1>1, <1>2, <1>4, <2>1 DEF GraphTypes
<1>6. Len(processed') = Len(processed) + 1 /\ Current' = Current /\ Current = Len(processed')
  BY <1>1, <1>2, <1>4 DEF Current
<1>7. AtRest'
  BY <1>1 DEF AtRest
<1>8. Marks'
  BY <1>1, <1>3 DEF Marks
<1>9. Nested'
  BY <1>4 DEF Nested
<1>10. Breadth'
  <2>1. Len(processed') \in Nat \ {0}
    BY <1>6, MetIs
  <2>2. Met'[Len(processed')] = Head(q)
    <3>1. \A i \in 1..Len(processed') : Met'[i] = processed'[i]
      BY <1>5, ConcatProperties DEF Met, GraphTypes
    <3>2. processed'[Len(processed')] = Head(q)
      BY <1>1, <1>2, <1>6, AppendProperties
    <3> QED  BY <2>1, <3>1, <3>2
  <2>3. /\ Through(Met, Current, visited)' /\ NearerFirst(start, Met)'
        /\ OneFurther(start, Met, Current)'
    BY <1>1, <1>3, <1>6, SameSearch DEF Breadth
  <2> QED  BY <1>1, <1>4, <2>1, <2>2, <2>3 DEF Breadth
<1>11. Depth'
  BY <1>1 DEF Depth
<1>12. Found'
  BY <1>1, <1>3, SameGraph DEF Found
<1>13. Sorted'
  BY <1>1 DEF Sorted
<1> QED  BY <1>5, <1>7, <1>8, <1>9, <1>10, <1>11, <1>12, <1>13

\* A vertex that BFS meets at place c of its search is the furthest it has met.
LEMMA MetLater ==
  ASSUME adjList \in [Vs -> Seq(Vs)], NEW met \in Seq(Vs), NEW from, NEW marked,
         from \in marked, \A v \in Vs : v \in marked <=> \E i \in 1..Len(met) : v = met[i],
         marked \subseteq Vs,
         NEW c \in 1..Len(met), Through(met, c, marked), NearerFirst(from, met),
         OneFurther(from, met, c),
         NEW v \in Vs, v \notin marked, G!Edge(met[c], v)
  PROVE  /\ NearerFirst(from, Append(met, v)) /\ OneFurther(from, Append(met, v), c)
         /\ Through(Append(met, v), c, marked \cup {v})
<1>1. /\ Len(met) \in Nat /\ c \in Nat /\ c <= Len(met)
      /\ \A i \in 1..Len(met) : met[i] \in Vs
  BY ElementOfSeq
<1>2. PICK met2 : /\ met2 = Append(met, v) /\ Len(met2) = Len(met) + 1
                  /\ \A i \in 1..Len(met) : met2[i] = met[i]
                  /\ met2[Len(met) + 1] = v
  BY AppendProperties
\* Whatever leads to v leads to a vertex not before c first.
<1>3. ASSUME NEW n \in Nat, G!Leads(from, v, n), NEW i \in 1..Len(met)
      PROVE  \E m \in 0..n : G!Leads(from, met[i], m)
  <2>0. PICK x : \E l \in 0..n - 1, w \in marked :
          G!Leads(from, w, l) /\ G!Edge(w, x) /\ x \notin marked
    BY <1>3, LeadsOut
  <2>1. PICK l \in 0..n - 1, w \in marked :
          G!Leads(from, w, l) /\ G!Edge(w, x) /\ x \notin marked
    BY <2>0
  <2>2. x \in Vs
    BY <2>1, EdgeIs
  <2>3. PICK k \in 1..Len(met) : w = met[k]
    BY <2>1
  <2>4. ~(k < c)
    BY <2>1, <2>2, <2>3 DEF Through
  <2>5. PICK m \in 0..l : G!Leads(from, met[c], m)
    <3>1. CASE k = c
      BY <3>1, <2>1, <2>3
    <3>2. CASE c < k
      BY <3>2, <2>1, <2>3 DEF NearerFirst
    <3> QED  BY <3>1, <3>2, <2>4, <1>1
  <2>6. CASE i = c
    BY <2>5, <2>6
  <2>7. CASE i < c
    <3>1. \E p \in 0..m : G!Leads(from, met[i], p)
      BY <2>5, <2>7 DEF NearerFirst
    <3> QED  BY <3>1, <2>5
  <2>8. CASE c < i
    <3>1. \E p \in 0..m + 1 : G!Leads(from, met[i], p)
      BY <2>5, <2>8 DEF OneFurther
    <3> QED  BY <3>1, <2>5
  <2> QED  BY <2>6, <2>7, <2>8, <1>1
<1>4. NearerFirst(from, met2)
  <2> SUFFICES ASSUME NEW i \in 1..Len(met2), NEW j \in 1..Len(met2), NEW n \in Nat,
                      i < j, G!Leads(from, met2[j], n)
               PROVE  \E m \in 0..n : G!Leads(from, met2[i], m)
    BY DEF NearerFirst
  <2>1. i \in 1..Len(met) /\ met2[i] = met[i]
    BY <1>1, <1>2
  <2>2. CASE j = Len(met) + 1
    BY <2>1, <2>2, <1>2, <1>3
  <2>3. CASE j # Len(met) + 1
    <3>0. PICK k \in Nat : k = Len(met)
      BY <1>1
    <3>2. j \in 1..k + 1 /\ j # k + 1
      BY <3>0, <2>3, <1>2
    <3>3. j \in 1..k
      BY <3>2
    <3>1. j \in 1..Len(met) /\ met2[j] = met[j]
      BY <3>0, <3>3, <1>2
    <3> QED  BY <2>1, <3>1 DEF NearerFirst
  <2> QED  BY <2>2, <2>3
<1>5. OneFurther(from, met2, c)
  <2> SUFFICES ASSUME NEW j \in 1..Len(met2), NEW n \in Nat, c < j, G!Leads(from, met2[c], n)
               PROVE  \E m \in 0..n + 1 : G!Leads(from, met2[j], m)
    BY DEF OneFurther
  <2>1. met2[c] = met[c]
    BY <1>2
  <2>2. CASE j = Len(met) + 1
    <3>1. G!Leads(from, v, n + 1)
      BY <2>1, <1>1, LeadsOn
    <3> QED  BY <3>1, <2>2, <1>2
  <2>3. CASE j # Len(met) + 1
    <3>0. PICK k \in Nat : k = Len(met)
      BY <1>1
    <3>2. j \in 1..k + 1 /\ j # k + 1
      BY <3>0, <2>3, <1>2
    <3>3. j \in 1..k
      BY <3>2
    <3>1. j \in 1..Len(met) /\ met2[j] = met[j]
      BY <3>0, <3>3, <1>2
    <3> QED  BY <2>1, <3>1 DEF OneFurther
  <2> QED  BY <2>2, <2>3
<1>6. Through(met2, c, marked \cup {v})
  BY <1>1, <1>2 DEF Through
<1> QED  BY <1>2, <1>4, <1>5, <1>6

\* BFS looks at an edge.
LEMMA LookBFSKeeps ==
  ASSUME GraphInv, G!LookBFS
  PROVE  GraphInv'
<1> USE DEF GraphInv
<1>1. /\ call = "BFS" /\ G!HasEdge /\ frames' = G!Looked
      /\ UNCHANGED <<adjList, call, start, topoStack, processed, order>>
  BY DEF G!LookBFS
<1>2. /\ Len(frames) = 1 /\ Len(frames') = 1 /\ 1 \in 1..Len(frames)
      /\ frames'[1] = [vertex |-> frames[1].vertex, seen |-> frames[1].seen + 1]
      /\ frames' \in Seq([vertex : Vs, seen : Nat])
      /\ frames[1].seen + 1 \in 1..Len(adjList[frames[1].vertex])
      /\ G!Nxt = adjList[frames[1].vertex][frames[1].seen + 1]
      /\ G!Nxt \in Vs /\ G!Edge(frames[1].vertex, G!Nxt)
  <2>1. PICK k \in Nat : k = Len(frames) /\ k # 0 /\ k <= 1
    BY <1>1, LookedIs DEF Breadth
  <2>2. Len(frames) = 1
    BY <2>1
  <2> QED  BY <1>1, <2>2, LookedIs
<1>3. /\ frames # << >> /\ frames' # << >> /\ Len(processed) \in Nat \ {0}
      /\ Current = Len(processed) /\ Current' = Current /\ Current \in 1..Len(Met)
      /\ frames[1].vertex = Met[Current]
  <2>1. frames # << >> /\ frames' # << >>
    BY <1>1, <1>2, EmptySeq DEF G!HasEdge
  <2> QED  BY <2>1, <1>1, MetIs DEF Breadth, Current
<1>4. PICK v \in Vs : v = G!Nxt
  BY <1>2
<1>5. \/ v \in visited /\ UNCHANGED <<q, visited>>
      \/ v \notin visited /\ q' = Append(q, v) /\ visited' = visited \cup {v}
  BY <1>4 DEF G!LookBFS
<1>6. \/ v \in visited /\ Met' = Met
      \/ v \notin visited /\ Met' = Append(Met, v)
  <2>1. processed \in Seq(Vs) /\ q \in Seq(Vs)
    BY DEF GraphTypes
  <2>2. processed \o Append(q, v) = Append(processed \o q, v)
    BY <2>1, AppendLast
  <2> QED  BY <1>1, <1>5, <2>2 DEF Met
<1>7. GraphTypes'
  <2>1. q' \in Seq(Vs) /\ visited' \subseteq Vs
    <3>1. q \in Seq(Vs) /\ visited \subseteq Vs /\ Append(q, v) \in Seq(Vs)
      BY AppendProperties DEF GraphTypes
    <3> QED  BY <3>1, <1>5
  <2>2. \A i \in 1..Len(frames') : frames'[i].seen <= Len(adjList'[frames'[i].vertex])
    BY <1>1, <1>2
  <2> QED  BY <1>1, <1>2, <2>1, <2>2 DEF GraphTypes
<1>8. v \in visited'
  BY <1>5
<1>9. Nested'
  <2>1. \A i \in 1..Len(frames') : \A m \in 1..frames'[i].seen :
          adjList'[frames'[i].vertex][m] \in visited'
    <3> SUFFICES ASSUME NEW m \in 1..frames[1].seen + 1
                 PROVE  adjList[frames[1].vertex][m] \in visited'
      BY <1>1, <1>2
    <3>1. CASE m = frames[1].seen + 1
      BY <3>1, <1>2, <1>4, <1>8
    <3>2. CASE m # frames[1].seen + 1
      <4>1. frames[1].seen \in Nat
        BY <1>2, MetIs
      <4>2. m \in 1..frames[1].seen
        BY <3>2, <4>1
      <4>3. adjList[frames[1].vertex][m] \in visited
        BY <4>2, <1>2 DEF Nested
      <4> QED  BY <4>3, <1>5
    <3> QED  BY <3>1, <3>2
  <2> QED  BY <1>2, <2>1 DEF Nested
<1>10. /\ Met \in Seq(Vs) /\ Len(Met) \in Nat
       /\ v \notin visited =>
            /\ Len(Met') = Len(Met) + 1 /\ Met'[Len(Met) + 1] = v
            /\ \A i \in 1..Len(Met) : Met'[i] = Met[i]
  BY <1>6, MetIs, AppendProperties
<1>11. Marks'
  <2>1. CASE v \in visited
    BY <2>1, <1>1, <1>5, <1>6 DEF Marks
  <2>2. CASE v \notin visited
    <3>1. \A i \in 1..Len(Met) : Met[i] # v
      BY <2>2, <1>1 DEF Marks
    <3>2. \A i, j \in 1..Len(Met') : Met'[i] = Met'[j] => i = j
      BY <2>2, <3>1, <1>10 DEF Marks
    <3>3. \A w \in Vs : w \in visited' <=> \E i \in 1..Len(Met') : w = Met'[i]
      <4>1. \A w \in Vs : w \in visited <=> \E i \in 1..Len(Met) : w = Met[i]
        BY <1>1 DEF Marks
      <4>2. ASSUME NEW w \in Vs, w \in visited'  PROVE \E i \in 1..Len(Met') : w = Met'[i]
        <5>1. CASE w = v
          BY <5>1, <2>2, <1>10
        <5>2. CASE w # v
          <6>1. PICK i \in 1..Len(Met) : w = Met[i]
            BY <4>1, <4>2, <5>2, <1>5
          <6> QED  BY <6>1, <2>2, <1>10
        <5> QED  BY <5>1, <5>2
      <4>3. ASSUME NEW w \in Vs, NEW i \in 1..Len(Met'), w = Met'[i]  PROVE w \in visited'
        <5>1. CASE i = Len(Met) + 1
          BY <5>1, <4>3, <2>2, <1>8, <1>10
        <5>2. CASE i # Len(Met) + 1
          <6>1. i \in 1..Len(Met) /\ w = Met[i]
            BY <5>2, <4>3, <2>2, <1>10
          <6> QED  BY <6>1, <4>1, <1>5
        <5> QED  BY <5>1, <5>2
      <4> QED  BY <4>2, <4>3
    <3> QED  BY <3>2, <3>3 DEF Marks
  <2> QED  BY <2>1, <2>2
<1>12. Breadth'
  <2>1. /\ Through(Met, Current, visited) /\ NearerFirst(start, Met)
        /\ OneFurther(start, Met, Current)
    BY <1>1 DEF Breadth
  <2>2. /\ Through(Met, Current, visited)' /\ NearerFirst(start, Met)'
        /\ OneFurther(start, Met, Current)'
    <3>1. CASE v \in visited
      BY <3>1, <2>1, <1>1, <1>3, <1>5, <1>6, SameSearch
    <3>2. CASE v \notin visited
      <4>1. PICK met, c, from, marked :
              met = Met /\ c = Current /\ from = start /\ marked = visited
        OBVIOUS
      <4>2. /\ NearerFirst(from, Append(met, v)) /\ OneFurther(from, Append(met, v), c)
            /\ Through(Append(met, v), c, marked \cup {v})
        <5>1. /\ adjList \in [Vs -> Seq(Vs)] /\ met \in Seq(Vs) /\ from \in marked
              /\ marked \subseteq Vs /\ c \in 1..Len(met)
          BY <4>1, <1>1, <1>3, <1>10 DEF Found, GraphTypes
        <5>2. \A w \in Vs : w \in marked <=> \E i \in 1..Len(met) : w = met[i]
          BY <4>1, <1>1 DEF Marks
        <5>3. v \notin marked /\ G!Edge(met[c], v)
          BY <3>2, <4>1, <1>2, <1>3, <1>4
        <5> QED  BY <5>1, <5>2, <5>3, <2>1, <4>1, MetLater
      <4>3. Append(met, v) = Met' /\ c = Current' /\ from = start' /\ marked \cup {v} = visited'
        BY <3>2, <4>1, <1>1, <1>3, <1>5, <1>6
      <4> QED  BY <4>2, <4>3, <1>1, SameSearch
    <3> QED  BY <3>1, <3>2
  <2>3. topoStack' = << >> /\ Len(frames') <= 1
    BY <1>1, <1>2 DEF Breadth
  <2>4. Len(processed') > 0 /\ frames'[1].vertex = Met'[Len(processed')]
    BY <1>1, <1>2, <1>3, <1>6, <1>10
  <2> QED  BY <2>2, <2>3, <2>4 DEF Breadth
<1>13. Found'
  <2>1. start \in Vs /\ start \in visited /\ start' \in visited' /\ start' = start
    BY <1>1, <1>5 DEF Found
  <2>2. \A i \in 1..Len(Met') : Met'[i] \in G!Reachable(start)
    <3>1. \A i \in 1..Len(Met) : Met[i] \in G!Reachable(start)
      BY <2>1, VerticesAre DEF Found
    <3>2. v \in G!Reachable(start)
      BY <3>1, <1>2, <1>3, <1>4, ReachesOn DEF GraphTypes
    <3> QED  BY <3>1, <3>2, <1>6, <1>10
  <2> QED  BY <1>1, <2>1, <2>2, SameGraph DEF Found
<1>14. AtRest' /\ Depth' /\ Sorted'
  BY <1>1 DEF AtRest, Depth, Sorted
<1> QED  BY <1>7, <1>9, <1>11, <1>12, <1>13, <1>14

\* BFS is through with the edges of a vertex.
LEMMA EndLoopBFSKeeps ==
  ASSUME GraphInv, G!EndLoopBFS
  PROVE  GraphInv'
<1> USE DEF GraphInv
<1>1. /\ call = "BFS" /\ frames # << >> /\ ~G!HasEdge /\ frames' = << >>
      /\ UNCHANGED <<adjList, call, start, visited, q, topoStack, processed, order>>
  BY DEF G!EndLoopBFS
<1>2. Met' = Met
  BY <1>1 DEF Met
<1>3. /\ Len(processed) \in Nat \ {0} /\ Current = Len(processed) /\ Current' = Current + 1
      /\ Len(Met) \in Nat /\ Current \in 1..Len(Met) /\ frames[1].vertex = Met[Current]
  BY <1>1, MetIs DEF Current, Breadth
<1>4. GraphTypes'
  BY <1>1, EmptySeq DEF GraphTypes
<1>5. PICK met, c, from, marked : met = Met /\ c = Current /\ from = start /\ marked = visited
  OBVIOUS
<1>6. Through(met, c, marked) /\ NearerFirst(from, met) /\ OneFurther(from, met, c)
  BY <1>1, <1>5 DEF Breadth
<1>7. Through(met, c + 1, marked)
  <2>1. \A w \in Vs : G!Edge(met[c], w) => w \in marked
    BY <1>1, <1>3, <1>5, AllSeen
  <2> QED  BY <2>1, <1>3, <1>5, <1>6 DEF Through
<1>8. OneFurther(from, met, c + 1)
  <2> SUFFICES ASSUME NEW j \in 1..Len(met), NEW n \in Nat, c + 1 < j,
                      G!Leads(from, met[c + 1], n)
               PROVE  \E m \in 0..n + 1 : G!Leads(from, met[j], m)
    BY DEF OneFurther
  <2>1. c \in 1..Len(met) /\ c + 1 \in 1..Len(met) /\ c < c + 1 /\ c < j
    BY <1>3, <1>5
  <2>2. PICK l \in 0..n : G!Leads(from, met[c], l)
    BY <2>1, <1>6 DEF NearerFirst
  <2>3. \E m \in 0..l + 1 : G!Leads(from, met[j], m)
    BY <2>1, <2>2, <1>6 DEF OneFurther
  <2> QED  BY <2>2, <2>3
<1>9. Breadth'
  <2>1. Through(Met, Current, visited)' /\ NearerFirst(start, Met)' /\ OneFurther(start, Met, Current)'
    BY <1>1, <1>2, <1>3, <1>5, <1>6, <1>7, <1>8, SameSearch
  <2> QED  BY <2>1, <1>1 DEF Breadth
<1>10. Nested'
  BY <1>1 DEF Nested
<1>11. Marks'
  BY <1>1, <1>2 DEF Marks
<1>12. Found'
  BY <1>1, <1>2, SameGraph DEF Found
<1>13. AtRest' /\ Depth' /\ Sorted'
  BY <1>1 DEF AtRest, Depth, Sorted
<1> QED  BY <1>4, <1>9, <1>10, <1>11, <1>12, <1>13

--------------------------------------------------------------------------------
\* DFSUtil begins for v, below loops that are where they were, but for the
\* innermost one, which has come to an edge to v.
LEMMA EnterKeeps ==
  ASSUME GraphInv, call \in {"DFS", "topologicalSort"},
         NEW v \in Vs, v \notin visited, start # NoVertex => v \in G!Reachable(start),
         NEW outer \in Seq([vertex : Vs, seen : Nat]), G!Enter(v, outer),
         UNCHANGED <<adjList, call, start, q, topoStack, order>>,
         Len(outer) = Len(frames),
         \A i \in 1..Len(outer) : /\ outer[i].vertex = frames[i].vertex
                                  /\ outer[i].seen <= Len(adjList[outer[i].vertex]),
         \A i \in 1..Len(outer) : i # 1 => outer[i] = frames[i],
         Len(outer) # 0 =>
           /\ adjList[outer[1].vertex][outer[1].seen] = v /\ G!Edge(outer[1].vertex, v)
           /\ \A m \in 1..outer[1].seen : adjList[outer[1].vertex][m] \in visited \cup {v}
  PROVE  GraphInv'
<1> USE DEF GraphInv
<1>1. /\ visited' = visited \cup {v} /\ processed' = Append(processed, v)
      /\ frames' = <<G!Frame(v)>> \o outer /\ q = << >> /\ q' = << >>
  BY DEF G!Enter, Depth
<1>2. PICK n \in Nat : n = Len(outer) /\ n = Len(frames)
  BY MetIs
<1>3. G!Frame(v) \in [vertex : Vs, seen : Nat] /\ G!Frame(v).vertex = v /\ G!Frame(v).seen = 0
  BY DEF G!Frame
<1>4. /\ frames' \in Seq([vertex : Vs, seen : Nat]) /\ Len(frames') = n + 1
      /\ frames'[1] = G!Frame(v)
      /\ \A i \in 1..n : frames'[i + 1] = outer[i]
      /\ \A i \in 1..n + 1 : i # 1 => i - 1 \in 1..n /\ frames'[i] = outer[i - 1]
  <2>1. PICK f \in [vertex : Vs, seen : Nat] : f = G!Frame(v)
    BY <1>3
  <2>2. /\ frames' \in Seq([vertex : Vs, seen : Nat]) /\ Len(frames') = Len(outer) + 1
        /\ frames'[1] = f
        /\ \A i \in 1..Len(outer) : frames'[i + 1] = outer[i]
        /\ \A i \in 1..Len(outer) + 1 : i # 1 => frames'[i] = outer[i - 1]
    BY <1>1, <2>1, ConsIs
  <2>3. \A i \in 1..n + 1 : i # 1 => i - 1 \in 1..n
    OBVIOUS
  <2> QED  BY <1>2, <2>1, <2>2, <2>3
<1>5. /\ Met = processed /\ Met' = Append(Met, v) /\ Met \in Seq(Vs)
      /\ Len(Met') = Len(Met) + 1 /\ Met'[Len(Met) + 1] = v
      /\ \A i \in 1..Len(Met) : Met'[i] = Met[i]
  <2>1. Met = processed /\ processed \in Seq(Vs) /\ Append(processed, v) \in Seq(Vs)
    BY <1>1, MetIs, AppendProperties DEF GraphTypes
  <2>2. Met' = Append(processed, v)
    BY <1>1, <2>1, ConcatEmptySeq DEF Met
  <2> QED  BY <2>1, <2>2, AppendProperties
<1>6. PICK k \in Nat : k = Len(Met)
  BY MetIs
<1>7. GraphTypes'
  <2>1. \A i \in 1..Len(frames') : frames'[i].seen <= Len(adjList'[frames'[i].vertex])
    <3> SUFFICES ASSUME NEW i \in 1..n + 1
                 PROVE  frames'[i].seen <= Len(adjList[frames'[i].vertex])
      BY <1>4
    <3>1. CASE i = 1
      BY <3>1, <1>3, <1>4, EdgeIs DEF GraphTypes
    <3>2. CASE i # 1
      <4>1. i - 1 \in 1..n /\ frames'[i] = outer[i - 1]
        BY <3>2, <1>4
      <4>2. i - 1 \in 1..Len(outer)
        BY <4>1, <1>2
      <4> QED  BY <4>1, <4>2
    <3> QED  BY <3>1, <3>2
  <2>2. processed' \in Seq(Vs) /\ visited' \subseteq Vs
    BY <1>1, AppendProperties DEF GraphTypes
  <2> QED  BY <1>1, <1>4, <2>1, <2>2 DEF GraphTypes
<1>8. Marks'
  <2>1. \A w \in Vs : w \in visited <=> \E i \in 1..k : w = Met[i]
    BY <1>6 DEF Marks
  <2>2. \A i \in 1..k : Met[i] # v
    BY <2>1
  <2>3. \A i, j \in 1..k + 1 : Met'[i] = Met'[j] => i = j
    <3>1. \A i, j \in 1..k : Met[i] = Met[j] => i = j
      BY <1>6 DEF Marks
    <3>2. \A i \in 1..k + 1 : i \in 1..k \/ i = k + 1
      OBVIOUS
    <3> QED  BY <1>5, <1>6, <2>2, <3>1, <3>2
  <2>4. ASSUME NEW w \in Vs, w \in visited'  PROVE \E i \in 1..k + 1 : w = Met'[i]
    <3>1. CASE w = v
      BY <3>1, <1>5, <1>6
    <3>2. CASE w # v
      <4>1. PICK i \in 1..k : w = Met[i]
        BY <2>1, <2>4, <3>2, <1>1
      <4>2. i \in 1..k + 1 /\ Met'[i] = Met[i]
        BY <4>1, <1>5, <1>6
      <4> QED  BY <4>1, <4>2
    <3> QED  BY <3>1, <3>2
  <2>5. ASSUME NEW w \in Vs, NEW i \in 1..k + 1, w = Met'[i]  PROVE w \in visited'
    <3>1. CASE i = k + 1
      BY <3>1, <2>5, <1>1, <1>5, <1>6
    <3>2. CASE i # k + 1
      <4>1. i \in 1..k /\ w = Met[i]
        BY <3>2, <2>5, <1>5, <1>6
      <4> QED  BY <4>1, <2>1, <1>1
    <3> QED  BY <3>1, <3>2
  <2> QED  BY <1>5, <1>6, <2>3, <2>4, <2>5 DEF Marks
<1>9. \A i \in 1..n : frames[i].vertex \in Vs /\ frames[i].vertex \in visited
  <2>1. ASSUME NEW i \in 1..n  PROVE frames[i].vertex \in Vs /\ frames[i].vertex \in visited
    BY <2>1, <1>2, MetIs DEF Depth
  <2> QED  BY <2>1
<1>10. \A i \in 1..n : v \in G!Reachable(frames[i].vertex)
  <2> SUFFICES ASSUME NEW i \in 1..n  PROVE v \in G!Reachable(frames[i].vertex)
    OBVIOUS
  <2>1. 1 \in 1..n /\ G!Edge(frames[1].vertex, v)
    BY <1>2
  <2>2. frames[1].vertex \in G!Reachable(frames[i].vertex)
    <3>1. CASE i = 1
      BY <3>1, <1>9, ReachesItself
    <3>2. CASE i # 1
      BY <3>2, <2>1, <1>2 DEF Nested
    <3> QED  BY <3>1, <3>2
  <2> QED  BY <2>1, <2>2, ReachesOn DEF GraphTypes
<1>11. Nested'
  <2>1. ASSUME NEW i \in 1..n + 1, NEW j \in 1..n + 1, i < j
        PROVE  /\ frames'[i].vertex # frames'[j].vertex
               /\ frames'[i].vertex \in G!Reachable(frames'[j].vertex)
    <3>0. \A l \in 1..n + 1 : l # 1 =>
            l - 1 \in 1..n /\ frames'[l].vertex = frames[l - 1].vertex
      <4> SUFFICES ASSUME NEW l \in 1..n + 1, l # 1
                   PROVE  l - 1 \in 1..n /\ frames'[l].vertex = frames[l - 1].vertex
        OBVIOUS
      <4>1. l - 1 \in 1..n /\ frames'[l] = outer[l - 1]
        BY <1>4
      <4>2. outer[l - 1].vertex = frames[l - 1].vertex
        BY <4>1, <1>2
      <4> QED  BY <4>1, <4>2
    <3>4. j # 1
      BY <2>1
    <3>1. j - 1 \in 1..n /\ frames'[j].vertex = frames[j - 1].vertex
      BY <3>0, <3>4
    <3>2. CASE i = 1
      BY <3>1, <3>2, <1>3, <1>4, <1>9, <1>10
    <3>3. CASE i # 1
      <4>1. i - 1 \in 1..n /\ frames'[i].vertex = frames[i - 1].vertex
        BY <3>0, <3>3
      <4>2. i - 1 < j - 1
        BY <2>1
      <4> QED  BY <3>1, <4>1, <4>2, <1>2 DEF Nested
    <3> QED  BY <3>2, <3>3
  <2>2. ASSUME NEW i \in 1..n
        PROVE  adjList[frames'[i + 1].vertex][frames'[i + 1].seen] = frames'[i].vertex
    <3>1. frames'[i + 1] = outer[i] /\ outer[i].vertex = frames[i].vertex
      BY <1>2, <1>4
    <3>2. CASE i = 1
      BY <3>1, <3>2, <1>2, <1>3, <1>4
    <3>3. CASE i # 1
      <4>1. i - 1 \in 1..n /\ i - 1 \in 1..n - 1 /\ (i - 1) + 1 = i /\ i \in 1..n + 1
        BY <3>3
      <4>2. frames'[i].vertex = frames[i - 1].vertex /\ outer[i] = frames[i]
        BY <3>3, <4>1, <1>2, <1>4
      <4>3. adjList[frames[i].vertex][frames[i].seen] = frames[i - 1].vertex
        BY <4>1, <1>2 DEF Nested
      <4> QED  BY <3>1, <4>2, <4>3
    <3> QED  BY <3>2, <3>3
  <2>3. ASSUME NEW i \in 1..n + 1, NEW m \in 1..frames'[i].seen
        PROVE  adjList[frames'[i].vertex][m] \in visited'
    <3>1. CASE i = 1
      BY <3>1, <2>3, <1>3, <1>4
    <3>2. CASE i # 1
      <4>1. i - 1 \in 1..n /\ frames'[i] = outer[i - 1]
        BY <3>2, <1>4
      <4>2. CASE i - 1 = 1
        BY <4>1, <4>2, <2>3, <1>1, <1>2
      <4>3. CASE i - 1 # 1
        <5>1. outer[i - 1] = frames[i - 1] /\ i - 1 \in 1..Len(frames)
          BY <4>1, <4>3, <1>2
        <5>2. m \in 1..frames[i - 1].seen /\ frames'[i].vertex = frames[i - 1].vertex
          BY <4>1, <5>1, <2>3
        <5>3. adjList[frames[i - 1].vertex][m] \in visited
          BY <5>1, <5>2 DEF Nested
        <5> QED  BY <5>2, <5>3, <1>1
      <4> QED  BY <4>2, <4>3
    <3> QED  BY <3>1, <3>2
  <2>4. Len(frames') - 1 = n
    BY <1>4
  <2> QED  BY <1>4, <2>1, <2>2, <2>3, <2>4, SameGraph DEF Nested
<1>12. Depth'
  <2>1. ASSUME NEW w \in Vs
        PROVE  w \in visited' <=> \/ \E i \in 1..n + 1 : w = frames'[i].vertex
                                  \/ \E j \in 1..Len(topoStack) : w = topoStack[j]
    <3>1. w \in visited <=> \/ \E i \in 1..n : w = frames[i].vertex
                            \/ \E j \in 1..Len(topoStack) : w = topoStack[j]
      BY <1>2 DEF Depth
    <3>2. (\E i \in 1..n + 1 : w = frames'[i].vertex) <=>
            w = v \/ \E i \in 1..n : w = frames[i].vertex
      <4>1. frames'[1].vertex = v /\ 1 \in 1..n + 1
        BY <1>3, <1>4
      <4>2. \A i \in 1..n : i + 1 \in 1..n + 1 /\ frames'[i + 1].vertex = frames[i].vertex
        BY <1>2, <1>4
      <4>3. \A i \in 1..n + 1 : i # 1 =>
              i - 1 \in 1..n /\ frames'[i].vertex = frames[i - 1].vertex
        <5> SUFFICES ASSUME NEW i \in 1..n + 1, i # 1
                     PROVE  i - 1 \in 1..n /\ frames'[i].vertex = frames[i - 1].vertex
          OBVIOUS
        <5>1. i - 1 \in 1..n /\ frames'[i] = outer[i - 1]
          BY <1>4
        <5>2. outer[i - 1].vertex = frames[i - 1].vertex
          BY <5>1, <1>2
        <5> QED  BY <5>1, <5>2
      <4>4. ASSUME NEW i \in 1..n + 1, w = frames'[i].vertex
            PROVE  w = v \/ \E l \in 1..n : w = frames[l].vertex
        <5>1. CASE i = 1
          BY <4>1, <4>4, <5>1
        <5>2. CASE i # 1
          BY <4>3, <4>4, <5>2
        <5> QED  BY <5>1, <5>2
      <4>5. ASSUME w = v \/ \E l \in 1..n : w = frames[l].vertex
            PROVE  \E i \in 1..n + 1 : w = frames'[i].vertex
        <5>1. CASE w = v
          BY <4>1, <5>1
        <5>2. ASSUME NEW l \in 1..n, w = frames[l].vertex
              PROVE  \E i \in 1..n + 1 : w = frames'[i].vertex
          BY <4>2, <5>2
        <5> QED  BY <4>5, <5>1, <5>2
      <4> QED  BY <4>4, <4>5
    <3> QED  BY <3>1, <3>2, <1>1
  <2>2. \A j \in 1..Len(topoStack) : topoStack[j] \in Vs /\ topoStack[j] \in visited
    <3>1. ASSUME NEW j \in 1..Len(topoStack)
          PROVE  topoStack[j] \in Vs /\ topoStack[j] \in visited
      BY <3>1, MetIs DEF Depth
    <3> QED  BY <3>1
  <2>3. ASSUME NEW i \in 1..n + 1, NEW j \in 1..Len(topoStack)
        PROVE  frames'[i].vertex # topoStack[j]
    <3>1. CASE i = 1
      BY <3>1, <2>2, <1>3, <1>4
    <3>2. CASE i # 1
      <4>1. i - 1 \in 1..n /\ frames'[i] = outer[i - 1]
        BY <3>2, <1>4
      <4>2. i - 1 \in 1..Len(frames) /\ frames'[i].vertex = frames[i - 1].vertex
        BY <4>1, <1>2
      <4>3. \A l \in 1..Len(frames) : frames[l].vertex # topoStack[j]
        BY DEF Depth
      <4> QED  BY <4>2, <4>3
    <3> QED  BY <3>1, <3>2
  <2>4. \A w \in Vs : w \in visited => w \in visited'
    BY <1>1
  <2>5. \A i, j \in 1..Len(topoStack) : topoStack[i] = topoStack[j] => i = j
    BY DEF Depth
  <2>6. Below(topoStack, visited')
    BY <2>4 DEF Depth, Below
  <2>7. Below(topoStack, visited)'
    BY <2>6, SameSearch
  <2>8. Len(frames') = n + 1 /\ q' = << >> /\ topoStack' = topoStack
    BY <1>1, <1>4
  <2> QED  BY <2>1, <2>3, <2>5, <2>7, <2>8 DEF Depth
<1>13. Found'
  <2>1. start # NoVertex => \A i \in 1..k + 1 : Met'[i] \in G!Reachable(start)
    <3>1. \A i \in 1..k + 1 : i \in 1..k \/ i = k + 1
      OBVIOUS
    <3> QED  BY <3>1, <1>5, <1>6 DEF Found
  <2> QED  BY <1>1, <1>5, <1>6, <2>1, SameGraph DEF Found
<1>14. AtRest' /\ Breadth' /\ Sorted'
  BY DEF AtRest, Breadth, Sorted
<1> QED  BY <1>7, <1>8, <1>11, <1>12, <1>13, <1>14

\* DFSUtil looks at an edge.
LEMMA LookDFSKeeps ==
  ASSUME GraphInv, G!LookDFS
  PROVE  GraphInv'
<1> USE DEF GraphInv
<1>1. /\ call \in {"DFS", "topologicalSort"} /\ G!HasEdge
      /\ UNCHANGED <<adjList, call, start, q, topoStack, order>>
  BY DEF G!LookDFS
<1>2. PICK v \in Vs : v = G!Nxt
  BY <1>1, LookedIs
<1>3. PICK looked \in Seq([vertex : Vs, seen : Nat]) :
        /\ looked = G!Looked /\ Len(looked) = Len(frames) /\ Len(frames) \in Nat \ {0}
        /\ 1 \in 1..Len(frames)
        /\ looked[1].vertex = frames[1].vertex /\ looked[1].seen = frames[1].seen + 1
        /\ \A i \in 1..Len(frames) : i # 1 => looked[i] = frames[i]
        /\ frames[1].seen + 1 \in 1..Len(adjList[frames[1].vertex])
        /\ v = adjList[frames[1].vertex][frames[1].seen + 1]
        /\ G!Edge(frames[1].vertex, v)
  BY <1>1, <1>2, LookedIs
<1>4. \A i \in 1..Len(looked) : /\ looked[i].vertex = frames[i].vertex
                                /\ looked[i].seen <= Len(adjList[looked[i].vertex])
  <2>1. looked[1].seen <= Len(adjList[looked[1].vertex])
    BY <1>3
  <2>2. \A i \in 1..Len(looked) : i # 1 => looked[i].seen <= Len(adjList[looked[i].vertex])
    BY <1>3 DEF GraphTypes
  <2> QED  BY <1>3, <2>1, <2>2
<1>5. \A m \in 1..looked[1].seen : adjList[looked[1].vertex][m] \in visited \cup {v}
  <2> SUFFICES ASSUME NEW m \in 1..frames[1].seen + 1
               PROVE  adjList[frames[1].vertex][m] \in visited \cup {v}
    BY <1>3
  <2>1. CASE m = frames[1].seen + 1
    BY <2>1, <1>3
  <2>2. CASE m # frames[1].seen + 1
    <3>1. frames[1].seen \in Nat
      BY <1>3, MetIs
    <3>2. m \in 1..frames[1].seen
      BY <2>2, <3>1
    <3> QED  BY <3>2, <1>3 DEF Nested
  <2> QED  BY <2>1, <2>2
<1>6. CASE v \in visited
  <2>1. frames' = looked /\ UNCHANGED <<visited, processed>> /\ Met' = Met
    BY <1>1, <1>2, <1>3, <1>6 DEF G!LookDFS, Met
  <2>2. GraphTypes'
    BY <1>1, <1>4, <2>1 DEF GraphTypes
  <2>3. Nested'
    <3>1. \A i \in 1..Len(looked) : \A m \in 1..looked[i].seen :
            adjList[looked[i].vertex][m] \in visited
      <4> SUFFICES ASSUME NEW i \in 1..Len(looked), NEW m \in 1..looked[i].seen
                   PROVE  adjList[looked[i].vertex][m] \in visited
        OBVIOUS
      <4>1. CASE i = 1
        BY <4>1, <1>5, <1>6
      <4>2. CASE i # 1
        BY <4>2, <1>3 DEF Nested
      <4> QED  BY <4>1, <4>2
    <3>2. \A i, j \in 1..Len(looked) : i < j =>
            /\ looked[i].vertex # looked[j].vertex
            /\ looked[i].vertex \in G!Reachable(looked[j].vertex)
      BY <1>3, <1>4 DEF Nested
    <3>3. \A i \in 1..Len(looked) - 1 :
            adjList[looked[i + 1].vertex][looked[i + 1].seen] = looked[i].vertex
      <4> SUFFICES ASSUME NEW i \in 1..Len(looked) - 1
                   PROVE  adjList[looked[i + 1].vertex][looked[i + 1].seen] = looked[i].vertex
        OBVIOUS
      <4>1. i \in 1..Len(looked) /\ i + 1 \in 1..Len(looked) /\ i + 1 # 1
            /\ i \in 1..Len(frames) - 1
        BY <1>3
      <4>2. looked[i + 1] = frames[i + 1] /\ looked[i].vertex = frames[i].vertex
        BY <4>1, <1>3, <1>4
      <4> QED  BY <4>1, <4>2 DEF Nested
    <3> QED  BY <1>1, <2>1, <3>1, <3>2, <3>3, SameGraph DEF Nested
  <2>4. Depth'
    <3>1. \A w \in Vs : (\E i \in 1..Len(looked) : w = looked[i].vertex) <=>
                        (\E i \in 1..Len(frames) : w = frames[i].vertex)
      BY <1>3, <1>4
    <3>2. \A w \in Vs : w \in visited <=> \/ \E i \in 1..Len(looked) : w = looked[i].vertex
                                          \/ \E j \in 1..Len(topoStack) : w = topoStack[j]
      BY <1>1, <3>1 DEF Depth
    <3>3. \A i \in 1..Len(looked), j \in 1..Len(topoStack) : looked[i].vertex # topoStack[j]
      <4>1. \A i \in 1..Len(frames), j \in 1..Len(topoStack) : frames[i].vertex # topoStack[j]
        BY <1>1 DEF Depth
      <4> QED  BY <4>1, <1>3, <1>4
    <3> QED  BY <1>1, <2>1, <3>2, <3>3, SameSearch DEF Depth
  <2>5. Marks' /\ Found'
    BY <1>1, <2>1, SameGraph DEF Marks, Found
  <2>6. AtRest' /\ Breadth' /\ Sorted'
    BY <1>1 DEF AtRest, Breadth, Sorted
  <2> QED  BY <2>2, <2>3, <2>4, <2>5, <2>6
<1>7. CASE v \notin visited
  <2>1. G!Enter(v, looked)
    BY <1>2, <1>3, <1>7 DEF G!LookDFS
  <2>2. start # NoVertex => v \in G!Reachable(start)
    <3>1. frames[1].vertex \in Vs /\ frames[1].vertex \in visited
      BY <1>1, <1>3, MetIs DEF Depth
    <3>2. PICK i \in 1..Len(Met) : frames[1].vertex = Met[i]
      BY <1>1, <3>1 DEF Marks
    <3>3. start # NoVertex => Met[i] \in G!Reachable(start)
      BY DEF Found
    <3> QED  BY <3>2, <3>3, <1>3, ReachesOn DEF GraphTypes
  <2>3. Len(looked) # 0 =>
          /\ adjList[looked[1].vertex][looked[1].seen] = v /\ G!Edge(looked[1].vertex, v)
          /\ \A m \in 1..looked[1].seen : adjList[looked[1].vertex][m] \in visited \cup {v}
    BY <1>3, <1>5
  <2>4. \A i \in 1..Len(looked) : i # 1 => looked[i] = frames[i]
    BY <1>3
  <2> QED  BY <2>1, <2>2, <2>3, <2>4, <1>1, <1>3, <1>4, <1>7, EnterKeeps
<1> QED  BY <1>6, <1>7

--------------------------------------------------------------------------------
\* DFSUtil returns: its vertex is through with its edges.
LEMMA ReturnDFSKeeps ==
  ASSUME GraphInv, G!ReturnDFS
  PROVE  GraphInv'
<1> USE DEF GraphInv
<1>1. /\ call \in {"DFS", "topologicalSort"} /\ frames # << >> /\ ~G!HasEdge
      /\ frames' = Tail(frames)
      /\ UNCHANGED <<adjList, call, start, visited, q, processed, order>>
  BY DEF G!ReturnDFS
<1>2. PICK u \in Vs, n \in Nat :
        /\ u = G!Top.vertex /\ u = frames[1].vertex /\ Len(frames) = n + 1
        /\ \A w \in Vs : G!Edge(u, w) => w \in visited
  <2>1. /\ Len(frames) - 1 \in Nat /\ G!Top = frames[1] /\ frames[1].vertex \in Vs
        /\ \A w \in Vs : G!Edge(frames[1].vertex, w) => w \in visited
        /\ Len(frames) = (Len(frames) - 1) + 1
    BY <1>1, AllSeen
  <2> QED  BY <2>1
<1>3. /\ frames' \in Seq([vertex : Vs, seen : Nat]) /\ Len(frames') = n
      /\ \A i \in 1..n : frames'[i] = frames[i + 1]
  <2>1. /\ Tail(frames) \in Seq([vertex : Vs, seen : Nat])
        /\ Len(Tail(frames)) = Len(frames) - 1
        /\ \A i \in 1..Len(frames) - 1 : Tail(frames)[i] = frames[i + 1]
    BY <1>1, TailIs DEF GraphTypes
  <2>2. Len(frames) - 1 = n
    BY <1>2
  <2> QED  BY <1>1, <2>1, <2>2
<1>4. PICK k \in Nat : k = Len(topoStack)
  BY MetIs
<1>5. topoStack' = <<u>> \o topoStack
  BY <1>2 DEF G!ReturnDFS
<1>6. /\ topoStack' \in Seq(Vs) /\ Len(topoStack') = k + 1 /\ topoStack'[1] = u
      /\ \A j \in 1..k : topoStack'[j + 1] = topoStack[j]
      /\ \A j \in 1..k + 1 : j # 1 => j - 1 \in 1..k /\ topoStack'[j] = topoStack[j - 1]
  <2>1. /\ topoStack' \in Seq(Vs) /\ Len(topoStack') = Len(topoStack) + 1 /\ topoStack'[1] = u
        /\ \A j \in 1..Len(topoStack) : topoStack'[j + 1] = topoStack[j]
        /\ \A j \in 1..Len(topoStack) + 1 : j # 1 => topoStack'[j] = topoStack[j - 1]
    BY <1>5, ConsIs DEF GraphTypes
  <2>2. \A j \in 1..k + 1 : j # 1 => j - 1 \in 1..k
    OBVIOUS
  <2> QED  BY <1>4, <2>1, <2>2
<1>7. \A i \in 1..n : i + 1 \in 1..Len(frames) /\ 1 < i + 1 /\ 1 \in 1..Len(frames)
  BY <1>2
<1>8. \A i \in 1..n : frames[i + 1].vertex # u /\ u \in G!Reachable(frames[i + 1].vertex)
  <2> SUFFICES ASSUME NEW i \in 1..n
               PROVE  frames[i + 1].vertex # u /\ u \in G!Reachable(frames[i + 1].vertex)
    OBVIOUS
  <2>1. i + 1 \in 1..Len(frames) /\ 1 < i + 1 /\ 1 \in 1..Len(frames)
    BY <1>7
  <2> QED  BY <2>1, <1>2 DEF Nested
<1>9. \A j \in 1..k : topoStack[j] # u
  <2> SUFFICES ASSUME NEW j \in 1..k  PROVE topoStack[j] # u
    OBVIOUS
  <2>1. 1 \in 1..Len(frames)
    BY <1>2
  <2> QED  BY <2>1, <1>1, <1>2, <1>4 DEF Depth
<1>10. GraphTypes'
  <2>1. \A i \in 1..n : frames'[i].seen <= Len(adjList[frames'[i].vertex])
    BY <1>3, <1>7 DEF GraphTypes
  <2> QED  BY <1>1, <1>3, <1>6, <2>1 DEF GraphTypes
<1>11. Nested'
  <2>1. ASSUME NEW i \in 1..n, NEW j \in 1..n, i < j
        PROVE  /\ frames'[i].vertex # frames'[j].vertex
               /\ frames'[i].vertex \in G!Reachable(frames'[j].vertex)
    <3>1. i + 1 \in 1..Len(frames) /\ j + 1 \in 1..Len(frames)
      BY <1>7
    <3>2. i + 1 < j + 1
      BY <2>1
    <3>3. /\ frames[i + 1].vertex # frames[j + 1].vertex
          /\ frames[i + 1].vertex \in G!Reachable(frames[j + 1].vertex)
      BY <3>1, <3>2 DEF Nested
    <3> QED  BY <3>3, <1>3
  <2>2. ASSUME NEW i \in 1..n - 1
        PROVE  adjList[frames'[i + 1].vertex][frames'[i + 1].seen] = frames'[i].vertex
    <3>1. i + 1 \in 1..Len(frames) - 1 /\ i \in 1..n /\ i + 1 \in 1..n
      BY <1>2
    <3>2. adjList[frames[(i + 1) + 1].vertex][frames[(i + 1) + 1].seen] = frames[i + 1].vertex
      BY <3>1 DEF Nested
    <3> QED  BY <3>1, <3>2, <1>3
  <2>3. ASSUME NEW i \in 1..n, NEW m \in 1..frames'[i].seen
        PROVE  adjList[frames'[i].vertex][m] \in visited
    BY <2>3, <1>3, <1>7 DEF Nested
  <2> QED  BY <1>1, <1>3, <2>1, <2>2, <2>3, SameGraph DEF Nested
<1>12. Depth'
  <2>1. ASSUME NEW w \in Vs
        PROVE  w \in visited <=> \/ \E i \in 1..n : w = frames'[i].vertex
                                 \/ \E j \in 1..k + 1 : w = topoStack'[j]
    <3>1. w \in visited <=> \/ \E i \in 1..Len(frames) : w = frames[i].vertex
                            \/ \E j \in 1..k : w = topoStack[j]
      BY <1>1, <1>4 DEF Depth
    <3>2. (\E i \in 1..Len(frames) : w = frames[i].vertex) <=>
            w = u \/ \E i \in 1..n : w = frames'[i].vertex
      <4>1. 1 \in 1..Len(frames)
        BY <1>2
      <4>2. \A i \in 1..Len(frames) : i # 1 => i - 1 \in 1..n /\ (i - 1) + 1 = i
        BY <1>2
      <4>3. ASSUME NEW i \in 1..Len(frames), w = frames[i].vertex
            PROVE  w = u \/ \E l \in 1..n : w = frames'[l].vertex
        <5>1. CASE i = 1
          BY <5>1, <4>3, <1>2
        <5>2. CASE i # 1
          <6>1. PICK l \in 1..n : l + 1 = i
            BY <5>2, <4>2
          <6>2. frames'[l] = frames[i]
            BY <6>1, <1>3
          <6> QED  BY <6>1, <6>2, <4>3
        <5> QED  BY <5>1, <5>2
      <4>4. ASSUME NEW l \in 1..n, w = frames'[l].vertex
            PROVE  \E i \in 1..Len(frames) : w = frames[i].vertex
        <5>1. l + 1 \in 1..Len(frames) /\ frames'[l] = frames[l + 1]
          BY <1>3, <1>7
        <5> QED  BY <5>1, <4>4
      <4> QED  BY <4>1, <4>3, <4>4, <1>2
    <3>3. (\E j \in 1..k + 1 : w = topoStack'[j]) <=> w = u \/ \E j \in 1..k : w = topoStack[j]
      <4>1. 1 \in 1..k + 1 /\ \A j \in 1..k : j + 1 \in 1..k + 1
        OBVIOUS
      <4> QED  BY <4>1, <1>6
    <3> QED  BY <3>1, <3>2, <3>3
  <2>2. ASSUME NEW i \in 1..k + 1, NEW j \in 1..k + 1, topoStack'[i] = topoStack'[j]
        PROVE  i = j
    <3>1. CASE i = 1 /\ j = 1
      BY <3>1
    <3>2. CASE i = 1 /\ j # 1
      BY <2>2, <3>2, <1>6, <1>9
    <3>3. CASE i # 1 /\ j = 1
      BY <2>2, <3>3, <1>6, <1>9
    <3>4. CASE i # 1 /\ j # 1
      <4>1. i - 1 \in 1..k /\ j - 1 \in 1..k /\ topoStack[i - 1] = topoStack[j - 1]
        BY <2>2, <3>4, <1>6
      <4>2. i - 1 = j - 1
        BY <4>1, <1>1, <1>4 DEF Depth
      <4> QED  BY <4>2
    <3> QED  BY <3>1, <3>2, <3>3, <3>4
  <2>3. ASSUME NEW i \in 1..n, NEW j \in 1..k + 1
        PROVE  frames'[i].vertex # topoStack'[j]
    <3>1. frames'[i].vertex = frames[i + 1].vertex /\ i + 1 \in 1..Len(frames)
      BY <1>3, <1>7
    <3>2. CASE j = 1
      BY <3>1, <3>2, <1>6, <1>8
    <3>3. CASE j # 1
      <4>1. j - 1 \in 1..k /\ topoStack'[j] = topoStack[j - 1]
        BY <3>3, <1>6
      <4>2. \A l \in 1..Len(frames), m \in 1..k : frames[l].vertex # topoStack[m]
        BY <1>1, <1>4 DEF Depth
      <4> QED  BY <3>1, <4>1, <4>2
    <3> QED  BY <3>2, <3>3
  <2>4. ASSUME NEW j \in 1..k + 1, NEW w \in Vs, G!Edge(topoStack'[j], w)
        PROVE  /\ w \in visited
               /\ \/ \E i \in 1..k + 1 : j < i /\ w = topoStack'[i]
                  \/ topoStack'[j] \in G!Reachable(w)
    <3>1. CASE j = 1
      <4>1. w \in visited
        BY <2>4, <3>1, <1>2, <1>6
      <4>2. CASE \E i \in 1..n : w = frames'[i].vertex
        BY <4>1, <4>2, <3>1, <1>3, <1>6, <1>8
      <4>3. CASE \E i \in 1..k + 1 : w = topoStack'[i]
        <5>1. PICK i \in 1..k + 1 : w = topoStack'[i]
          BY <4>3
        <5>2. CASE i = 1
          BY <4>1, <5>1, <5>2, <3>1, <1>6, ReachesItself
        <5>3. CASE i # 1
          <6>1. j < i
            BY <3>1, <5>3
          <6> QED  BY <4>1, <5>1, <6>1
        <5> QED  BY <5>2, <5>3
      <4> QED  BY <4>1, <4>2, <4>3, <2>1
    <3>2. CASE j # 1
      <4>1. j - 1 \in 1..k /\ topoStack'[j] = topoStack[j - 1]
        BY <3>2, <1>6
      <4>2. /\ w \in visited
            /\ \/ \E i \in 1..k : j - 1 < i /\ w = topoStack[i]
               \/ topoStack[j - 1] \in G!Reachable(w)
        BY <2>4, <4>1, <1>1, <1>4 DEF Depth, Below
      <4>3. ASSUME NEW i \in 1..k, j - 1 < i, w = topoStack[i]
            PROVE  \E l \in 1..k + 1 : j < l /\ w = topoStack'[l]
        <5>1. i + 1 \in 1..k + 1 /\ j < i + 1
          BY <4>3
        <5> QED  BY <5>1, <4>3, <1>6
      <4> QED  BY <4>1, <4>2, <4>3
    <3> QED  BY <3>1, <3>2
  <2>5. PICK top : top = topoStack'
    OBVIOUS
  <2>6. Below(top, visited)
    BY <2>4, <2>5, <1>6 DEF Below
  <2>7. Below(topoStack, visited)'
    <3>1. Below(top, visited)'
      BY <2>6, <1>1, SameSearch
    <3> QED  BY <3>1, <2>5, <1>1
  <2>8. q' = << >> /\ Len(frames') = n /\ Len(topoStack') = k + 1
    BY <1>1, <1>3, <1>6 DEF Depth
  <2> QED  BY <2>1, <2>2, <2>3, <2>7, <2>8, <1>1 DEF Depth
<1>13. Marks' /\ Found'
  BY <1>1, SameGraph DEF Marks, Found, Met
<1>14. AtRest' /\ Breadth' /\ Sorted'
  BY <1>1 DEF AtRest, Breadth, Sorted
<1> QED  BY <1>10, <1>11, <1>12, <1>13, <1>14

\* topologicalSort comes to the next vertex that is not marked.
LEMMA NextRootKeeps ==
  ASSUME GraphInv, G!NextRoot
  PROVE  GraphInv'
<1> USE DEF GraphInv
<1>1. PICK u \in Vs : u \notin visited /\ G!Enter(u, << >>)
  BY DEF G!NextRoot, Vs
<1>2. /\ call \in {"DFS", "topologicalSort"} /\ start = NoVertex /\ frames = << >>
      /\ UNCHANGED <<adjList, call, start, q, topoStack, order>>
  BY DEF G!NextRoot, Found
<1>3. PICK outer \in Seq([vertex : Vs, seen : Nat]) : outer = << >> /\ Len(outer) = 0
  BY EmptySeq
<1>4. Len(outer) = Len(frames) /\ (\A i \in 1..Len(outer) : FALSE) /\ G!Enter(u, outer)
  BY <1>1, <1>2, <1>3
<1> QED  BY <1>1, <1>2, <1>3, <1>4, EnterKeeps

\* A sequence that has every vertex once has V of them.
LEMMA AllOnce ==
  ASSUME NEW top \in Seq(Vs),
         \A i, j \in 1..Len(top) : top[i] = top[j] => i = j,
         \A v \in Vs : \E i \in 1..Len(top) : v = top[i]
  PROVE  Len(top) = V
<1>1. Len(top) \in Nat /\ top \in [1..Len(top) -> Vs]
  BY LenProperties, ElementOfSeq, SeqDef
<1>2. top \in Injection(1..Len(top), Vs) /\ top \in Surjection(1..Len(top), Vs)
  BY <1>1, Fun_IsInj, Fun_IsSurj
<1>3. /\ IsFiniteSet(1..Len(top)) /\ Cardinality(1..Len(top)) = Len(top)
      /\ IsFiniteSet(0..V - 1) /\ Cardinality(0..V - 1) = V
  <2>1. 1 \in Int /\ Len(top) \in Int /\ 0 \in Int /\ V - 1 \in Int /\ V \in Nat \ {0}
    BY <1>1, VerticesAre
  <2>2. /\ IsFiniteSet(1..Len(top)) /\ Cardinality(1..Len(top)) = IF 1 > Len(top) THEN 0 ELSE Len(top) - 1 + 1
        /\ IsFiniteSet(0..V - 1) /\ Cardinality(0..V - 1) = IF 0 > V - 1 THEN 0 ELSE V - 1 - 0 + 1
    BY <2>1, FS_Interval
  <2> QED  BY <1>1, <2>1, <2>2
<1> QED  BY <1>2, <1>3, VerticesAre, FS_Surjection

\* The call returns.
LEMMA ReturnKeeps ==
  ASSUME GraphInv, G!Return
  PROVE  GraphInv'
<1> USE DEF GraphInv
<1>1. /\ call # "none" /\ frames = << >> /\ q = << >> /\ call' = "none"
      /\ visited' = {} /\ topoStack' = << >>
      /\ UNCHANGED <<adjList, start, q, frames, processed>>
  BY DEF G!Return
<1>2. /\ call = "topologicalSort" => visited = Vs
      /\ order' = IF call = "topologicalSort" THEN topoStack ELSE << >>
  BY DEF G!Return, Vs
<1>3. GraphTypes'
  BY <1>1, <1>2, EmptySeq DEF GraphTypes
<1>4. AtRest' /\ Marks' /\ Nested' /\ Breadth' /\ Depth'
  <2>1. Met' = Met /\ Len(frames) = 0
    BY <1>1 DEF Met
  <2> QED  BY <1>1, <2>1 DEF AtRest, Marks, Nested, Breadth, Depth
<1>5. Len(frames) = 0 /\ (\A i \in 1..Len(frames) : FALSE)
  BY <1>1
<1>6. Found'
  <2>1. ASSUME start # NoVertex, NEW v \in G!Reachable(start)
        PROVE  \E i \in 1..Len(Met) : v = Met[i]
    <3>1. call \in {"BFS", "DFS"} /\ start \in visited /\ visited \in SUBSET Vs
      BY <1>1, <2>1 DEF Found, GraphTypes
    <3>2. ASSUME NEW w \in visited, NEW x, G!Edge(w, x)  PROVE x \in visited
      <4>1. x \in Vs /\ w \in Vs
        BY <3>1, <3>2, EdgeIs DEF GraphTypes
      <4>2. CASE call = "BFS"
        <5>1. PICK k \in 1..Len(Met) : w = Met[k]
          BY <4>1, <3>2, <1>1 DEF Marks
        <5>2. k < Current
          <6>1. Met = processed /\ Len(processed) \in Nat
            BY <1>1, MetIs
          <6>2. Current = Len(processed) + 1
            BY <1>1 DEF Current
          <6> QED  BY <6>1, <6>2
        <5>3. Through(Met, Current, visited)
          BY <4>2 DEF Breadth
        <5> QED  BY <4>1, <5>1, <5>2, <5>3, <3>2 DEF Through
      <4>3. CASE call = "DFS"
        <5>1. PICK j \in 1..Len(topoStack) : w = topoStack[j]
          BY <4>1, <4>3, <3>2, <1>5 DEF Depth
        <5> QED  BY <4>1, <4>3, <5>1, <3>2 DEF Depth, Below
      <4> QED  BY <4>2, <4>3, <3>1
    <3>3. v \in visited /\ v \in Vs
      BY <2>1, <3>1, <3>2, ReachesNoMore
    <3> QED  BY <3>3, <1>1 DEF Marks
  <2>2. Met' = Met
    BY <1>1 DEF Met
  <2> QED  BY <1>1, <2>1, <2>2, SameGraph DEF Found
<1>7. Sorted'
  <2>1. ASSUME call = "topologicalSort"  PROVE InOrder(topoStack)
    <3>1. \A v \in Vs : \E i \in 1..Len(topoStack) : v = topoStack[i]
      BY <2>1, <1>2, <1>5 DEF Depth
    <3>2. Len(topoStack) = V
      BY <2>1, <3>1, AllOnce DEF Depth, GraphTypes
    <3>3. ASSUME NEW i \in 1..Len(topoStack), NEW j \in 1..Len(topoStack), i < j,
                 G!Edge(topoStack[j], topoStack[i])
          PROVE  topoStack[j] \in G!Reachable(topoStack[i])
      <4>1. topoStack[i] \in Vs /\ Len(topoStack) \in Nat
        BY MetIs
      <4>2. \A l \in 1..Len(topoStack) : topoStack[i] = topoStack[l] => i = l
        BY <2>1 DEF Depth
      <4>3. ~ \E l \in 1..Len(topoStack) : j < l /\ topoStack[i] = topoStack[l]
        BY <3>3, <4>1, <4>2
      <4> QED  BY <2>1, <3>3, <4>1, <4>3 DEF Depth, Below
    <3> QED  BY <3>1, <3>2, <3>3 DEF InOrder
  <2>2. PICK top : top = topoStack
    OBVIOUS
  <2>3. InOrder(top)' <=> InOrder(top)
    BY <1>1, SameGraph DEF InOrder
  <2>4. CASE call = "topologicalSort"
    BY <1>1, <1>2, <2>1, <2>2, <2>3, <2>4 DEF Sorted
  <2>5. CASE call # "topologicalSort"
    BY <1>2, <2>5 DEF Sorted
  <2> QED  BY <2>4, <2>5
<1> QED  BY <1>3, <1>4, <1>6, <1>7

--------------------------------------------------------------------------------
LEMMA OneMet ==
  ASSUME NEW u \in Vs
  PROVE  /\ <<u>> \o << >> = <<u>> /\ << >> \o <<u>> = <<u>> /\ << >> \o << >> = << >>
         /\ Len(<<u>>) = 1 /\ <<u>>[1] = u /\ <<u>> \in Seq(Vs) /\ << >> \in Seq(Vs)
<1>1. <<u>> \in Seq(Vs) /\ << >> \in Seq(Vs)
  OBVIOUS
<1> QED  BY <1>1, ConcatEmptySeq

\* A search begins.
LEMMA BFSKeeps ==
  ASSUME GraphInv, NEW u \in Vs, G!BFS(u)
  PROVE  GraphInv'
<1> USE DEF GraphInv
<1>1. /\ call = "none" /\ call' = "BFS" /\ start' = u /\ order' = << >>
      /\ visited' = {u} /\ q' = <<u>> /\ processed' = << >>
      /\ UNCHANGED <<adjList, frames, topoStack>>
  BY DEF G!BFS, G!Begin
<1>2. frames = << >> /\ topoStack = << >>
  BY <1>1 DEF AtRest
<1>3. Met' = <<u>> /\ Len(Met') = 1 /\ Met'[1] = u
  BY <1>1, OneMet DEF Met
<1>4. Current' = 1
  BY <1>1, <1>2 DEF Current
<1>5. GraphTypes'
  <2>1. <<u>> \in Seq(Vs) /\ << >> \in Seq(Vs)
    BY OneMet
  <2> QED  BY <1>1, <2>1 DEF GraphTypes
<1>6. Marks'
  BY <1>1, <1>3 DEF Marks
<1>7. Breadth'
  <2>1. PICK from, marked, met : from = start' /\ marked = visited' /\ met = Met'
    OBVIOUS
  <2>2. Through(met, 1, marked) /\ NearerFirst(from, met) /\ OneFurther(from, met, 1)
    BY <2>1, <1>3 DEF Through, NearerFirst, OneFurther
  <2>3. Through(met, 1, marked)' /\ NearerFirst(from, met)' /\ OneFurther(from, met, 1)'
    BY <2>2, <1>1, SameSearch
  <2>4. Through(Met, Current, visited)' /\ NearerFirst(start, Met)' /\ OneFurther(start, Met, Current)'
    BY <2>1, <2>3, <1>3, <1>4
  <2> QED  BY <2>4, <1>1, <1>2 DEF Breadth
<1>8. Found'
  <2>1. u \in G!Reachable(u)
    BY ReachesItself
  <2> QED  BY <2>1, <1>1, <1>3, SameGraph DEF Found
<1>9. Nested' /\ AtRest' /\ Depth' /\ Sorted'
  BY <1>1, <1>2 DEF Nested, AtRest, Depth, Sorted
<1> QED  BY <1>5, <1>6, <1>7, <1>8, <1>9

LEMMA DFSKeeps ==
  ASSUME GraphInv, NEW u \in Vs, G!DFS(u)
  PROVE  GraphInv'
<1> USE DEF GraphInv
<1>1. /\ call = "none" /\ call' = "DFS" /\ start' = u /\ order' = << >>
      /\ visited' = {u} /\ processed' = <<u>> /\ frames' = <<G!Frame(u)>>
      /\ UNCHANGED <<adjList, q, topoStack>>
  BY DEF G!DFS, G!Begin
<1>2. q = << >> /\ topoStack = << >>
  BY <1>1 DEF AtRest
<1>3. Met' = <<u>> /\ Len(Met') = 1 /\ Met'[1] = u
  BY <1>1, <1>2, OneMet DEF Met
<1>4. /\ Len(frames') = 1 /\ frames'[1].vertex = u /\ frames'[1].seen = 0
      /\ frames' \in Seq([vertex : Vs, seen : Nat])
  BY <1>1 DEF G!Frame
<1>5. GraphTypes'
  <2>1. <<u>> \in Seq(Vs) /\ << >> \in Seq(Vs)
    BY OneMet
  <2>2. \A i \in 1..Len(frames') : frames'[i].seen <= Len(adjList'[frames'[i].vertex])
    BY <1>1, <1>4, EdgeIs DEF GraphTypes
  <2> QED  BY <1>1, <1>4, <2>1, <2>2 DEF GraphTypes
<1>6. Marks'
  BY <1>1, <1>3 DEF Marks
<1>7. Nested'
  BY <1>4 DEF Nested
<1>8. Depth'
  <2>1. Below(topoStack, visited)' /\ Len(topoStack') = 0
    BY <1>1, <1>2 DEF Below
  <2> QED  BY <1>1, <1>2, <1>4, <2>1 DEF Depth
<1>9. Found'
  <2>1. u \in G!Reachable(u)
    BY ReachesItself
  <2> QED  BY <2>1, <1>1, <1>3, SameGraph DEF Found
<1>10. AtRest' /\ Breadth' /\ Sorted'
  BY <1>1 DEF AtRest, Breadth, Sorted
<1> QED  BY <1>5, <1>6, <1>7, <1>8, <1>9, <1>10

LEMMA TopologicalSortKeeps ==
  ASSUME GraphInv, G!topologicalSort
  PROVE  GraphInv'
<1> USE DEF GraphInv
<1>1. /\ call = "none" /\ call' = "topologicalSort" /\ start' = NoVertex /\ order' = << >>
      /\ processed' = << >> /\ UNCHANGED <<adjList, visited, q, frames, topoStack>>
  BY DEF G!topologicalSort, G!Begin
<1>2. visited = {} /\ q = << >> /\ frames = << >> /\ topoStack = << >>
  BY <1>1 DEF AtRest
<1>3. Met' = << >> /\ Len(Met') = 0
  BY <1>1, <1>2, ConcatEmptySeq DEF Met
<1>4. GraphTypes'
  BY <1>1, EmptySeq DEF GraphTypes
<1>5. Nested' /\ Marks' /\ Found'
  BY <1>1, <1>2, <1>3 DEF Nested, Marks, Found
<1>6. Depth'
  <2>1. Below(topoStack, visited)' /\ Len(topoStack') = 0 /\ Len(frames') = 0
    BY <1>1, <1>2 DEF Below
  <2> QED  BY <1>1, <1>2, <2>1 DEF Depth
<1>7. AtRest' /\ Breadth' /\ Sorted'
  BY <1>1 DEF AtRest, Breadth, Sorted
<1> QED  BY <1>4, <1>5, <1>6, <1>7

LEMMA AddEdgeKeeps ==
  ASSUME GraphInv, NEW u \in Vs, NEW v \in Vs, G!addEdge(u, v)
  PROVE  GraphInv'
<1> USE DEF GraphInv
<1>1. /\ call = "none" /\ start' = NoVertex /\ processed' = << >> /\ order' = << >>
      /\ adjList' = [adjList EXCEPT ![u] = Append(@, v)]
      /\ UNCHANGED <<call, visited, q, frames, topoStack>>
  BY DEF G!addEdge
<1>2. visited = {} /\ q = << >> /\ frames = << >> /\ topoStack = << >>
  BY <1>1 DEF AtRest
<1>3. Met' = << >> /\ Len(Met') = 0 /\ Len(frames') = 0
  BY <1>1, <1>2, ConcatEmptySeq DEF Met
<1>4. GraphTypes'
  <2>1. adjList \in [Vs -> Seq(Vs)] /\ Append(adjList[u], v) \in Seq(Vs)
    BY AppendProperties DEF GraphTypes
  <2>2. adjList' \in [Vs -> Seq(Vs)]
    BY <2>1, <1>1
  <2> QED  BY <1>1, <1>3, <2>2, EmptySeq DEF GraphTypes
<1>5. Nested' /\ Marks' /\ Found'
  BY <1>1, <1>3 DEF Nested, Marks, Found
<1>6. AtRest' /\ Breadth' /\ Depth' /\ Sorted'
  BY <1>1, <1>2 DEF AtRest, Breadth, Depth, Sorted
<1> QED  BY <1>4, <1>5, <1>6

LEMMA GraphStays ==
  ASSUME GraphInv, UNCHANGED G!vars
  PROVE  GraphInv'
<1> USE DEF GraphInv
<1>1. UNCHANGED <<adjList, call, start, visited, q, frames, topoStack, processed, order>>
  BY DEF G!vars, G!callVars
<1>2. Met' = Met /\ Current' = Current
  BY <1>1 DEF Met, Current
<1>3. GraphTypes' /\ AtRest' /\ Marks'
  BY <1>1, <1>2 DEF GraphTypes, AtRest, Marks
<1>4. Nested'
  BY <1>1, SameGraph DEF Nested
<1>5. Found'
  BY <1>1, <1>2, SameGraph DEF Found
<1>6. Breadth' /\ Depth'
  BY <1>1, <1>2, SameSearch DEF Breadth, Depth
<1>7. Sorted'
  <2>1. PICK top : top = order
    OBVIOUS
  <2>2. InOrder(top)' <=> InOrder(top)
    BY <1>1, SameGraph DEF InOrder
  <2> QED  BY <2>1, <2>2, <1>1 DEF Sorted
<1> QED  BY <1>3, <1>4, <1>5, <1>6, <1>7

LEMMA GraphStarts == G!Init => GraphInv
<1> SUFFICES ASSUME G!Init  PROVE GraphInv
  OBVIOUS
<1>1. /\ adjList = [u \in Vs |-> << >>] /\ call = "none" /\ start = NoVertex
      /\ visited = {} /\ q = << >> /\ frames = << >> /\ topoStack = << >>
      /\ processed = << >> /\ order = << >>
  BY DEF G!Init, Vs
<1>2. Met = << >> /\ Len(Met) = 0
  BY <1>1, ConcatEmptySeq DEF Met
<1>3. GraphTypes
  BY <1>1, EmptySeq DEF GraphTypes
<1>4. AtRest /\ Marks /\ Nested /\ Breadth /\ Depth /\ Found /\ Sorted
  BY <1>1, <1>2 DEF AtRest, Marks, Nested, Breadth, Depth, Found, Sorted
<1> QED  BY <1>3, <1>4 DEF GraphInv

LEMMA GraphStep == GraphInv /\ [G!Next]_(G!vars) => GraphInv'
<1> SUFFICES ASSUME GraphInv, [G!Next]_(G!vars)  PROVE GraphInv'
  OBVIOUS
<1>1. CASE UNCHANGED G!vars
  BY <1>1, GraphStays
<1>2. CASE \E u, v \in G!Vertices : G!addEdge(u, v)
  BY <1>2, AddEdgeKeeps DEF Vs
<1>3. CASE \E u \in G!Vertices : G!BFS(u) \/ G!DFS(u)
  BY <1>3, BFSKeeps, DFSKeeps DEF Vs
<1>4. CASE G!topologicalSort
  BY <1>4, TopologicalSortKeeps
<1>5. CASE G!Step
  <2>1. CASE G!TakeNext
    BY <2>1, TakeNextKeeps
  <2>2. CASE G!LookBFS
    BY <2>2, LookBFSKeeps
  <2>3. CASE G!EndLoopBFS
    BY <2>3, EndLoopBFSKeeps
  <2>4. CASE G!LookDFS
    BY <2>4, LookDFSKeeps
  <2>5. CASE G!ReturnDFS
    BY <2>5, ReturnDFSKeeps
  <2>6. CASE G!NextRoot
    BY <2>6, NextRootKeeps
  <2>7. CASE G!Return
    BY <2>7, ReturnKeeps
  <2> QED  BY <1>5, <2>1, <2>2, <2>3, <2>4, <2>5, <2>6, <2>7 DEF G!Step
<1> QED  BY <1>1, <1>2, <1>3, <1>4, <1>5 DEF G!Next

(***************************************************************************)
(* GraphInv holds of every behaviour: nested calls of DFSUtil are along a  *)
(* path, what BFS has met is in the order of distance, and every vertex    *)
(* that a search is through with has had all its edges looked at.          *)
(***************************************************************************)
THEOREM GraphInvariance == G!Spec => []GraphInv
BY GraphStarts, GraphStep, PTL DEF G!Spec

LEMMA SearchesFound == GraphInv => SearchesExactly
<1> SUFFICES ASSUME GraphInv  PROVE SearchesExactly
  OBVIOUS
<1> USE DEF GraphInv
<1>1. /\ DOMAIN Met = 1..Len(Met) /\ Len(Met) \in Nat /\ \A i \in 1..Len(Met) : Met[i] \in Vs
      /\ (q = << >> => Met = processed)
  BY MetIs
<1>2. G!ToSet(Met) = {Met[i] : i \in 1..Len(Met)}
  BY <1>1 DEF G!ToSet
<1>3. G!Consistent
  <2>1. G!IsInjective(Met)
    BY <1>1 DEF Marks, G!IsInjective
  <2>2. call # "none" => visited = G!ToSet(Met)
    <3>1. visited \subseteq Vs /\ G!ToSet(Met) \subseteq Vs
      BY <1>1, <1>2 DEF GraphTypes
    <3> QED  BY <3>1, <1>2 DEF Marks
  <2> QED  BY <2>1, <2>2 DEF G!Consistent, Nested, Met
<1>4. start # NoVertex => G!ToSet(Met) \subseteq G!Reachable(start)
  BY <1>2 DEF Found
<1>5. start # NoVertex /\ call = "none" => G!ToSet(processed) = G!Reachable(start)
  <2> SUFFICES ASSUME start # NoVertex, call = "none"
               PROVE  G!ToSet(Met) = G!Reachable(start)
    BY <1>1 DEF AtRest
  <2>1. G!Reachable(start) \subseteq G!ToSet(Met)
    BY <1>2 DEF Found
  <2> QED  BY <2>1, <1>4
<1>6. call = "BFS" => G!NearestFirst
  <2>1. call = "BFS" => NearerFirst(start, Met)
    BY DEF Breadth
  <2>2. \A n \in 0..V - 1 : n \in Nat
    OBVIOUS
  <2> QED  BY <2>1, <2>2, <1>1 DEF NearerFirst, G!NearestFirst, Met
<1> QED  BY <1>3, <1>4, <1>5, <1>6 DEF SearchesExactly, G!SearchesExactly, Met

LEMMA SortFound == GraphInv => SortsTopologically
<1> SUFFICES ASSUME GraphInv, order # << >>
             PROVE  /\ Len(order) = V /\ G!ToSet(order) = G!Vertices
                    /\ \A i, j \in DOMAIN order :
                         order[i] \in G!ToSet(adjList[order[j]]) /\ i < j =>
                           order[j] \in G!Reachable(order[i])
  BY DEF SortsTopologically, G!SortsTopologically
<1>1. InOrder(order) /\ order \in Seq(Vs)
  BY DEF GraphInv, Sorted, GraphTypes
<1>2. DOMAIN order = 1..Len(order) /\ \A i \in 1..Len(order) : order[i] \in Vs
  BY <1>1, ElementOfSeq
<1>3. G!ToSet(order) = Vs
  BY <1>1, <1>2 DEF G!ToSet, InOrder
<1> QED  BY <1>1, <1>2, <1>3 DEF InOrder, G!Edge, Vs

(***************************************************************************)
(* On every graph BFS and DFS print each vertex that can be reached from   *)
(* their start once and no other, and BFS prints the nearer ones first.    *)
(***************************************************************************)
THEOREM SearchesFindExactly == G!Spec => []SearchesExactly
BY GraphInvariance, SearchesFound, PTL

(***************************************************************************)
(* On every graph topologicalSort prints each vertex once, the tail of an  *)
(* edge before its head unless the edge is on a cycle.                     *)
(***************************************************************************)
THEOREM SortIsTopological == G!Spec => []SortsTopologically
BY GraphInvariance, SortFound, PTL

--------------------------------------------------------------------------------
(***************************************************************************)
(* The priority cache.                                                     *)
(***************************************************************************)

(***************************************************************************)
(* In a store, the keys of S have live nodes, with the items la says were  *)
(* set last.  Nothing is said of the lists: what is read from freed memory *)
(* and what Evict picks can do as they like with them.                     *)
(***************************************************************************)
Holds(store, S, la) ==
  /\ IsFiniteSet(DOMAIN store.item)
  /\ \A k \in S : /\ store.cache[k] \in DOMAIN store.item
                  /\ store.item[store.cache[k]] = la[k]
                  /\ la[k].key = k

PrioInv == DOMAIN last = DOMAIN cache /\ Holds(Prio!Stored, DOMAIN cache, last)

LEMMA StoreIs ==
  ASSUME NEW ls, NEW it, NEW ca
  PROVE  /\ Prio!Store(ls, it, ca).lists = ls
         /\ Prio!Store(ls, it, ca).item = it
         /\ Prio!Store(ls, it, ca).cache = ca
BY DEF Prio!Store

\* A name for a new node can be chosen.
LEMMA ANodeIsFree ==
  ASSUME NEW S, IsFiniteSet(S)
  PROVE  \E m \in 1..Cardinality(S) + 1 : m \notin S
<1>1. PICK n \in Nat : n = Cardinality(S)
  BY FS_CardinalityType
<1>2. IsFiniteSet(1..n + 1) /\ Cardinality(1..n + 1) = n + 1
  <2>1. 1 \in Int /\ n + 1 \in Int
    OBVIOUS
  <2>2. /\ IsFiniteSet(1..n + 1)
        /\ Cardinality(1..n + 1) = IF 1 > n + 1 THEN 0 ELSE n + 1 - 1 + 1
    BY <2>1, FS_Interval
  <2> QED  BY <2>2
<1>3. ASSUME 1..n + 1 \subseteq S  PROVE FALSE
  <2>1. Cardinality(1..n + 1) <= Cardinality(S)
    BY <1>3, FS_Subset
  <2> QED  BY <2>1, <1>1, <1>2
<1> QED  BY <1>1, <1>3

\* A node that is erased takes its key's item with it and no other.
LEMMA RemovedHolds ==
  ASSUME PrioInv, NEW key \in DOMAIN cache, NEW freed
  PROVE  /\ Holds(Prio!Removed(cache[key], freed), DOMAIN cache \ {key}, last)
         /\ Prio!Removed(cache[key], freed).cache = cache
<1> DEFINE left == [m \in DOMAIN item \ {cache[key]} |-> item[m]]
<1>1. /\ Prio!Removed(cache[key], freed).item = left
      /\ Prio!Removed(cache[key], freed).cache = cache
  BY StoreIs DEF Prio!Removed
<1>2. /\ IsFiniteSet(DOMAIN item)
      /\ \A k \in DOMAIN cache : /\ cache[k] \in DOMAIN item
                                 /\ item[cache[k]] = last[k] /\ last[k].key = k
  BY StoreIs DEF PrioInv, Holds, Prio!Stored
<1>3. IsFiniteSet(DOMAIN left)
  BY <1>2, FS_Subset
<1>4. \A k \in DOMAIN cache \ {key} : cache[k] # cache[key]
  BY <1>2
<1>5. \A k \in DOMAIN cache \ {key} : cache[k] \in DOMAIN left /\ left[cache[k]] = last[k]
  BY <1>2, <1>4
<1> HIDE DEF left
<1> QED  BY <1>1, <1>2, <1>3, <1>5 DEF Holds

\* Nodes that go without their lists' consent take the keys of their items along.
LEMMA WithoutHolds ==
  ASSUME NEW store, NEW nodes, NEW la, Holds(store, DOMAIN store.cache, la)
  PROVE  /\ DOMAIN Prio!Without(store, nodes).cache \subseteq DOMAIN store.cache
         /\ Holds(Prio!Without(store, nodes), DOMAIN Prio!Without(store, nodes).cache, la)
<1> DEFINE it == [n \in DOMAIN store.item \ nodes |-> store.item[n]]
           ca == [k \in DOMAIN store.cache \ {store.item[n].key : n \in nodes} |-> store.cache[k]]
<1>1. Prio!Without(store, nodes).item = it /\ Prio!Without(store, nodes).cache = ca
  BY StoreIs DEF Prio!Without
<1>2. IsFiniteSet(DOMAIN it)
  BY FS_Subset DEF Holds
<1>3. DOMAIN ca \subseteq DOMAIN store.cache
  OBVIOUS
<1>4. ASSUME NEW k \in DOMAIN ca
      PROVE  ca[k] \in DOMAIN it /\ it[ca[k]] = la[k] /\ la[k].key = k
  <2>1. /\ store.cache[k] \in DOMAIN store.item /\ store.item[store.cache[k]] = la[k]
        /\ la[k].key = k
    BY <1>4 DEF Holds
  <2>2. store.cache[k] \notin nodes
    BY <2>1, <1>4
  <2> QED  BY <2>1, <2>2, <1>4
<1> HIDE DEF it, ca
<1> QED  BY <1>1, <1>2, <1>3, <1>4 DEF Holds

LEMMA EvictedHolds ==
  ASSUME PrioInv
  PROVE  /\ DOMAIN Prio!Evicted.cache \subseteq DOMAIN cache
         /\ Holds(Prio!Evicted, DOMAIN Prio!Evicted.cache, last)
<1>1. Prio!Stored.cache = cache /\ Holds(Prio!Stored, DOMAIN Prio!Stored.cache, last)
  BY StoreIs DEF PrioInv, Prio!Stored
<1>2. PICK store : /\ store = Prio!EvictExpired
                   /\ DOMAIN store.cache \subseteq DOMAIN cache
                   /\ Holds(store, DOMAIN store.cache, last)
  BY <1>1, WithoutHolds DEF Prio!EvictExpired
<1>3. /\ DOMAIN Prio!EvictLowest(store).cache \subseteq DOMAIN cache
      /\ Holds(Prio!EvictLowest(store), DOMAIN Prio!EvictLowest(store).cache, last)
  <2>1. /\ Prio!Cleaned(store).item = store.item /\ Prio!Cleaned(store).cache = store.cache
        /\ \A n : /\ Prio!Cleaned(Prio!Without(store, {n})).item = Prio!Without(store, {n}).item
                  /\ Prio!Cleaned(Prio!Without(store, {n})).cache = Prio!Without(store, {n}).cache
    BY StoreIs DEF Prio!Cleaned
  <2>2. CASE Prio!InUse(store) = {}
    <3>1. Prio!EvictLowest(store) = Prio!Cleaned(store)
      BY <2>2 DEF Prio!EvictLowest
    <3> QED  BY <2>1, <3>1, <1>2 DEF Holds
  <2>3. CASE Prio!InUse(store) # {}
    <3>1. PICK n : Prio!EvictLowest(store) = Prio!Cleaned(Prio!Without(store, {n}))
      BY <2>3 DEF Prio!EvictLowest
    <3>2. /\ DOMAIN Prio!Without(store, {n}).cache \subseteq DOMAIN store.cache
          /\ Holds(Prio!Without(store, {n}), DOMAIN Prio!Without(store, {n}).cache, last)
      BY <1>2, WithoutHolds
    <3>3. PICK left, ev :
            /\ left = Prio!Without(store, {n}) /\ ev = Prio!EvictLowest(store)
            /\ ev.item = left.item /\ ev.cache = left.cache
      BY <2>1, <3>1
    <3>4. DOMAIN left.cache \subseteq DOMAIN cache /\ Holds(left, DOMAIN left.cache, last)
      BY <3>2, <3>3, <1>2
    <3>5. Holds(ev, DOMAIN ev.cache, last)
      BY <3>3, <3>4 DEF Holds
    <3>6. DOMAIN ev.cache \subseteq DOMAIN cache
      BY <3>3, <3>4
    <3> QED  BY <3>3, <3>5, <3>6
  <2> QED  BY <2>2, <2>3
<1> QED  BY <1>2, <1>3 DEF Prio!Evicted

\* A pushed item is the one of its key, and the others stay.
PushFits(store, key, it, la) ==
  /\ Holds(store, DOMAIN store.cache \ {key}, la)
  /\ it.key = key

\* What was set last, once it was set.
Over(store, key, it, la) ==
  [k \in DOMAIN store.cache \cup {key} |-> IF k = key THEN it ELSE la[k]]

PushHolds(store, key, pushed, la2) ==
  /\ DOMAIN pushed.cache = DOMAIN store.cache \cup {key}
  /\ Holds(pushed, DOMAIN store.cache \cup {key}, la2)

LEMMA PushedHolds ==
  ASSUME NEW store, NEW key, NEW it, NEW la, PushFits(store, key, it, la)
  PROVE  PushHolds(store, key, Prio!Pushed(store, key, it), Over(store, key, it, la))
<1>0. PICK la2 : /\ la2 = Over(store, key, it, la)
                 /\ la2[key] = it
                 /\ \A k \in DOMAIN store.cache \ {key} : la2[k] = la[k]
  <2>1. /\ Over(store, key, it, la)[key] = it
        /\ \A k \in DOMAIN store.cache \ {key} : Over(store, key, it, la)[k] = la[k]
    BY DEF Over
  <2> QED  BY <2>1
<1>1. PICK n : n = Prio!NewNode(store.item) /\ n \notin DOMAIN store.item
  BY ANodeIsFree DEF PushFits, Holds, Prio!NewNode
<1> DEFINE im == [m \in DOMAIN store.item \cup {n} |-> IF m = n THEN it ELSE store.item[m]]
           ca == [j \in DOMAIN store.cache \cup {key} |-> IF j = key THEN n ELSE store.cache[j]]
<1>2. /\ Prio!Pushed(store, key, it).item = im
      /\ Prio!Pushed(store, key, it).cache = ca
  BY <1>1, StoreIs DEF Prio!Pushed
<1>3. IsFiniteSet(DOMAIN im)
  BY FS_AddElement DEF PushFits, Holds
<1>4. ASSUME NEW k \in DOMAIN store.cache \cup {key}
      PROVE  ca[k] \in DOMAIN im /\ im[ca[k]] = la2[k] /\ la2[k].key = k
  <2>1. CASE k = key
    BY <2>1, <1>0 DEF PushFits
  <2>2. CASE k # key
    <3>1. /\ store.cache[k] \in DOMAIN store.item
          /\ store.item[store.cache[k]] = la2[k] /\ la2[k].key = k
      BY <2>2, <1>0, <1>4 DEF PushFits, Holds
    <3> QED  BY <3>1, <2>2, <1>1, <1>4
  <2> QED  BY <2>1, <2>2
<1>5. DOMAIN ca = DOMAIN store.cache \cup {key}
  OBVIOUS
<1> HIDE DEF im, ca
<1>6. PICK pushed : /\ pushed = Prio!Pushed(store, key, it)
                    /\ pushed.item = im /\ pushed.cache = ca
  BY <1>2
<1>7. PushHolds(store, key, pushed, la2)
  BY <1>3, <1>4, <1>5, <1>6 DEF PushHolds, Holds
<1> QED  BY <1>0, <1>6, <1>7

--------------------------------------------------------------------------------
\* The invariant after a step, from what it made of the store.
LEMMA PrioInvNext ==
  ASSUME NEW store, Prio!Becomes(store), DOMAIN last' = DOMAIN store.cache,
         Holds(store, DOMAIN store.cache, last')
  PROVE  PrioInv'
<1>1. lists' = store.lists /\ item' = store.item /\ cache' = store.cache
  BY DEF Prio!Becomes
<1>2. /\ IsFiniteSet(DOMAIN item') /\ DOMAIN last' = DOMAIN cache'
      /\ \A k \in DOMAIN cache' : /\ cache'[k] \in DOMAIN item'
                                  /\ item'[cache'[k]] = last'[k] /\ last'[k].key = k
  BY <1>1 DEF Holds
<1> QED  BY <1>2, StoreIs DEF PrioInv, Holds, Prio!Stored, Prio!Store

LEMMA PrioInvIs ==
  ASSUME PrioInv
  PROVE  /\ IsFiniteSet(DOMAIN item) /\ DOMAIN last = DOMAIN cache
         /\ \A k \in DOMAIN cache : /\ cache[k] \in DOMAIN item
                                    /\ item[cache[k]] = last[k] /\ last[k].key = k
BY StoreIs DEF PrioInv, Holds, Prio!Stored

LEMMA GetKeeps ==
  ASSUME PrioInv, NEW key \in Keys, Prio!Get(key)
  PROVE  PrioInv'
<1>1. CASE Prio!GetAbsent(key)
  <2>1. UNCHANGED <<lists, item, cache, last>>
    BY <1>1 DEF Prio!GetAbsent, Prio!storeVars
  <2> QED  BY <2>1 DEF PrioInv, Holds, Prio!Stored, Prio!Store
<1>2. CASE Prio!GetExpired(key)
  <2>1. key \in DOMAIN cache
    BY <1>2 DEF Prio!GetExpired
  <2>2. PICK freed, left, store :
          /\ left = Prio!Removed(cache[key], freed)
          /\ store = Prio!Store(left.lists, left.item, [k \in DOMAIN cache \ {key} |-> cache[k]])
          /\ Prio!Becomes(store)
    BY <1>2 DEF Prio!GetExpired
  <2>3. /\ store.item = left.item
        /\ store.cache = [k \in DOMAIN cache \ {key} |-> cache[k]]
    BY <2>2, StoreIs
  <2>4. Holds(left, DOMAIN cache \ {key}, last) /\ left.cache = cache
    BY <2>1, <2>2, RemovedHolds
  <2>5. cache' = store.cache /\ last' = [k \in DOMAIN cache' |-> last[k]]
    BY <1>2, <2>2 DEF Prio!GetExpired, Prio!Forget, Prio!Becomes
  <2>6. Holds(store, DOMAIN store.cache, last')
    BY <2>3, <2>4, <2>5 DEF Holds
  <2> QED  BY <2>2, <2>5, <2>6, PrioInvNext
<1>3. CASE Prio!GetHit(key)
  <2>1. UNCHANGED <<item, cache, last>>
    BY <1>3 DEF Prio!GetHit
  <2> QED  BY <2>1, StoreIs, PrioInvIs DEF PrioInv, Holds, Prio!Stored, Prio!Store
<1>4. CASE Prio!GetDamaged
  <2>1. UNCHANGED <<lists, item, cache, last>>
    BY <1>4 DEF Prio!GetDamaged, Prio!storeVars
  <2> QED  BY <2>1 DEF PrioInv, Holds, Prio!Stored, Prio!Store
<1> QED  BY <1>1, <1>2, <1>3, <1>4 DEF Prio!Get

LEMMA SetKeeps ==
  ASSUME PrioInv, NEW key, NEW it, it.key = key, Prio!Set(key, it)
  PROVE  PrioInv'
<1>1. PICK store :
        /\ Prio!Becomes(Prio!Pushed(store, key, it))
        /\ DOMAIN store.cache \subseteq DOMAIN cache
        /\ Holds(store, DOMAIN store.cache \ {key}, last)
  <2>1. CASE key \in DOMAIN cache
    <3>1. PICK freed : Prio!Becomes(Prio!Pushed(Prio!Removed(cache[key], freed), key, it))
      BY <2>1 DEF Prio!Set
    <3>2. /\ Holds(Prio!Removed(cache[key], freed), DOMAIN cache \ {key}, last)
          /\ Prio!Removed(cache[key], freed).cache = cache
      BY <2>1, RemovedHolds
    <3> QED  BY <3>1, <3>2
  <2>2. CASE key \notin DOMAIN cache
    <3>1. \/ Prio!Becomes(Prio!Pushed(Prio!Evicted, key, it))
          \/ Prio!Becomes(Prio!Pushed(Prio!Stored, key, it))
      BY <2>2 DEF Prio!Set
    <3>2. /\ DOMAIN Prio!Evicted.cache \subseteq DOMAIN cache
          /\ Holds(Prio!Evicted, DOMAIN Prio!Evicted.cache \ {key}, last)
      BY EvictedHolds DEF Holds
    <3>3. /\ Prio!Stored.cache = cache
          /\ Holds(Prio!Stored, DOMAIN Prio!Stored.cache \ {key}, last)
      BY StoreIs DEF PrioInv, Holds, Prio!Stored
    <3> QED  BY <3>1, <3>2, <3>3
  <2> QED  BY <2>1, <2>2
<1>2. PICK pushed : pushed = Prio!Pushed(store, key, it) /\ Prio!Becomes(pushed)
  BY <1>1
<1>3. /\ cache' = pushed.cache
      /\ last' = [k \in DOMAIN cache' |-> IF k = key THEN it ELSE last[k]]
  BY <1>2 DEF Prio!Set, Prio!Becomes
<1>5. /\ DOMAIN pushed.cache = DOMAIN store.cache \cup {key}
      /\ Holds(pushed, DOMAIN store.cache \cup {key}, Over(store, key, it, last))
  <2>1. PushFits(store, key, it, last)
    BY <1>1 DEF PushFits
  <2>2. PushHolds(store, key, pushed, Over(store, key, it, last))
    BY <2>1, <1>2, PushedHolds
  <2> QED  BY <2>2 DEF PushHolds
<1>6. last' = Over(store, key, it, last)
  BY <1>3, <1>5 DEF Over
<1>7. DOMAIN last' = DOMAIN pushed.cache
  BY <1>3
<1> QED  BY <1>2, <1>5, <1>6, <1>7, PrioInvNext

LEMMA PrioStep == PrioInv /\ [Prio!Next]_(Prio!vars) => PrioInv'
<1> SUFFICES ASSUME PrioInv, [Prio!Next]_(Prio!vars)  PROVE PrioInv'
  OBVIOUS
<1>1. ASSUME UNCHANGED <<lists, item, cache, last>>  PROVE PrioInv'
  BY <1>1 DEF PrioInv, Holds, Prio!Stored, Prio!Store
<1>2. CASE UNCHANGED Prio!vars
  BY <1>1, <1>2 DEF Prio!vars, Prio!storeVars
<1>3. ASSUME NEW k \in Keys, Prio!Get(k)  PROVE PrioInv'
  BY <1>3, GetKeeps
<1>4. ASSUME NEW k \in Keys, NEW v \in Values, NEW p \in Priorities, NEW e \in Expiries,
             Prio!Set(k, [key |-> k, value |-> v, priority |-> p, expireTime |-> e])
      PROVE  PrioInv'
  BY <1>4, SetKeeps
<1>5. CASE Prio!Tick
  BY <1>1, <1>5 DEF Prio!Tick, Prio!storeVars
<1> QED  BY <1>2, <1>3, <1>4, <1>5 DEF Prio!Next

LEMMA PrioStart == Prio!Init => PrioInv
<1> SUFFICES ASSUME Prio!Init  PROVE PrioInv
  OBVIOUS
<1>1. item = << >> /\ cache = << >> /\ last = << >>
  BY DEF Prio!Init
<1>2. DOMAIN item = {} /\ DOMAIN cache = {} /\ DOMAIN last = {}
  BY <1>1
<1> QED  BY <1>2, StoreIs, FS_EmptySet DEF PrioInv, Holds, Prio!Stored

LEMMA GetIsDue ==
  ASSUME PrioInv, ~corrupt, NEW k \in Keys, Prio!Get(k)
  PROVE  result' = Prio!Due(k)
<1>1. DOMAIN last = DOMAIN cache /\ \A j \in DOMAIN cache : item[cache[j]] = last[j]
  BY PrioInvIs
<1>2. Prio!GetAbsent(k) \/ Prio!GetExpired(k) \/ Prio!GetHit(k)
  BY DEF Prio!Get, Prio!GetDamaged
<1> QED
  BY <1>1, <1>2 DEF Prio!GetAbsent, Prio!GetExpired, Prio!GetHit, Prio!Expired,
                    Prio!Outdated, Prio!Due

(***************************************************************************)
(* priority_LRU.cpp: Get answers with the value of the last Set of its key *)
(* until that value expires or is evicted, and never after, whatever Evict *)
(* chose and whatever was read from freed memory, as long as what Set      *)
(* writes to freed memory has not damaged the heap.                        *)
(***************************************************************************)
THEOREM GetAnswersLastSet == Prio!Spec => AnswersLastSet
<1>1. PrioInv /\ [Prio!Next]_(Prio!vars) => PrioInv'
  BY PrioStep
<1>2. PrioInv => [\A k \in Keys : ~corrupt /\ Prio!Get(k) => result' = Prio!Due(k)]_(Prio!vars)
  BY GetIsDue
<1> QED
  BY <1>1, <1>2, PrioStart, PTL DEF Prio!Spec, AnswersLastSet, Prio!AnswersLastSet

\* A step that assigns short values over short ones leaves the heap alone.
LEMMA ShortStep ==
  ASSUME PrioInv, ~corrupt, Long = {}, [Prio!Next]_(Prio!vars)
  PROVE  ~corrupt'
<1>1. CASE UNCHANGED Prio!vars
  BY <1>1 DEF Prio!vars
<1>2. ASSUME NEW k \in Keys, Prio!Get(k)  PROVE ~corrupt'
  BY <1>2 DEF Prio!Get
<1>3. ASSUME NEW k \in Keys, NEW v \in Values, NEW p \in Priorities, NEW e \in Expiries,
             Prio!Set(k, [key |-> k, value |-> v, priority |-> p, expireTime |-> e])
      PROVE  ~corrupt'
  <2>1. \A old, new : Prio!Damage(old, new) = {FALSE}
    BY DEF Prio!Damage
  <2>2. corrupt' \in {FALSE}
    BY <1>3, <2>1 DEF Prio!Set
  <2> QED  BY <2>2
<1>4. CASE Prio!Tick
  BY <1>4 DEF Prio!Tick
<1> QED  BY <1>1, <1>2, <1>3, <1>4 DEF Prio!Next

(***************************************************************************)
(* priority_LRU.cpp: if every value fits into a std::string, Set updates   *)
(* the entry of a key that is there, and every Get answers with the last   *)
(* Set: the writes to freed memory in Set do no harm.                      *)
(***************************************************************************)
THEOREM ShortValuesAreUpdated ==
  ASSUME Long = {}
  PROVE  Prio!Spec => Prio!SetUpdatesEntry
<1>1. Prio!Init => PrioInv /\ ~corrupt
  BY PrioStart DEF Prio!Init
<1>2. PrioInv /\ ~corrupt /\ [Prio!Next]_(Prio!vars) => PrioInv' /\ ~corrupt'
  BY PrioStep, ShortStep
<1>3. PrioInv /\ ~corrupt => [\A k \in Keys : Prio!Get(k) => result' = Prio!Due(k)]_(Prio!vars)
  BY GetIsDue
<1> QED
  BY <1>1, <1>2, <1>3, PTL DEF Prio!Spec, Prio!SetUpdatesEntry

--------------------------------------------------------------------------------
LEMMA CardinalityIs == \A S : Prio!Cardinality(S) = Cardinality(S)
BY DEF Prio!Cardinality, Cardinality

\* What stands first: a finite set ordered by Rel has a member with none before it.
LEMMA FirstOne ==
  ASSUME NEW S, IsFiniteSet(S), S # {}, NEW Rel,
         \A x \in S : <<x, x>> \notin Rel,
         \A x, y, z \in S : <<x, y>> \in Rel /\ <<y, z>> \in Rel => <<x, z>> \in Rel
  PROVE  \E x \in S : \A y \in S : <<y, x>> \notin Rel
<1> DEFINE Before(x) == {y \in S : <<y, x>> \in Rel}
           rank(x) == Cardinality(Before(x))
           Ranks == {rank(x) : x \in S}
<1>1. \A x \in S : IsFiniteSet(Before(x)) /\ rank(x) \in Nat
  <2> SUFFICES ASSUME NEW x \in S  PROVE IsFiniteSet(Before(x)) /\ rank(x) \in Nat
    OBVIOUS
  <2>1. Before(x) \subseteq S
    OBVIOUS
  <2> HIDE DEF Before
  <2>2. IsFiniteSet(Before(x))
    BY <2>1, FS_Subset
  <2> QED  BY <2>2, FS_CardinalityType
<1>2. Ranks \subseteq Nat /\ Ranks # {} /\ \A x \in S : rank(x) \in Ranks
  <2> HIDE DEF Before
  <2> QED  BY <1>1
<1>3. PICK m \in Ranks : \A n \in Ranks : m <= n
  <2> HIDE DEF Ranks
  <2> QED  BY <1>2, Least
<1>4. PICK x \in S : m = rank(x)
  OBVIOUS
<1>6. \A y \in S : rank(x) <= rank(y)
  <2> HIDE DEF rank, Ranks
  <2> QED  BY <1>2, <1>3, <1>4
<1>5. ASSUME NEW y \in S, <<y, x>> \in Rel  PROVE FALSE
  <2>1. Before(y) \subseteq Before(x) /\ y \in Before(x) /\ y \notin Before(y)
    BY <1>5
  <2>2. rank(x) <= rank(y)
    BY <1>6
  <2> HIDE DEF Before
  <2>3. Before(y) # Before(x)
    BY <2>1
  <2>4. Cardinality(Before(y)) < Cardinality(Before(x))
    BY <2>1, <2>3, <1>1, FS_Subset
  <2> QED  BY <2>2, <2>4, <1>1
<1> QED  BY <1>5

LEMMA LeastIs ==
  ASSUME NEW S, IsFiniteSet(S), S # {}, S \subseteq Int
  PROVE  Prio!Min(S) \in S /\ \A y \in S : Prio!Min(S) <= y
<1> DEFINE Rel == {ss \in Int \X Int : ss[1] < ss[2]}
<1>1. \A x, y \in Int : <<x, y>> \in Rel <=> x < y
  OBVIOUS
<1> HIDE DEF Rel
<1>2. \A x, y, z \in S : <<x, y>> \in Rel /\ <<y, z>> \in Rel => <<x, z>> \in Rel
  BY <1>1
<1>3. PICK x \in S : \A y \in S : <<y, x>> \notin Rel
  <2>1. \A x \in S : <<x, x>> \notin Rel
    BY <1>1
  <2> QED  BY <2>1, <1>2, FirstOne
<1>4. \A y \in S : x <= y
  <2> SUFFICES ASSUME NEW y \in S  PROVE x <= y
    OBVIOUS
  <2>1. x \in Int /\ y \in Int /\ ~(y < x)
    BY <1>1, <1>3
  <2> QED  BY <2>1
<1> QED  BY <1>4 DEF Prio!Min

\* How many may be cached.
Most == IF MaxItems = 0 THEN 1 ELSE MaxItems

LEMMA MostIs == Most \in Nat \ {0} /\ MaxItems \in Nat /\ Prio!Max({1, MaxItems}) = Most
<1>1. MaxItems \in Nat
  BY ContainersAssumption DEF Prio!CacheAssumption
<1>2. Most \in {1, MaxItems} /\ \A y \in {1, MaxItems} : Most >= y
  BY <1>1 DEF Most
<1>3. \A x \in {1, MaxItems} : (\A y \in {1, MaxItems} : x >= y) => x = Most
  BY <1>1 DEF Most
<1> QED  BY <1>1, <1>2, <1>3 DEF Prio!Max, Most

--------------------------------------------------------------------------------
\* t has the elements of s that are not in nodes, in their order.
Thinner(s, t, nodes) ==
  /\ \A r \in 1..Len(t) : \E i \in 1..Len(s) : t[r] = s[i] /\ s[i] \notin nodes
  /\ \A i \in 1..Len(s) : s[i] \notin nodes => \E r \in 1..Len(t) : t[r] = s[i]
  /\ \A r1, r2 \in 1..Len(t) : r1 < r2 =>
       \E i1, i2 \in 1..Len(s) : i1 < i2 /\ t[r1] = s[i1] /\ t[r2] = s[i2]

LEMMA KeptIs ==
  ASSUME NEW s \in Seq(Nat), NEW nodes
  PROVE  Prio!Kept(s, nodes) \in Seq(Nat) /\ Thinner(s, Prio!Kept(s, nodes), nodes)
<1> DEFINE left == {i \in DOMAIN s : s[i] \notin nodes}
           Before(i) == {j \in left : j < i}
<1>1. Len(s) \in Nat /\ DOMAIN s = 1..Len(s) /\ left \subseteq 1..Len(s)
  BY LenProperties
<1>2. IsFiniteSet(left) /\ Cardinality(left) \in Nat
  <2>1. IsFiniteSet(1..Len(s))
    BY <1>1, FS_Interval
  <2> QED  BY <1>1, <2>1, FS_Subset, FS_CardinalityType
<1>3. PICK m \in Nat : m = Cardinality(left)
  BY <1>2
<1>4. \A i \in left : /\ IsFiniteSet(Before(i)) /\ Cardinality(Before(i)) \in 0..m - 1
  <2> SUFFICES ASSUME NEW i \in left
               PROVE  IsFiniteSet(Before(i)) /\ Cardinality(Before(i)) \in 0..m - 1
    OBVIOUS
  <2>1. Before(i) \subseteq left /\ i \notin Before(i) /\ i \in left
    BY <1>1
  <2> HIDE DEF Before, left
  <2>2. IsFiniteSet(Before(i)) /\ Cardinality(Before(i)) \in Nat
    BY <2>1, <1>2, FS_Subset, FS_CardinalityType
  <2>4. Before(i) # left
    BY <2>1
  <2>3. Cardinality(Before(i)) < m
    BY <2>1, <2>2, <2>4, <1>2, <1>3, FS_Subset
  <2> QED  BY <2>2, <2>3
<1>5. \A i, j \in left : i < j => Cardinality(Before(i)) < Cardinality(Before(j))
  <2> SUFFICES ASSUME NEW i \in left, NEW j \in left, i < j
               PROVE  Cardinality(Before(i)) < Cardinality(Before(j))
    OBVIOUS
  <2>1. Before(i) \subseteq Before(j) /\ i \in Before(j) /\ i \notin Before(i)
    BY <1>1
  <2> HIDE DEF Before
  <2>2. Before(i) # Before(j)
    BY <2>1
  <2> QED  BY <2>1, <2>2, <1>4, FS_Subset
<1> DEFINE rank == [i \in left |-> Cardinality(Before(i))]
<1>6. rank \in [left -> 0..m - 1] /\ \A i \in left : rank[i] = Cardinality(Before(i))
  <2> HIDE DEF Before, left
  <2> QED  BY <1>4
<1>7. \A i, j \in left : i < j => rank[i] < rank[j]
  BY <1>5, <1>6
<1>8. \A i \in left : i \in Nat
  BY <1>1
<1> HIDE DEF rank
<1>9. \A i, j \in left : (rank[i] = rank[j] => i = j) /\ (rank[i] < rank[j] => i < j)
  <2> SUFFICES ASSUME NEW i \in left, NEW j \in left
               PROVE  (rank[i] = rank[j] => i = j) /\ (rank[i] < rank[j] => i < j)
    OBVIOUS
  <2>1. i \in Nat /\ j \in Nat /\ rank[i] \in Nat /\ rank[j] \in Nat
    BY <1>6, <1>8
  <2>2. (i < j => rank[i] < rank[j]) /\ (j < i => rank[j] < rank[i])
    BY <1>7
  <2> QED  BY <2>1, <2>2
<1>10. \A r \in 0..m - 1 : \E i \in left : rank[i] = r
  <2>1. IsFiniteSet(0..m - 1) /\ Cardinality(0..m - 1) = m
    <3>1. 0 \in Int /\ m - 1 \in Int
      OBVIOUS
    <3>2. /\ IsFiniteSet(0..m - 1)
          /\ Cardinality(0..m - 1) = IF 0 > m - 1 THEN 0 ELSE m - 1 - 0 + 1
      BY <3>1, FS_Interval
    <3> QED  BY <3>2
  <2>2. rank \in Injection(left, 0..m - 1)
    <3> HIDE DEF left
    <3> QED  BY <1>6, <1>9, Fun_IsInj
  <2>3. rank \in Surjection(left, 0..m - 1)
    BY <2>1, <2>2, <1>3, FS_Injection
  <2> HIDE DEF left
  <2> QED  BY <2>3 DEF Surjection
<1> DEFINE at(r) == CHOOSE i \in left : Prio!Cardinality({j \in left : j < i}) = r - 1
<1>11. \A r \in 1..m : at(r) \in left /\ rank[at(r)] = r - 1
  <2> SUFFICES ASSUME NEW r \in 1..m  PROVE at(r) \in left /\ rank[at(r)] = r - 1
    OBVIOUS
  <2>1. r - 1 \in 0..m - 1
    OBVIOUS
  <2>2. PICK i \in left : rank[i] = r - 1
    BY <2>1, <1>10
  <2>3. Prio!Cardinality({j \in left : j < i}) = r - 1
    <3> HIDE DEF left
    <3> QED  BY <2>2, <1>6, CardinalityIs
  <2>4. at(r) \in left /\ Prio!Cardinality({j \in left : j < at(r)}) = r - 1
    <3> HIDE DEF left
    <3> QED  BY <2>2, <2>3
  <2>5. Cardinality(Before(at(r))) = r - 1
    BY <2>4, CardinalityIs
  <2> HIDE DEF at, Before, left
  <2> QED  BY <2>4, <2>5, <1>6
<1>12. PICK t : t = Prio!Kept(s, nodes)
  OBVIOUS
<1>13. t = [r \in 1..m |-> s[at(r)]]
  <2>1. Prio!Kept(s, nodes) = [r \in 1..Prio!Cardinality(left) |-> s[at(r)]]
    BY DEF Prio!Kept
  <2> HIDE DEF left, at
  <2>2. Prio!Cardinality(left) = m
    BY <1>3, CardinalityIs
  <2> QED  BY <2>1, <2>2, <1>12
<1> HIDE DEF at
<1>14. \A r \in 1..m : s[at(r)] \in Nat
  BY <1>1, <1>11, ElementOfSeq
<1>15. t \in Seq(Nat) /\ Len(t) = m /\ \A r \in 1..m : t[r] = s[at(r)]
  BY <1>13, <1>14
<1>16. ASSUME NEW r \in 1..m  PROVE \E i \in 1..Len(s) : t[r] = s[i] /\ s[i] \notin nodes
  BY <1>1, <1>11, <1>15
<1>17. ASSUME NEW i \in 1..Len(s), s[i] \notin nodes  PROVE \E r \in 1..m : t[r] = s[i]
  <2>1. i \in left
    BY <1>1, <1>17
  <2>2. rank[i] \in 0..m - 1
    BY <2>1, <1>6
  <2>3. rank[i] + 1 \in 1..m /\ (rank[i] + 1) - 1 = rank[i]
    BY <2>2
  <2>4. at(rank[i] + 1) \in left /\ rank[at(rank[i] + 1)] = rank[i]
    BY <2>3, <1>11
  <2>5. at(rank[i] + 1) = i
    BY <2>1, <2>4, <1>9
  <2> QED  BY <2>3, <2>5, <1>15
<1>18. ASSUME NEW r1 \in 1..m, NEW r2 \in 1..m, r1 < r2
       PROVE  \E i1, i2 \in 1..Len(s) : i1 < i2 /\ t[r1] = s[i1] /\ t[r2] = s[i2]
  <2>1. /\ at(r1) \in left /\ at(r2) \in left
        /\ rank[at(r1)] = r1 - 1 /\ rank[at(r2)] = r2 - 1
    BY <1>11
  <2>2. r1 - 1 < r2 - 1
    BY <1>18
  <2>3. at(r1) < at(r2)
    BY <2>1, <2>2, <1>9
  <2> QED  BY <2>1, <2>3, <1>1, <1>15
<1>19. t \in Seq(Nat) /\ Thinner(s, t, nodes)
  BY <1>15, <1>16, <1>17, <1>18 DEF Thinner
<1> QED  BY <1>12, <1>19

--------------------------------------------------------------------------------
(***************************************************************************)
(* The store: keys and nodes name each other, every node is once in the    *)
(* list of its priority, and a list is in the order of the last use.       *)
(***************************************************************************)
Keyed(it, ca) ==
  /\ IsFiniteSet(DOMAIN ca) /\ DOMAIN it \subseteq Nat
  /\ \A k \in DOMAIN ca : ca[k] \in DOMAIN it /\ it[ca[k]].key = k
  /\ \A n \in DOMAIN it : it[n].key \in DOMAIN ca /\ ca[it[n].key] = n

InList(n, s) == \E i \in 1..Len(s) : n = s[i]

Listed(ls, it) ==
  /\ DOMAIN ls \subseteq Priorities
  /\ \A p \in DOMAIN ls :
       /\ ls[p] \in Seq(Nat)
       /\ \A i, j \in 1..Len(ls[p]) : ls[p][i] = ls[p][j] => i = j
       /\ \A i \in 1..Len(ls[p]) : ls[p][i] \in DOMAIN it /\ it[ls[p][i]].priority = p
  /\ \A n \in DOMAIN it : it[n].priority \in DOMAIN ls /\ InList(n, ls[it[n].priority])

Ordered(ls, it, pairs) ==
  \A p \in DOMAIN ls : \A i, j \in 1..Len(ls[p]) :
    i < j => <<it[ls[p][i]].key, it[ls[p][j]].key>> \in pairs

Sound(store, pairs) ==
  /\ Keyed(store.item, store.cache) /\ Listed(store.lists, store.item)
  /\ Ordered(store.lists, store.item, pairs)

\* f2 is f where both are defined.
Agree(f, f2) == \A x \in DOMAIN f2 : x \in DOMAIN f => f2[x] = f[x]

\* ls2 has the nodes of ls that are not in nodes, but for entries that are gone.
Thinned(ls, ls2, nodes) ==
  /\ DOMAIN ls2 \subseteq DOMAIN ls
  /\ \A p \in DOMAIN ls \ DOMAIN ls2 : \A i \in 1..Len(ls[p]) : ls[p][i] \in nodes
  /\ \A p \in DOMAIN ls2 : ls2[p] \in Seq(Nat) /\ Thinner(ls[p], ls2[p], nodes)

LEMMA ThinnedListed ==
  ASSUME NEW ls, NEW ls2, NEW it, NEW it2, NEW nodes, NEW pairs,
         Listed(ls, it), Ordered(ls, it, pairs), Thinned(ls, ls2, nodes),
         DOMAIN it2 = DOMAIN it \ nodes, Agree(it, it2)
  PROVE  Listed(ls2, it2) /\ Ordered(ls2, it2, pairs)
<1>1. \A p \in DOMAIN ls2 : /\ p \in DOMAIN ls /\ ls2[p] \in Seq(Nat) /\ Len(ls2[p]) \in Nat
                            /\ Thinner(ls[p], ls2[p], nodes) /\ Len(ls[p]) \in Nat
  BY LenProperties DEF Thinned, Listed
<1>2. \A n \in DOMAIN it2 : n \in DOMAIN it /\ n \notin nodes /\ it2[n] = it[n]
  BY DEF Agree
<1>3. ASSUME NEW p \in DOMAIN ls2, NEW r \in 1..Len(ls2[p])
      PROVE  ls2[p][r] \in DOMAIN it2 /\ it2[ls2[p][r]].priority = p
  <2>1. PICK i \in 1..Len(ls[p]) : ls2[p][r] = ls[p][i] /\ ls[p][i] \notin nodes
    BY <1>1, <1>3 DEF Thinner
  <2>2. ls[p][i] \in DOMAIN it /\ it[ls[p][i]].priority = p
    BY <1>1 DEF Listed
  <2> QED  BY <2>1, <2>2, <1>2
<1>4. ASSUME NEW p \in DOMAIN ls2, NEW r1 \in 1..Len(ls2[p]), NEW r2 \in 1..Len(ls2[p]), r1 < r2
      PROVE  /\ ls2[p][r1] # ls2[p][r2]
             /\ <<it2[ls2[p][r1]].key, it2[ls2[p][r2]].key>> \in pairs
  <2>1. PICK i1 \in 1..Len(ls[p]), i2 \in 1..Len(ls[p]) :
          i1 < i2 /\ ls2[p][r1] = ls[p][i1] /\ ls2[p][r2] = ls[p][i2]
    BY <1>1, <1>4 DEF Thinner
  <2>2. ls[p][i1] # ls[p][i2]
    <3>1. i1 # i2
      BY <2>1, <1>1
    <3> QED  BY <3>1, <1>1 DEF Listed
  <2>3. <<it[ls[p][i1]].key, it[ls[p][i2]].key>> \in pairs
    BY <2>1, <1>1 DEF Ordered
  <2>4. it2[ls2[p][r1]] = it[ls[p][i1]] /\ it2[ls2[p][r2]] = it[ls[p][i2]]
    BY <2>1, <1>2, <1>3
  <2> QED  BY <2>1, <2>2, <2>3, <2>4
<1>5. ASSUME NEW p \in DOMAIN ls2, NEW r1 \in 1..Len(ls2[p]), NEW r2 \in 1..Len(ls2[p]),
             ls2[p][r1] = ls2[p][r2]
      PROVE  r1 = r2
  <2>1. ~(r1 < r2) /\ ~(r2 < r1)
    BY <1>4, <1>5
  <2>2. PICK l \in Nat : l = Len(ls2[p])
    BY <1>1
  <2>3. r1 \in 1..l /\ r2 \in 1..l
    BY <2>2
  <2> QED  BY <2>1, <2>3
<1>6. ASSUME NEW n \in DOMAIN it2
      PROVE  it2[n].priority \in DOMAIN ls2 /\ InList(n, ls2[it2[n].priority])
  <2>1. PICK p : p = it[n].priority /\ p = it2[n].priority
    BY <1>2
  <2>2. p \in DOMAIN ls /\ InList(n, ls[p]) /\ n \notin nodes
    BY <2>1, <1>2 DEF Listed
  <2>3. PICK i \in 1..Len(ls[p]) : n = ls[p][i]
    BY <2>2 DEF InList
  <2>4. p \in DOMAIN ls2
    BY <2>2, <2>3 DEF Thinned
  <2>5. \E r \in 1..Len(ls2[p]) : ls2[p][r] = n
    BY <2>2, <2>3, <2>4, <1>1 DEF Thinner
  <2> QED  BY <2>1, <2>4, <2>5 DEF InList
<1>7. Listed(ls2, it2)
  <2>1. DOMAIN ls2 \subseteq Priorities
    BY DEF Listed, Thinned
  <2> QED  BY <2>1, <1>1, <1>3, <1>5, <1>6 DEF Listed
<1> QED  BY <1>4, <1>7 DEF Ordered

LEMMA SameIsThinner ==
  ASSUME NEW s, NEW nodes, \A i \in 1..Len(s) : s[i] \notin nodes
  PROVE  Thinner(s, s, nodes)
BY DEF Thinner

\* Nodes go, with the keys of their items.
LEMMA WithoutKeyed ==
  ASSUME NEW it, NEW ca, NEW it2, NEW ca2, NEW nodes \in SUBSET (DOMAIN it), Keyed(it, ca),
         DOMAIN it2 = DOMAIN it \ nodes, Agree(it, it2),
         DOMAIN ca2 = DOMAIN ca \ {it[n].key : n \in nodes}, Agree(ca, ca2)
  PROVE  Keyed(it2, ca2)
<1>1. IsFiniteSet(DOMAIN ca2) /\ DOMAIN it2 \subseteq Nat
  BY FS_Subset DEF Keyed
<1>2. ASSUME NEW k \in DOMAIN ca2  PROVE ca2[k] \in DOMAIN it2 /\ it2[ca2[k]].key = k
  <2>1. k \in DOMAIN ca /\ ca2[k] = ca[k] /\ ca[k] \in DOMAIN it /\ it[ca[k]].key = k
    BY <1>2 DEF Keyed, Agree
  <2>2. ca[k] \notin nodes
    BY <2>1, <1>2
  <2> QED  BY <2>1, <2>2 DEF Agree
<1>3. ASSUME NEW n \in DOMAIN it2  PROVE it2[n].key \in DOMAIN ca2 /\ ca2[it2[n].key] = n
  <2>1. /\ n \in DOMAIN it /\ n \notin nodes /\ it2[n] = it[n]
        /\ it[n].key \in DOMAIN ca /\ ca[it[n].key] = n
    BY DEF Keyed, Agree
  <2>2. it[n].key \notin {it[m].key : m \in nodes}
    <3> SUFFICES ASSUME NEW m \in nodes, it[m].key = it[n].key  PROVE FALSE
      OBVIOUS
    <3>1. ca[it[m].key] = m
      BY DEF Keyed
    <3> QED  BY <3>1, <2>1
  <2> QED  BY <2>1, <2>2 DEF Agree
<1> QED  BY <1>1, <1>2, <1>3 DEF Keyed

\* f2 is f and x at n.
Grown(f, f2, n, x) ==
  n \notin DOMAIN f /\ DOMAIN f2 = DOMAIN f \cup {n} /\ f2[n] = x /\ Agree(f, f2)

\* ls2 is ls with n in front of the list for p.
Fronted(ls, ls2, n, p) ==
  /\ DOMAIN ls2 = DOMAIN ls \cup {p}
  /\ ls2[p] = <<n>> \o (IF p \in DOMAIN ls THEN ls[p] ELSE << >>)
  /\ \A r \in DOMAIN ls : r # p => ls2[r] = ls[r]

\* A node comes to the front of the list of its priority.
LEMMA FrontListed ==
  ASSUME NEW ls, NEW ls2, NEW it, NEW it2, NEW pairs, NEW n \in Nat,
         NEW x, x.priority \in Priorities, DOMAIN it \subseteq Nat,
         Listed(ls, it), Ordered(ls, it, pairs),
         \A m \in DOMAIN it : <<x.key, it[m].key>> \in pairs,
         Grown(it, it2, n, x), Fronted(ls, ls2, n, x.priority)
  PROVE  Listed(ls2, it2) /\ Ordered(ls2, it2, pairs)
<1>1. PICK pr, old : /\ pr = x.priority /\ pr \in Priorities
                     /\ old = IF pr \in DOMAIN ls THEN ls[pr] ELSE << >>
  OBVIOUS
<1>0. /\ n \notin DOMAIN it /\ DOMAIN it2 = DOMAIN it \cup {n} /\ it2[n] = x /\ Agree(it, it2)
      /\ DOMAIN ls2 = DOMAIN ls \cup {x.priority}
      /\ ls2[x.priority] = <<n>> \o (IF x.priority \in DOMAIN ls THEN ls[x.priority] ELSE << >>)
      /\ \A p \in DOMAIN ls : p # x.priority => ls2[p] = ls[p]
  BY DEF Grown, Fronted
<1>2. \A m \in DOMAIN it : m \in DOMAIN it2 /\ it2[m] = it[m] /\ m # n
  BY <1>0 DEF Agree
<1>3. /\ old \in Seq(Nat) /\ Len(old) \in Nat
      /\ \A i, j \in 1..Len(old) : old[i] = old[j] => i = j
      /\ \A i \in 1..Len(old) : old[i] \in DOMAIN it /\ it[old[i]].priority = pr
      /\ \A i, j \in 1..Len(old) : i < j => <<it[old[i]].key, it[old[j]].key>> \in pairs
  <2>1. CASE pr \in DOMAIN ls
    <3>1. old = ls[pr] /\ old \in Seq(Nat)
      BY <2>1, <1>1 DEF Listed
    <3>2. /\ \A i, j \in 1..Len(old) : old[i] = old[j] => i = j
          /\ \A i \in 1..Len(old) : old[i] \in DOMAIN it /\ it[old[i]].priority = pr
      BY <2>1, <3>1 DEF Listed
    <3>3. \A i, j \in 1..Len(old) : i < j => <<it[old[i]].key, it[old[j]].key>> \in pairs
      BY <2>1, <3>1 DEF Ordered
    <3> QED  BY <3>1, <3>2, <3>3, LenProperties
  <2>2. CASE pr \notin DOMAIN ls
    BY <2>2, <1>1, EmptySeq
  <2> QED  BY <2>1, <2>2
<1>4. PICK l \in Nat : l = Len(old)
  BY <1>3
<1>5. PICK new : new = ls2[pr]
  OBVIOUS
<1>6. /\ new \in Seq(Nat) /\ Len(new) = l + 1 /\ new[1] = n
      /\ \A i \in 1..l : new[i + 1] = old[i]
      /\ \A i \in 1..l + 1 : i # 1 => new[i] = old[i - 1]
  <2>1. new = <<n>> \o old
    BY <1>0, <1>1, <1>5
  <2> QED  BY <2>1, <1>3, <1>4, ConsIs
<1>7. \A i \in 1..l + 1 : i # 1 =>
        i - 1 \in 1..l /\ new[i] = old[i - 1] /\ new[i] \in DOMAIN it /\ new[i] # n
  <2> SUFFICES ASSUME NEW i \in 1..l + 1, i # 1
               PROVE  /\ i - 1 \in 1..l /\ new[i] = old[i - 1]
                      /\ new[i] \in DOMAIN it /\ new[i] # n
    OBVIOUS
  <2>1. i - 1 \in 1..l
    OBVIOUS
  <2>2. new[i] = old[i - 1]
    BY <1>6
  <2>3. old[i - 1] \in DOMAIN it
    BY <2>1, <1>3, <1>4
  <2> QED  BY <2>1, <2>2, <2>3, <1>2
<1>8. ASSUME NEW i \in 1..l + 1
      PROVE  new[i] \in DOMAIN it2 /\ it2[new[i]].priority = pr
  <2>1. CASE i = 1
    BY <2>1, <1>0, <1>1, <1>6
  <2>2. CASE i # 1
    <3>1. i - 1 \in 1..l /\ new[i] = old[i - 1]
      BY <2>2, <1>7
    <3>2. old[i - 1] \in DOMAIN it /\ it[old[i - 1]].priority = pr
      BY <3>1, <1>3, <1>4
    <3> QED  BY <3>1, <3>2, <1>2
  <2> QED  BY <2>1, <2>2
<1>9. ASSUME NEW i \in 1..l + 1, NEW j \in 1..l + 1, new[i] = new[j]  PROVE i = j
  <2>1. CASE i = 1 \/ j = 1
    BY <2>1, <1>6, <1>7, <1>9
  <2>2. CASE i # 1 /\ j # 1
    <3>1. i - 1 \in 1..l /\ j - 1 \in 1..l /\ old[i - 1] = old[j - 1]
      BY <2>2, <1>7, <1>9
    <3>2. i - 1 = j - 1
      BY <3>1, <1>3, <1>4
    <3> QED  BY <3>2
  <2> QED  BY <2>1, <2>2
<1>10. ASSUME NEW i \in 1..l + 1, NEW j \in 1..l + 1, i < j
       PROVE  <<it2[new[i]].key, it2[new[j]].key>> \in pairs
  <2>1. j # 1
    BY <1>10
  <2>2. j - 1 \in 1..l /\ new[j] = old[j - 1] /\ it2[new[j]] = it[old[j - 1]] /\ new[j] \in DOMAIN it
    BY <2>1, <1>2, <1>7
  <2>3. CASE i = 1
    BY <2>2, <2>3, <1>0, <1>2, <1>6
  <2>4. CASE i # 1
    <3>1. i - 1 \in 1..l /\ new[i] = old[i - 1] /\ it2[new[i]] = it[old[i - 1]]
      BY <2>4, <1>2, <1>7
    <3>2. i - 1 < j - 1
      BY <1>10
    <3> QED  BY <2>2, <3>1, <3>2, <1>3, <1>4
  <2> QED  BY <2>3, <2>4
<1>11. ASSUME NEW p \in DOMAIN ls2, p # pr
       PROVE  p \in DOMAIN ls /\ ls2[p] = ls[p]
  BY <1>0, <1>1, <1>11
<1>12. ASSUME NEW m \in DOMAIN it2
       PROVE  it2[m].priority \in DOMAIN ls2 /\ InList(m, ls2[it2[m].priority])
  <2>1. CASE m = n
    <3>1. 1 \in 1..Len(new)
      BY <1>6
    <3> QED  BY <2>1, <3>1, <1>0, <1>1, <1>5, <1>6 DEF InList
  <2>2. CASE m # n
    <3>1. /\ m \in DOMAIN it /\ it2[m] = it[m] /\ it[m].priority \in DOMAIN ls
          /\ InList(m, ls[it[m].priority])
      BY <2>2, <1>0, <1>2 DEF Listed
    <3>2. CASE it[m].priority = pr
      <4>1. PICK i \in 1..l : m = old[i]
        BY <3>1, <3>2, <1>1, <1>4 DEF InList
      <4>2. i + 1 \in 1..Len(new) /\ new[i + 1] = m
        BY <4>1, <1>6
      <4> QED  BY <3>1, <3>2, <4>2, <1>0, <1>1, <1>5 DEF InList
    <3>3. CASE it[m].priority # pr
      BY <3>1, <3>3, <1>0, <1>1 DEF InList
    <3> QED  BY <3>2, <3>3
  <2> QED  BY <2>1, <2>2
<1>13. Listed(ls2, it2)
  <2> SUFFICES ASSUME NEW p \in DOMAIN ls2
               PROVE  /\ ls2[p] \in Seq(Nat)
                      /\ \A i, j \in 1..Len(ls2[p]) : ls2[p][i] = ls2[p][j] => i = j
                      /\ \A i \in 1..Len(ls2[p]) :
                           ls2[p][i] \in DOMAIN it2 /\ it2[ls2[p][i]].priority = p
    <3>1. DOMAIN ls2 \subseteq Priorities
      BY <1>0 DEF Listed
    <3> QED  BY <3>1, <1>12 DEF Listed
  <2>1. CASE p = pr
    BY <2>1, <1>5, <1>6, <1>8, <1>9
  <2>2. CASE p # pr
    BY <2>2, <1>2, <1>11 DEF Listed
  <2> QED  BY <2>1, <2>2
<1>14. Ordered(ls2, it2, pairs)
  <2> SUFFICES ASSUME NEW p \in DOMAIN ls2, NEW i \in 1..Len(ls2[p]), NEW j \in 1..Len(ls2[p]),
                      i < j
               PROVE  <<it2[ls2[p][i]].key, it2[ls2[p][j]].key>> \in pairs
    BY DEF Ordered
  <2>1. CASE p = pr
    BY <2>1, <1>5, <1>6, <1>10
  <2>2. CASE p # pr
    <3>1. p \in DOMAIN ls /\ ls2[p] = ls[p]
      BY <2>2, <1>11
    <3>2. <<it[ls[p][i]].key, it[ls[p][j]].key>> \in pairs
      BY <3>1 DEF Ordered
    <3>3. ls[p][i] \in DOMAIN it /\ ls[p][j] \in DOMAIN it
      BY <3>1 DEF Listed
    <3> QED  BY <3>1, <3>2, <3>3, <1>2
  <2> QED  BY <2>1, <2>2
<1> QED  BY <1>13, <1>14

\* A new key comes with a node of its own.
LEMMA FrontKeyed ==
  ASSUME NEW it, NEW ca, NEW it2, NEW ca2, NEW n \in Nat, NEW x, Keyed(it, ca),
         Grown(it, it2, n, x), Grown(ca, ca2, x.key, n)
  PROVE  Keyed(it2, ca2)
<1> USE DEF Grown
<1>1. IsFiniteSet(DOMAIN ca2) /\ DOMAIN it2 \subseteq Nat
  BY FS_AddElement DEF Keyed
<1>2. ASSUME NEW k \in DOMAIN ca2  PROVE ca2[k] \in DOMAIN it2 /\ it2[ca2[k]].key = k
  <2>1. CASE k = x.key
    BY <2>1
  <2>2. CASE k # x.key
    BY <2>2, <1>2 DEF Keyed, Agree
  <2> QED  BY <2>1, <2>2
<1>3. ASSUME NEW m \in DOMAIN it2  PROVE it2[m].key \in DOMAIN ca2 /\ ca2[it2[m].key] = m
  <2>1. CASE m = n
    BY <2>1
  <2>2. CASE m # n
    BY <2>2, <1>3 DEF Keyed, Agree
  <2> QED  BY <2>1, <2>2
<1> QED  BY <1>1, <1>2, <1>3 DEF Keyed

--------------------------------------------------------------------------------
\* Lists without some nodes, less the entries that this leaves empty.
LEMMA ThinnedFurther ==
  ASSUME NEW ls, NEW ls1, NEW ls2, NEW nodes, Thinned(ls, ls1, nodes), DOMAIN ls1 = DOMAIN ls,
         DOMAIN ls2 \subseteq DOMAIN ls1, Agree(ls1, ls2),
         \A p \in DOMAIN ls1 \ DOMAIN ls2 : ls1[p] = << >>
  PROVE  Thinned(ls, ls2, nodes)
<1>1. ASSUME NEW p \in DOMAIN ls \ DOMAIN ls2, NEW i \in 1..Len(ls[p])  PROVE ls[p][i] \in nodes
  <2>1. ls1[p] = << >> /\ Thinner(ls[p], ls1[p], nodes)
    BY DEF Thinned
  <2>2. Len(ls1[p]) = 0
    BY <2>1
  <2> QED  BY <2>1, <2>2 DEF Thinner
<1>2. \A p \in DOMAIN ls2 : ls2[p] = ls1[p] /\ p \in DOMAIN ls1
  BY DEF Agree
<1> QED  BY <1>1, <1>2 DEF Thinned

LEMMA NodesFinite ==
  ASSUME NEW it, NEW ca, Keyed(it, ca)
  PROVE  IsFiniteSet(DOMAIN it)
<1> DEFINE f == [n \in DOMAIN it |-> it[n].key]
<1>1. f \in [DOMAIN it -> DOMAIN ca] /\ \A n \in DOMAIN it : ca[f[n]] = n
  BY DEF Keyed
<1> HIDE DEF f
<1>2. f \in Injection(DOMAIN it, DOMAIN ca)
  BY <1>1, Fun_IsInj
<1> QED  BY <1>2, FS_Injection DEF Keyed

\* The keys of some nodes.
KeysOf(it, nodes) == {it[n].key : n \in nodes}

LEMMA WithoutSound ==
  ASSUME NEW store, NEW pairs, Sound(store, pairs), NEW nodes \in SUBSET (DOMAIN store.item)
  PROVE  /\ Sound(Prio!Without(store, nodes), pairs)
         /\ Prio!Without(store, nodes).item = [n \in DOMAIN store.item \ nodes |-> store.item[n]]
         /\ Prio!Without(store, nodes).cache =
              [k \in DOMAIN store.cache \ KeysOf(store.item, nodes) |-> store.cache[k]]
<1> USE DEF KeysOf
<1>1. PICK ls2, it2, ca2 :
        /\ ls2 = [p \in DOMAIN store.lists |-> Prio!Kept(store.lists[p], nodes)]
        /\ it2 = [n \in DOMAIN store.item \ nodes |-> store.item[n]]
        /\ ca2 = [k \in DOMAIN store.cache \ {store.item[n].key : n \in nodes} |-> store.cache[k]]
  OBVIOUS
<1>2. PICK w : /\ w = Prio!Without(store, nodes)
               /\ w.lists = ls2 /\ w.item = it2 /\ w.cache = ca2
  <2>1. /\ Prio!Without(store, nodes).lists = ls2
        /\ Prio!Without(store, nodes).item = it2
        /\ Prio!Without(store, nodes).cache = ca2
    BY <1>1, StoreIs DEF Prio!Without
  <2> QED  BY <2>1
<1>3. Thinned(store.lists, ls2, nodes)
  <2>1. ASSUME NEW p \in DOMAIN store.lists
        PROVE  ls2[p] \in Seq(Nat) /\ Thinner(store.lists[p], ls2[p], nodes)
    <3>1. store.lists[p] \in Seq(Nat) /\ ls2[p] = Prio!Kept(store.lists[p], nodes)
      BY <1>1 DEF Sound, Listed
    <3> QED  BY <3>1, KeptIs
  <2> QED  BY <2>1, <1>1 DEF Thinned
<1>4. DOMAIN it2 = DOMAIN store.item \ nodes /\ Agree(store.item, it2)
  BY <1>1 DEF Agree
<1>5. /\ DOMAIN ca2 = DOMAIN store.cache \ {store.item[n].key : n \in nodes}
      /\ Agree(store.cache, ca2)
  BY <1>1 DEF Agree
<1>6. Listed(ls2, it2) /\ Ordered(ls2, it2, pairs)
  BY <1>3, <1>4, ThinnedListed DEF Sound
<1>7. Keyed(it2, ca2)
  BY <1>4, <1>5, WithoutKeyed DEF Sound
<1> QED  BY <1>1, <1>2, <1>6, <1>7 DEF Sound

LEMMA CleanedSound ==
  ASSUME NEW store, NEW pairs, Sound(store, pairs)
  PROVE  /\ Sound(Prio!Cleaned(store), pairs)
         /\ Prio!Cleaned(store).item = store.item /\ Prio!Cleaned(store).cache = store.cache
<1>1. PICK ls2 : ls2 = [p \in Prio!InUse(store) |-> store.lists[p]]
  OBVIOUS
<1>2. PICK c : /\ c = Prio!Cleaned(store)
               /\ c.lists = ls2 /\ c.item = store.item /\ c.cache = store.cache
  BY <1>1, StoreIs DEF Prio!Cleaned
<1>3. /\ DOMAIN ls2 \subseteq DOMAIN store.lists /\ Agree(store.lists, ls2)
      /\ \A p \in DOMAIN store.lists \ DOMAIN ls2 : store.lists[p] = << >>
  BY <1>1 DEF Prio!InUse, Agree
<1>4. Thinned(store.lists, store.lists, {})
  BY SameIsThinner DEF Thinned, Sound, Listed
<1>5. Thinned(store.lists, ls2, {})
  BY <1>3, <1>4, ThinnedFurther
<1>6. DOMAIN store.item = DOMAIN store.item \ {} /\ Agree(store.item, store.item)
  BY DEF Agree
<1>7. Listed(ls2, store.item) /\ Ordered(ls2, store.item, pairs)
  BY <1>5, <1>6, ThinnedListed DEF Sound
<1> QED  BY <1>2, <1>7 DEF Sound

\* A node leaves its list, and so do entries that are empty then.
LEMMA OneThinned ==
  ASSUME NEW ls, NEW it, Listed(ls, it), NEW n \in DOMAIN it
  PROVE  LET ls1 == [ls EXCEPT ![it[n].priority] = Prio!Kept(@, {n})]
         IN  Thinned(ls, ls1, {n}) /\ DOMAIN ls1 = DOMAIN ls
               /\ ls1[it[n].priority] = Prio!Kept(ls[it[n].priority], {n})
               /\ \A p \in DOMAIN ls : p # it[n].priority => ls1[p] = ls[p]
<1>1. PICK pr, ls1 : pr = it[n].priority /\ ls1 = [ls EXCEPT ![pr] = Prio!Kept(@, {n})]
  OBVIOUS
<1>2. pr \in DOMAIN ls
  BY <1>1 DEF Listed
<1>3. /\ DOMAIN ls1 = DOMAIN ls /\ ls1[pr] = Prio!Kept(ls[pr], {n})
      /\ \A p \in DOMAIN ls : p # pr => ls1[p] = ls[p]
  BY <1>1, <1>2
<1>4. ASSUME NEW p \in DOMAIN ls
      PROVE  ls1[p] \in Seq(Nat) /\ Thinner(ls[p], ls1[p], {n})
  <2>1. CASE p = pr
    BY <2>1, <1>3, KeptIs DEF Listed
  <2>2. CASE p # pr
    <3>1. \A i \in 1..Len(ls[p]) : ls[p][i] \notin {n}
      BY <2>2, <1>1 DEF Listed
    <3> QED  BY <2>2, <3>1, <1>3, SameIsThinner DEF Listed
  <2> QED  BY <2>1, <2>2
<1>5. Thinned(ls, ls1, {n})
  BY <1>3, <1>4 DEF Thinned
<1> QED  BY <1>1, <1>3, <1>5

\* The node of a key is erased, and the key goes too.
Left(key, freed) ==
  LET rem == Prio!Removed(cache[key], freed)
  IN  Prio!Store(rem.lists, rem.item, [k \in DOMAIN cache \ {key} |-> cache[k]])

LEMMA RemovedSound ==
  ASSUME Sound(Prio!Stored, newer), NEW key \in DOMAIN cache, NEW freed
  PROVE  /\ Sound(Left(key, freed), newer)
         /\ Left(key, freed).cache = [k \in DOMAIN cache \ {key} |-> cache[k]]
         /\ Left(key, freed).lists = Prio!Removed(cache[key], freed).lists
         /\ Left(key, freed).item = Prio!Removed(cache[key], freed).item
<1>0. Keyed(item, cache) /\ Listed(lists, item) /\ Ordered(lists, item, newer)
  BY StoreIs DEF Sound, Prio!Stored
<1>1. PICK n \in DOMAIN item : n = cache[key] /\ item[n].key = key
  BY <1>0 DEF Keyed
<1>2. PICK ls1, ls2, it2, ca2 :
        /\ ls1 = [lists EXCEPT ![item[n].priority] = Prio!Kept(@, {n})]
        /\ ls2 = Prio!EraseIfEmpty(ls1, freed)
        /\ it2 = [m \in DOMAIN item \ {n} |-> item[m]]
        /\ ca2 = [k \in DOMAIN cache \ {key} |-> cache[k]]
  OBVIOUS
<1>3. PICK left, rem : /\ left = Left(key, freed) /\ rem = Prio!Removed(cache[key], freed)
                       /\ left.lists = ls2 /\ left.item = it2 /\ left.cache = ca2
                       /\ rem.lists = ls2 /\ rem.item = it2
  <2>1. /\ Prio!Removed(cache[key], freed).lists = ls2
        /\ Prio!Removed(cache[key], freed).item = it2
    BY <1>1, <1>2, StoreIs DEF Prio!Removed
  <2>2. /\ Left(key, freed).lists = Prio!Removed(cache[key], freed).lists
        /\ Left(key, freed).item = Prio!Removed(cache[key], freed).item
        /\ Left(key, freed).cache = ca2
    BY <1>2, StoreIs DEF Left
  <2> QED  BY <2>1, <2>2
<1>4. Thinned(lists, ls1, {n}) /\ DOMAIN ls1 = DOMAIN lists
  BY <1>0, <1>2, OneThinned
<1>5. /\ DOMAIN ls2 \subseteq DOMAIN ls1 /\ Agree(ls1, ls2)
      /\ \A p \in DOMAIN ls1 \ DOMAIN ls2 : ls1[p] = << >>
  <2>1. CASE freed \in DOMAIN ls1 /\ ls1[freed] # << >>
    BY <2>1, <1>2 DEF Prio!EraseIfEmpty, Agree
  <2>2. CASE ~(freed \in DOMAIN ls1 /\ ls1[freed] # << >>)
    <3>1. ls2 = [q_1 \in DOMAIN ls1 \ {freed} |-> ls1[q_1]]
      BY <2>2, <1>2 DEF Prio!EraseIfEmpty
    <3> QED  BY <2>2, <3>1 DEF Agree
  <2> QED  BY <2>1, <2>2
<1>6. Thinned(lists, ls2, {n})
  BY <1>4, <1>5, ThinnedFurther
<1>7. DOMAIN it2 = DOMAIN item \ {n} /\ Agree(item, it2)
  BY <1>2 DEF Agree
<1>8. Listed(ls2, it2) /\ Ordered(ls2, it2, newer)
  BY <1>0, <1>6, <1>7, ThinnedListed
<1>9. DOMAIN ca2 = DOMAIN cache \ {item[m].key : m \in {n}} /\ Agree(cache, ca2)
  BY <1>1, <1>2 DEF Agree
<1>10. Keyed(it2, ca2)
  BY <1>0, <1>7, <1>9, WithoutKeyed
<1> QED  BY <1>2, <1>3, <1>8, <1>10 DEF Sound

LEMMA PushedSound ==
  ASSUME NEW store, NEW pairs, Sound(store, pairs), NEW it, it.key \notin DOMAIN store.cache,
         it.priority \in Priorities,
         \A k \in DOMAIN store.cache : <<it.key, k>> \in pairs
  PROVE  Sound(Prio!Pushed(store, it.key, it), pairs)
<1>1. PICK n \in Nat : n = Prio!NewNode(store.item) /\ n \notin DOMAIN store.item
  <2>1. IsFiniteSet(DOMAIN store.item)
    BY NodesFinite DEF Sound
  <2>2. PICK m \in 1..Cardinality(DOMAIN store.item) + 1 : m \notin DOMAIN store.item
    BY <2>1, ANodeIsFree
  <2>3. Cardinality(DOMAIN store.item) \in Nat
    BY <2>1, FS_CardinalityType
  <2>4. Prio!Cardinality(DOMAIN store.item) = Cardinality(DOMAIN store.item)
    BY CardinalityIs
  <2>5. /\ Prio!NewNode(store.item) \in 1..Cardinality(DOMAIN store.item) + 1
        /\ Prio!NewNode(store.item) \notin DOMAIN store.item
    BY <2>2, <2>4 DEF Prio!NewNode
  <2> QED  BY <2>3, <2>5
<1>2. PICK old : old = IF it.priority \in DOMAIN store.lists
                         THEN store.lists[it.priority] ELSE << >>
  OBVIOUS
<1>3. PICK ls2, it2, ca2 :
        /\ ls2 = [p \in DOMAIN store.lists \cup {it.priority} |->
                    IF p = it.priority THEN <<n>> \o old ELSE store.lists[p]]
        /\ it2 = [m \in DOMAIN store.item \cup {n} |-> IF m = n THEN it ELSE store.item[m]]
        /\ ca2 = [j \in DOMAIN store.cache \cup {it.key} |->
                    IF j = it.key THEN n ELSE store.cache[j]]
  OBVIOUS
<1>4. PICK w : /\ w = Prio!Pushed(store, it.key, it)
               /\ w.lists = ls2 /\ w.item = it2 /\ w.cache = ca2
  <2>1. /\ Prio!Pushed(store, it.key, it).lists = ls2
        /\ Prio!Pushed(store, it.key, it).item = it2
        /\ Prio!Pushed(store, it.key, it).cache = ca2
    BY <1>1, <1>2, <1>3, StoreIs DEF Prio!Pushed
  <2> QED  BY <2>1
<1>5. Grown(store.item, it2, n, it) /\ Grown(store.cache, ca2, it.key, n)
  BY <1>1, <1>3 DEF Agree, Grown
<1>6. Fronted(store.lists, ls2, n, it.priority)
  BY <1>2, <1>3 DEF Fronted
<1>7. Listed(ls2, it2) /\ Ordered(ls2, it2, pairs)
  <2>1. DOMAIN store.item \subseteq Nat
    BY DEF Sound, Keyed
  <2>2. \A m \in DOMAIN store.item : <<it.key, store.item[m].key>> \in pairs
    BY DEF Sound, Keyed
  <2>3. Listed(store.lists, store.item) /\ Ordered(store.lists, store.item, pairs)
    BY DEF Sound
  <2> QED  BY <2>1, <2>2, <2>3, <1>5, <1>6, FrontListed
<1>8. Keyed(it2, ca2)
  BY <1>5, FrontKeyed DEF Sound
<1> QED  BY <1>4, <1>7, <1>8 DEF Sound

LEMMA OrderedOn ==
  ASSUME NEW store, NEW pairs, NEW pairs2, Sound(store, pairs),
         \A j, k \in DOMAIN store.cache : <<j, k>> \in pairs => <<j, k>> \in pairs2
  PROVE  Sound(store, pairs2)
<1>1. \A p \in DOMAIN store.lists : \A i \in 1..Len(store.lists[p]) :
        store.item[store.lists[p][i]].key \in DOMAIN store.cache
  BY DEF Sound, Listed, Keyed
<1>2. Ordered(store.lists, store.item, pairs2)
  BY <1>1 DEF Sound, Ordered
<1> QED  BY <1>2 DEF Sound

--------------------------------------------------------------------------------
(***************************************************************************)
(* What Evict does to a sound store.                                       *)
(***************************************************************************)
LEMMA StoredIs ==
  /\ Prio!Stored.lists = lists /\ Prio!Stored.item = item /\ Prio!Stored.cache = cache
  /\ \A pairs : Sound(Prio!Stored, pairs) <=>
       Keyed(item, cache) /\ Listed(lists, item) /\ Ordered(lists, item, pairs)
<1>1. Prio!Stored.lists = lists /\ Prio!Stored.item = item /\ Prio!Stored.cache = cache
  BY StoreIs DEF Prio!Stored
<1> QED  BY <1>1 DEF Sound

LEMMA PrioritiesAre == Priorities \subseteq Int /\ IsFiniteSet(Priorities)
<1>1. Prio!IsFiniteSet(Priorities) => IsFiniteSet(Priorities)
  BY DEF Prio!IsFiniteSet, IsFiniteSet
<1> QED  BY <1>1, ContainersAssumption DEF Prio!CacheAssumption

LEMMA MetBeforeIs ==
  ASSUME Listed(lists, item)
  PROVE  /\ \A x \in DOMAIN item : ~Prio!MetBefore(x, x)
         /\ \A x, y, z \in DOMAIN item :
              Prio!MetBefore(x, y) /\ Prio!MetBefore(y, z) => Prio!MetBefore(x, z)
<1>1. \A p \in DOMAIN lists :
        /\ DOMAIN lists[p] = 1..Len(lists[p]) /\ Len(lists[p]) \in Nat
        /\ \A i, j \in DOMAIN lists[p] : lists[p][i] = lists[p][j] => i = j
        /\ \A i \in DOMAIN lists[p] : item[lists[p][i]].priority = p
  <2> SUFFICES ASSUME NEW p \in DOMAIN lists
               PROVE  /\ DOMAIN lists[p] = 1..Len(lists[p]) /\ Len(lists[p]) \in Nat
                      /\ \A i, j \in DOMAIN lists[p] : lists[p][i] = lists[p][j] => i = j
                      /\ \A i \in DOMAIN lists[p] : item[lists[p][i]].priority = p
    OBVIOUS
  <2>1. DOMAIN lists[p] = 1..Len(lists[p]) /\ Len(lists[p]) \in Nat
    BY LenProperties DEF Listed
  <2> QED  BY <2>1 DEF Listed
<1>2. \A x \in DOMAIN item : item[x].priority \in Int
  BY PrioritiesAre DEF Listed
<1>3. \A p \in DOMAIN lists : \A i \in DOMAIN lists[p] : i \in Int
  BY <1>1
<1>4. ASSUME NEW x \in DOMAIN item, Prio!MetBefore(x, x)  PROVE FALSE
  <2>1. ~(item[x].priority < item[x].priority)
    BY <1>2
  <2>2. PICK p \in DOMAIN lists : \E i, j \in DOMAIN lists[p] :
          i < j /\ lists[p][i] = x /\ lists[p][j] = x
    BY <2>1, <1>4 DEF Prio!MetBefore
  <2>3. PICK i \in DOMAIN lists[p], j \in DOMAIN lists[p] :
          i < j /\ lists[p][i] = x /\ lists[p][j] = x
    BY <2>2
  <2>4. i = j /\ i \in Int
    BY <2>3, <1>1, <1>3
  <2> QED  BY <2>3, <2>4
<1>5. ASSUME NEW x \in DOMAIN item, NEW y \in DOMAIN item, NEW z \in DOMAIN item,
             Prio!MetBefore(x, y), Prio!MetBefore(y, z)
      PROVE  Prio!MetBefore(x, z)
  <2> DEFINE Same(m, n) == \E p \in DOMAIN lists : \E i, j \in DOMAIN lists[p] :
                             i < j /\ lists[p][i] = m /\ lists[p][j] = n
  <2>1. \A m, n : Prio!MetBefore(m, n) <=> item[m].priority < item[n].priority \/ Same(m, n)
    BY DEF Prio!MetBefore
  <2>2. \A m, n : Same(m, n) => item[m].priority = item[n].priority
    BY <1>1
  <2>3. ASSUME Same(x, y), Same(y, z)  PROVE Same(x, z)
    <3>1. PICK p \in DOMAIN lists : \E i, j \in DOMAIN lists[p] :
            i < j /\ lists[p][i] = x /\ lists[p][j] = y
      BY <2>3
    <3>2. PICK i \in DOMAIN lists[p], j \in DOMAIN lists[p] :
            i < j /\ lists[p][i] = x /\ lists[p][j] = y
      BY <3>1
    <3>3. PICK p2 \in DOMAIN lists : \E i2, j2 \in DOMAIN lists[p2] :
            i2 < j2 /\ lists[p2][i2] = y /\ lists[p2][j2] = z
      BY <2>3
    <3>4. PICK i2 \in DOMAIN lists[p2], j2 \in DOMAIN lists[p2] :
            i2 < j2 /\ lists[p2][i2] = y /\ lists[p2][j2] = z
      BY <3>3
    <3>5. p = p2
      BY <3>2, <3>4, <1>1
    <3>6. j = i2
      BY <3>2, <3>4, <3>5, <1>1
    <3>7. i < j2
      BY <3>2, <3>4, <3>5, <3>6, <1>3
    <3> QED  BY <3>2, <3>4, <3>5, <3>7
  <2> HIDE DEF Same
  <2>4. item[x].priority \in Int /\ item[y].priority \in Int /\ item[z].priority \in Int
    BY <1>2
  <2>5. item[x].priority < item[y].priority \/ Same(x, y)
    BY <2>1, <1>5
  <2>6. item[y].priority < item[z].priority \/ Same(y, z)
    BY <2>1, <1>5
  <2>7. item[x].priority < item[z].priority \/ Same(x, z)
    BY <2>2, <2>3, <2>4, <2>5, <2>6
  <2> QED  BY <2>1, <2>7
<1> QED  BY <1>4, <1>5

LEMMA FirstExpiredIs ==
  ASSUME Sound(Prio!Stored, newer)
  PROVE  /\ \A n \in Prio!FirstExpired : n \in DOMAIN item /\ Prio!Expired(n)
         /\ Cardinality(DOMAIN cache) >= MaxItems =>
              \A n \in DOMAIN item : Prio!Expired(n) => Prio!FirstExpired # {}
<1>0. Keyed(item, cache) /\ Listed(lists, item)
  BY StoredIs
<1> DEFINE expired == {n \in DOMAIN item : Prio!Expired(n)}
<1>1. Prio!FirstExpired =
        {n \in expired : Prio!Cardinality({m \in expired : Prio!MetBefore(m, n)})
                           <= Prio!Cardinality(DOMAIN cache) - MaxItems}
  BY DEF Prio!FirstExpired
<1>2. ASSUME Cardinality(DOMAIN cache) >= MaxItems, expired # {}
      PROVE  Prio!FirstExpired # {}
  <2>1. IsFiniteSet(expired) /\ expired \subseteq DOMAIN item
    <3>1. IsFiniteSet(DOMAIN item) /\ expired \subseteq DOMAIN item
      BY <1>0, NodesFinite
    <3> HIDE DEF expired
    <3> QED  BY <3>1, FS_Subset
  <2> HIDE DEF expired
  <2> DEFINE Rel == {ss \in expired \X expired : Prio!MetBefore(ss[1], ss[2])}
  <2>2. \A x, y \in expired : <<x, y>> \in Rel <=> Prio!MetBefore(x, y)
    OBVIOUS
  <2> HIDE DEF Rel
  <2>3. /\ \A x \in expired : <<x, x>> \notin Rel
        /\ \A x, y, z \in expired : <<x, y>> \in Rel /\ <<y, z>> \in Rel => <<x, z>> \in Rel
    <3>1. \A x \in expired : x \in DOMAIN item
      BY <2>1
    <3>2. \A x, y, z \in expired :
            Prio!MetBefore(x, y) /\ Prio!MetBefore(y, z) => Prio!MetBefore(x, z)
      BY <3>1, <1>0, MetBeforeIs
    <3>3. \A x \in expired : ~Prio!MetBefore(x, x)
      BY <3>1, <1>0, MetBeforeIs
    <3> QED  BY <2>2, <3>2, <3>3
  <2>4. PICK x \in expired : \A y \in expired : <<y, x>> \notin Rel
    BY <2>1, <2>3, <1>2, FirstOne
  <2>5. {m \in expired : Prio!MetBefore(m, x)} = {}
    BY <2>2, <2>4
  <2>6. Prio!Cardinality({m \in expired : Prio!MetBefore(m, x)}) = 0
    BY <2>5, CardinalityIs, FS_EmptySet
  <2>7. Prio!Cardinality(DOMAIN cache) - MaxItems >= 0
    <3>1. PICK c \in Nat : c = Cardinality(DOMAIN cache)
      BY <1>0, FS_CardinalityType DEF Keyed
    <3> QED  BY <3>1, <1>2, CardinalityIs, MostIs
  <2>8. x \in Prio!FirstExpired
    BY <2>6, <2>7, <1>1
  <2> QED  BY <2>8
<1> QED  BY <1>1, <1>2

\* What leaves when Evict is called, and in what order.
InOrderGone(e) ==
  \A k \in DOMAIN cache \ DOMAIN e.cache :
    \/ Prio!Expired(cache[k])
    \/ \A j \in DOMAIN cache \ {k} :
         /\ ~Prio!Expired(cache[j])
         /\ item[cache[j]].priority >= item[cache[k]].priority
         /\ item[cache[j]].priority = item[cache[k]].priority => <<j, k>> \in newer

Evicts(e) ==
  /\ Sound(e, newer) /\ DOMAIN e.cache \subseteq DOMAIN cache
  /\ Cardinality(DOMAIN e.cache) < Most /\ InOrderGone(e)

\* Something has expired: nothing else goes, and enough of it.
LEMMA EvictsExpired ==
  ASSUME Sound(Prio!Stored, newer), Cardinality(DOMAIN cache) <= Most,
         Cardinality(DOMAIN cache) >= MaxItems,
         NEW n1 \in DOMAIN item, Prio!Expired(n1)
  PROVE  Evicts(Prio!Evicted)
<1>0. Keyed(item, cache) /\ Listed(lists, item)
  BY StoredIs
<1>1. /\ \A n \in Prio!FirstExpired : n \in DOMAIN item /\ Prio!Expired(n)
      /\ Prio!FirstExpired # {}
  BY FirstExpiredIs
<1>2. PICK nodes \in SUBSET (DOMAIN item) : nodes = Prio!FirstExpired
  BY <1>1
<1>3. PICK gone : gone = {item[n].key : n \in nodes}
  OBVIOUS
<1>4. PICK store : /\ store = Prio!EvictExpired /\ Sound(store, newer)
                   /\ store.item = [n \in DOMAIN item \ nodes |-> item[n]]
                   /\ store.cache = [k \in DOMAIN cache \ gone |-> cache[k]]
  <2>1. Prio!EvictExpired = Prio!Without(Prio!Stored, nodes)
    BY <1>2 DEF Prio!EvictExpired
  <2>2. nodes \in SUBSET (DOMAIN Prio!Stored.item)
    BY StoredIs
  <2>3. /\ Sound(Prio!Without(Prio!Stored, nodes), newer)
        /\ Prio!Without(Prio!Stored, nodes).item =
             [n \in DOMAIN Prio!Stored.item \ nodes |-> Prio!Stored.item[n]]
        /\ Prio!Without(Prio!Stored, nodes).cache =
             [k \in DOMAIN Prio!Stored.cache \ KeysOf(Prio!Stored.item, nodes) |->
                Prio!Stored.cache[k]]
    BY <2>2, WithoutSound
  <2>4. /\ Prio!Without(Prio!Stored, nodes).item = [n \in DOMAIN item \ nodes |-> item[n]]
        /\ Prio!Without(Prio!Stored, nodes).cache = [k \in DOMAIN cache \ gone |-> cache[k]]
    BY <2>3, <1>3, StoredIs DEF KeysOf
  <2> QED  BY <2>1, <2>3, <2>4
<1>5. DOMAIN store.cache = DOMAIN cache \ gone
  BY <1>4
<1>6. PICK k1 \in DOMAIN cache : k1 \in gone
  <2>1. PICK n \in nodes : TRUE
    BY <1>1, <1>2
  <2> QED  BY <2>1, <1>0, <1>3 DEF Keyed
<1>7. PICK c \in Nat, d \in Nat : /\ c = Cardinality(DOMAIN cache)
                                  /\ d = Cardinality(DOMAIN store.cache)
                                  /\ d < c /\ IsFiniteSet(DOMAIN store.cache)
  <2>1. IsFiniteSet(DOMAIN cache) /\ DOMAIN store.cache \subseteq DOMAIN cache
        /\ DOMAIN store.cache # DOMAIN cache
    BY <1>0, <1>5, <1>6 DEF Keyed
  <2>2. /\ IsFiniteSet(DOMAIN store.cache)
        /\ Cardinality(DOMAIN store.cache) <= Cardinality(DOMAIN cache)
        /\ Cardinality(DOMAIN store.cache) # Cardinality(DOMAIN cache)
    BY <2>1, FS_Subset
  <2>3. Cardinality(DOMAIN store.cache) \in Nat /\ Cardinality(DOMAIN cache) \in Nat
    BY <2>1, <2>2, FS_CardinalityType
  <2> QED  BY <2>2, <2>3
<1>8. d < Most /\ (~(d < MaxItems) => d = 0)
  BY <1>7, MostIs DEF Most
<1>9. \A k \in DOMAIN cache \ DOMAIN store.cache : Prio!Expired(cache[k])
  <2> SUFFICES ASSUME NEW k \in DOMAIN cache, k \in gone  PROVE Prio!Expired(cache[k])
    BY <1>5
  <2>1. PICK n \in nodes : k = item[n].key
    BY <1>3
  <2>2. cache[k] = n
    BY <2>1, <1>0 DEF Keyed
  <2> QED  BY <2>1, <2>2, <1>1, <1>2
<1>10. InOrderGone(store)
  BY <1>9 DEF InOrderGone
<1>11. Prio!Cardinality(DOMAIN store.cache) = d
  BY <1>7, CardinalityIs
<1>12. CASE d < MaxItems
  <2>1. Prio!Evicted = store
    BY <1>4, <1>11, <1>12 DEF Prio!Evicted
  <2> QED  BY <2>1, <1>4, <1>5, <1>7, <1>8, <1>10 DEF Evicts
<1>13. CASE ~(d < MaxItems)
  <2>1. Prio!Evicted = Prio!EvictLowest(store)
    BY <1>4, <1>11, <1>13 DEF Prio!Evicted
  <2>2. DOMAIN store.cache = {}
    BY <1>7, <1>8, <1>13, FS_EmptySet
  <2>3. DOMAIN store.item = {}
    BY <2>2, <1>4 DEF Sound, Keyed
  <2>4. Prio!InUse(store) = {}
    <3> SUFFICES ASSUME NEW p \in DOMAIN store.lists  PROVE store.lists[p] = << >>
      BY DEF Prio!InUse
    <3>1. /\ store.lists[p] \in Seq(Nat)
          /\ \A i \in 1..Len(store.lists[p]) : store.lists[p][i] \in DOMAIN store.item
      BY <1>4 DEF Sound, Listed
    <3>2. Len(store.lists[p]) \in Nat
      BY <3>1
    <3>3. \A i \in 1..Len(store.lists[p]) : FALSE
      BY <3>1, <2>3
    <3>4. Len(store.lists[p]) = 0
      BY <3>2, <3>3
    <3> QED  BY <3>1, <3>4, EmptySeq
  <2>5. Prio!EvictLowest(store) = Prio!Cleaned(store)
    BY <2>4 DEF Prio!EvictLowest
  <2>6. PICK e : /\ e = Prio!Evicted /\ Sound(e, newer) /\ e.cache = store.cache
    BY <2>1, <2>5, <1>4, CleanedSound
  <2>7. InOrderGone(e)
    BY <2>6, <1>10 DEF InOrderGone
  <2> QED  BY <2>6, <2>7, <1>5, <1>7, <1>8 DEF Evicts
<1> QED  BY <1>12, <1>13

LEMMA OneWithout ==
  ASSUME NEW store, NEW pairs, Sound(store, pairs), NEW n \in DOMAIN store.item
  PROVE  /\ Sound(Prio!Without(store, {n}), pairs)
         /\ DOMAIN Prio!Without(store, {n}).cache = DOMAIN store.cache \ {store.item[n].key}
<1>1. PICK one \in SUBSET (DOMAIN store.item) : one = {n}
  OBVIOUS
<1>2. /\ Sound(Prio!Without(store, one), pairs)
      /\ Prio!Without(store, one).cache =
           [k \in DOMAIN store.cache \ KeysOf(store.item, one) |-> store.cache[k]]
  BY <1>1, WithoutSound
<1>3. KeysOf(store.item, one) = {store.item[n].key}
  BY <1>1 DEF KeysOf
<1> QED  BY <1>1, <1>2, <1>3

\* Nothing has expired: the last item of the lowest priority goes.
LEMMA EvictsLowest ==
  ASSUME Sound(Prio!Stored, newer), Cardinality(DOMAIN cache) <= Most,
         Cardinality(DOMAIN cache) >= MaxItems,
         \A n \in DOMAIN item : ~Prio!Expired(n)
  PROVE  Evicts(Prio!Evicted)
<1>0. Keyed(item, cache) /\ Listed(lists, item)
  BY StoredIs
<1>1. Prio!FirstExpired = {}
  BY FirstExpiredIs
<1>2. PICK store : /\ store = Prio!EvictExpired /\ Sound(store, newer)
                   /\ DOMAIN store.item = DOMAIN item /\ Agree(item, store.item)
                   /\ DOMAIN store.cache = DOMAIN cache /\ Agree(cache, store.cache)
  <2>1. Prio!EvictExpired = Prio!Without(Prio!Stored, {})
    BY <1>1 DEF Prio!EvictExpired
  <2>2. /\ Sound(Prio!Without(Prio!Stored, {}), newer)
        /\ Prio!Without(Prio!Stored, {}).item =
             [n \in DOMAIN Prio!Stored.item \ {} |-> Prio!Stored.item[n]]
        /\ Prio!Without(Prio!Stored, {}).cache =
             [k \in DOMAIN Prio!Stored.cache \ KeysOf(Prio!Stored.item, {}) |->
                Prio!Stored.cache[k]]
    BY WithoutSound
  <2>3. /\ Prio!Without(Prio!Stored, {}).item = [n \in DOMAIN item |-> item[n]]
        /\ Prio!Without(Prio!Stored, {}).cache = [k \in DOMAIN cache |-> cache[k]]
    BY <2>2, StoredIs DEF KeysOf
  <2> QED  BY <2>1, <2>2, <2>3 DEF Agree
<1>3. /\ \A n \in DOMAIN item : store.item[n] = item[n]
      /\ \A k \in DOMAIN cache : store.cache[k] = cache[k]
  BY <1>2 DEF Agree
<1>4. PICK c \in Nat : /\ c = Cardinality(DOMAIN cache) /\ IsFiniteSet(DOMAIN cache)
                       /\ Prio!Cardinality(DOMAIN store.cache) = c
  BY <1>0, <1>2, FS_CardinalityType, CardinalityIs DEF Keyed
<1>5. PICK e : e = Prio!Evicted /\ e = Prio!EvictLowest(store)
  BY <1>2, <1>4, MostIs DEF Prio!Evicted
<1>6. CASE Prio!InUse(store) = {}
  <2>1. e = Prio!Cleaned(store)
    BY <1>5, <1>6 DEF Prio!EvictLowest
  <2>2. Sound(e, newer) /\ e.cache = store.cache
    BY <2>1, <1>2, CleanedSound
  <2>3. DOMAIN cache = {}
    <3> SUFFICES ASSUME NEW k \in DOMAIN cache  PROVE FALSE
      OBVIOUS
    <3>1. PICK n \in DOMAIN store.item : TRUE
      BY <1>0, <1>2 DEF Keyed
    <3>2. PICK p : /\ p \in DOMAIN store.lists /\ InList(n, store.lists[p])
                   /\ store.lists[p] \in Seq(Nat)
      BY <1>2 DEF Sound, Listed
    <3>3. store.lists[p] # << >>
      <4>1. store.lists[p] = << >> => Len(store.lists[p]) = 0
        OBVIOUS
      <4> QED  BY <3>2, <4>1 DEF InList
    <3> QED  BY <3>2, <3>3, <1>6 DEF Prio!InUse
  <2>4. InOrderGone(e)
    BY <2>3 DEF InOrderGone
  <2>5. Cardinality(DOMAIN e.cache) < Most
    BY <2>2, <2>3, <1>2, FS_EmptySet, MostIs
  <2> QED  BY <2>2, <2>4, <2>5, <1>2, <1>5 DEF Evicts
<1>7. CASE Prio!InUse(store) # {}
  <2>1. /\ Prio!InUse(store) \subseteq Int /\ IsFiniteSet(Prio!InUse(store))
        /\ Prio!InUse(store) \subseteq DOMAIN store.lists
    <3>1. Prio!InUse(store) \subseteq DOMAIN store.lists /\ DOMAIN store.lists \subseteq Priorities
      BY <1>2 DEF Prio!InUse, Sound, Listed
    <3> QED  BY <3>1, PrioritiesAre, FS_Subset
  <2>2. PICK p : /\ p = Prio!Min(Prio!InUse(store)) /\ p \in Prio!InUse(store)
                 /\ \A r \in Prio!InUse(store) : p <= r
    BY <2>1, <1>7, LeastIs
  <2>3. PICK s \in Seq(Nat) : /\ s = store.lists[p] /\ s # << >>
                              /\ \A i, j \in 1..Len(s) : s[i] = s[j] => i = j
                              /\ \A i \in 1..Len(s) :
                                   s[i] \in DOMAIN store.item /\ store.item[s[i]].priority = p
    <3>1. p \in DOMAIN store.lists /\ store.lists[p] # << >>
      BY <2>2 DEF Prio!InUse
    <3>2. Listed(store.lists, store.item)
      BY <1>2 DEF Sound
    <3>3. /\ store.lists[p] \in Seq(Nat)
          /\ \A i, j \in 1..Len(store.lists[p]) : store.lists[p][i] = store.lists[p][j] => i = j
          /\ \A i \in 1..Len(store.lists[p]) :
               /\ store.lists[p][i] \in DOMAIN store.item
               /\ store.item[store.lists[p][i]].priority = p
      BY <3>1, <3>2 DEF Listed
    <3> QED  BY <3>1, <3>3
  <2>4. PICK l \in Nat \ {0} : l = Len(s) /\ l \in 1..Len(s)
    BY <2>3, EmptySeq
  <2>5. PICK n \in DOMAIN item : n = s[l] /\ n = Prio!Last(s) /\ item[n].priority = p
    BY <2>3, <2>4, <1>2, <1>3 DEF Prio!Last
  <2>6. PICK k1 \in DOMAIN cache : k1 = item[n].key /\ cache[k1] = n
    BY <1>0 DEF Keyed
  <2>7. PICK w : /\ w = Prio!Without(store, {n}) /\ Sound(w, newer)
                 /\ DOMAIN w.cache = DOMAIN cache \ {k1}
    <3>1. n \in DOMAIN store.item /\ Sound(store, newer) /\ store.item[n].key = k1
      BY <2>6, <1>2, <1>3
    <3>2. /\ Sound(Prio!Without(store, {n}), newer)
          /\ DOMAIN Prio!Without(store, {n}).cache = DOMAIN store.cache \ {k1}
      BY <3>1, OneWithout
    <3> QED  BY <3>2, <1>2
  <2>8. e = Prio!Cleaned(w)
    BY <2>2, <2>3, <2>5, <2>7, <1>5, <1>7 DEF Prio!EvictLowest
  <2>9. Sound(e, newer) /\ DOMAIN e.cache = DOMAIN cache \ {k1}
    BY <2>7, <2>8, CleanedSound
  <2>10. Cardinality(DOMAIN e.cache) < Most
    <3>1. Cardinality(DOMAIN e.cache) = c - 1
      BY <2>9, <1>4, FS_RemoveElement
    <3> QED  BY <3>1, <1>4, MostIs
  <2>11. ASSUME NEW j \in DOMAIN cache \ {k1}
         PROVE  /\ ~Prio!Expired(cache[j]) /\ item[cache[j]].priority >= p
                /\ item[cache[j]].priority = p => <<j, k1>> \in newer
    <3>1. PICK m \in DOMAIN item : /\ m = cache[j] /\ item[m].key = j /\ m # n
                                   /\ store.item[m] = item[m]
      BY <2>6, <1>0, <1>3 DEF Keyed
    <3>2. PICK r : /\ r = item[m].priority /\ r \in DOMAIN store.lists
                   /\ InList(m, store.lists[r]) /\ store.lists[r] \in Seq(Nat)
      BY <3>1, <1>2 DEF Sound, Listed
    <3>3. r \in Prio!InUse(store)
      <4>1. store.lists[r] = << >> => Len(store.lists[r]) = 0
        OBVIOUS
      <4>2. store.lists[r] # << >>
        BY <3>2, <4>1 DEF InList
      <4> QED  BY <3>2, <4>2 DEF Prio!InUse
    <3>4. p <= r /\ p \in Int /\ r \in Int
      BY <3>3, <2>1, <2>2
    <3>5. ASSUME r = p  PROVE <<j, k1>> \in newer
      <4>1. PICK i \in 1..l : m = s[i]
        BY <3>2, <3>5, <2>3, <2>4 DEF InList
      <4>2. i # l
        BY <4>1, <3>1, <2>5
      <4>3. i \in 1..Len(s) /\ i < l
        BY <4>1, <4>2, <2>4
      <4>4. <<store.item[s[i]].key, store.item[s[l]].key>> \in newer
        BY <4>3, <2>1, <2>2, <2>3, <2>4, <1>2 DEF Sound, Ordered
      <4> QED  BY <4>1, <4>4, <3>1, <2>5, <2>6, <1>3
    <3> QED  BY <3>1, <3>2, <3>4, <3>5
  <2>12. InOrderGone(e)
    BY <2>5, <2>6, <2>9, <2>11 DEF InOrderGone
  <2> QED  BY <2>9, <2>10, <2>12, <1>5 DEF Evicts
<1> QED  BY <1>6, <1>7

LEMMA EvictedIs ==
  ASSUME Sound(Prio!Stored, newer), Cardinality(DOMAIN cache) <= Most,
         Cardinality(DOMAIN cache) >= MaxItems
  PROVE  Evicts(Prio!Evicted)
<1>1. CASE \E n \in DOMAIN item : Prio!Expired(n)
  BY <1>1, EvictsExpired
<1>2. CASE \A n \in DOMAIN item : ~Prio!Expired(n)
  BY <1>2, EvictsLowest
<1> QED  BY <1>1, <1>2

--------------------------------------------------------------------------------
(***************************************************************************)
(* The steps of the priority cache.                                        *)
(***************************************************************************)
CacheInv ==
  /\ PrioInv
  /\ Sound(Prio!Stored, newer)
  /\ Cardinality(DOMAIN cache) <= Most

LEMMA CacheInvIs ==
  ASSUME CacheInv
  PROVE  /\ Keyed(item, cache) /\ Listed(lists, item) /\ Ordered(lists, item, newer)
         /\ Cardinality(DOMAIN cache) \in Nat /\ Cardinality(DOMAIN cache) <= Most
<1>1. Keyed(item, cache) /\ Listed(lists, item) /\ Ordered(lists, item, newer)
  BY StoredIs DEF CacheInv
<1> QED  BY <1>1, FS_CardinalityType DEF CacheInv, Keyed

LEMMA CacheInvNext ==
  ASSUME PrioInv', NEW store, Prio!Becomes(store), Sound(store, newer'),
         Cardinality(DOMAIN store.cache) <= Most
  PROVE  CacheInv'
<1>1. lists' = store.lists /\ item' = store.item /\ cache' = store.cache
  BY DEF Prio!Becomes
<1>2. /\ Prio!Stored'.lists = lists' /\ Prio!Stored'.item = item'
      /\ Prio!Stored'.cache = cache'
  BY DEF Prio!Stored, Prio!Store
<1>3. Sound(Prio!Stored', newer')
  BY <1>1, <1>2 DEF Sound
<1> QED  BY <1>1, <1>3 DEF CacheInv, Sound

\* A key that is used comes before the others, whose order stays.
LEMMA UsedIs ==
  ASSUME NEW key, Prio!Used(key)
  PROVE  /\ \A j, k \in DOMAIN cache' :
              <<j, k>> \in newer /\ j # key /\ k # key => <<j, k>> \in newer'
         /\ \A k \in DOMAIN cache' :
              key \in DOMAIN cache' /\ k \in DOMAIN cache /\ k # key => <<key, k>> \in newer'
BY DEF Prio!Used, Prio!StillCached

LEMMA GetExpiredSound ==
  ASSUME CacheInv, PrioInv', NEW key, Prio!GetExpired(key)
  PROVE  CacheInv'
<1>1. key \in DOMAIN cache
  BY DEF Prio!GetExpired
<1>2. PICK freed : Prio!Becomes(Left(key, freed))
  BY DEF Prio!GetExpired, Left
<1>3. PICK store : /\ store = Left(key, freed) /\ Prio!Becomes(store) /\ Sound(store, newer)
                   /\ store.cache = [k \in DOMAIN cache \ {key} |-> cache[k]]
  BY <1>1, <1>2, RemovedSound DEF CacheInv
<1>4. Sound(store, newer')
  <2>1. cache' = store.cache /\ newer' = Prio!StillCached(newer)
    BY <1>3 DEF Prio!GetExpired, Prio!Forget, Prio!Becomes
  <2>2. \A j, k \in DOMAIN store.cache : <<j, k>> \in newer => <<j, k>> \in newer'
    BY <2>1 DEF Prio!StillCached
  <2> QED  BY <2>2, <1>3, OrderedOn
<1>5. Cardinality(DOMAIN store.cache) <= Most
  <2>1. PICK c \in Nat : c = Cardinality(DOMAIN cache) /\ c <= Most /\ IsFiniteSet(DOMAIN cache)
    BY CacheInvIs DEF Keyed
  <2>2. DOMAIN store.cache = DOMAIN cache \ {key}
    BY <1>3
  <2>3. Cardinality(DOMAIN store.cache) = c - 1
    BY <2>1, <2>2, <1>1, FS_RemoveElement
  <2> QED  BY <2>1, <2>3, MostIs
<1> QED  BY <1>3, <1>4, <1>5, CacheInvNext

LEMMA GetHitSound ==
  ASSUME CacheInv, PrioInv', NEW key, Prio!GetHit(key)
  PROVE  CacheInv'
<1>0. Keyed(item, cache) /\ Listed(lists, item) /\ Ordered(lists, item, newer)
  BY CacheInvIs
<1>1. key \in DOMAIN cache /\ item' = item /\ cache' = cache /\ Prio!Used(key)
  BY DEF Prio!GetHit
<1>2. PICK n \in DOMAIN item : n = cache[key] /\ item[n].key = key /\ n \in Nat
  BY <1>0, <1>1 DEF Keyed
<1>3. PICK pr : pr = item[n].priority /\ pr \in DOMAIN lists /\ pr \in Priorities
  BY <1>0 DEF Listed
<1>4. lists' = [lists EXCEPT ![pr] = <<n>> \o Prio!Kept(@, {n})]
  BY <1>2, <1>3 DEF Prio!GetHit
<1>5. PICK ls1, it1, ca1 : /\ ls1 = [lists EXCEPT ![pr] = Prio!Kept(@, {n})]
                           /\ it1 = [m \in DOMAIN item \ {n} |-> item[m]]
                           /\ ca1 = [k \in DOMAIN cache \ {key} |-> cache[k]]
  OBVIOUS
<1>6. Thinned(lists, ls1, {n}) /\ DOMAIN ls1 = DOMAIN lists
      /\ ls1[pr] = Prio!Kept(lists[pr], {n})
      /\ \A p \in DOMAIN lists : p # pr => ls1[p] = lists[p]
  BY <1>0, <1>3, <1>5, OneThinned
<1>7. DOMAIN it1 = DOMAIN item \ {n} /\ Agree(item, it1)
  BY <1>5 DEF Agree
<1>8. Listed(ls1, it1) /\ Ordered(ls1, it1, newer)
  BY <1>0, <1>6, <1>7, ThinnedListed
<1>9. DOMAIN ca1 = DOMAIN cache \ {item[m].key : m \in {n}} /\ Agree(cache, ca1)
  BY <1>2, <1>5 DEF Agree
<1>10. Keyed(it1, ca1)
  BY <1>0, <1>7, <1>9, WithoutKeyed
<1>11. PICK store : /\ store = Prio!Store(ls1, it1, ca1) /\ Sound(store, newer)
                    /\ store.lists = ls1 /\ store.item = it1 /\ store.cache = ca1
  <2>1. /\ Prio!Store(ls1, it1, ca1).lists = ls1 /\ Prio!Store(ls1, it1, ca1).item = it1
        /\ Prio!Store(ls1, it1, ca1).cache = ca1
    BY StoreIs
  <2> QED  BY <2>1, <1>8, <1>10 DEF Sound
<1>12. Ordered(ls1, it1, newer')
  <2>1. \A j, k \in DOMAIN store.cache : <<j, k>> \in newer => <<j, k>> \in newer'
    BY <1>1, <1>5, <1>11, UsedIs
  <2>2. Sound(store, newer')
    BY <2>1, <1>11, OrderedOn
  <2> QED  BY <2>2, <1>11 DEF Sound
<1>13. Grown(it1, item, n, item[n])
  BY <1>5 DEF Grown, Agree
<1>14. Fronted(ls1, lists', n, pr)
  <2>1. DOMAIN lists' = DOMAIN lists /\ lists'[pr] = <<n>> \o Prio!Kept(lists[pr], {n})
        /\ \A p \in DOMAIN lists : p # pr => lists'[p] = lists[p]
    BY <1>3, <1>4
  <2> QED  BY <2>1, <1>3, <1>6 DEF Fronted
<1>15. \A m \in DOMAIN it1 : <<item[n].key, it1[m].key>> \in newer'
  <2> SUFFICES ASSUME NEW m \in DOMAIN it1  PROVE <<item[n].key, it1[m].key>> \in newer'
    OBVIOUS
  <2>1. it1[m].key \in DOMAIN ca1
    BY <1>10 DEF Keyed
  <2>2. it1[m].key \in DOMAIN cache /\ it1[m].key # key
    BY <2>1, <1>5
  <2> QED  BY <2>2, <1>1, <1>2, UsedIs
<1>16. Listed(lists', item) /\ Ordered(lists', item, newer')
  <2>1. DOMAIN it1 \subseteq Nat /\ n \in Nat /\ item[n].priority = pr
    BY <1>2, <1>3, <1>10 DEF Keyed
  <2> QED  BY <2>1, <1>3, <1>8, <1>12, <1>13, <1>14, <1>15, FrontListed
<1>17. PICK store2 : /\ Prio!Becomes(store2) /\ Sound(store2, newer')
                     /\ store2.cache = cache
  <2>1. PICK ls2 : ls2 = lists'
    OBVIOUS
  <2>2. /\ Prio!Store(ls2, item, cache).lists = ls2 /\ Prio!Store(ls2, item, cache).item = item
        /\ Prio!Store(ls2, item, cache).cache = cache
    BY StoreIs
  <2> QED  BY <2>1, <2>2, <1>0, <1>1, <1>16 DEF Sound, Prio!Becomes
<1> QED  BY <1>17, CacheInvNext, CacheInvIs

\* Nothing that is read in freed memory tells the two stores apart.
LEMMA PushedOnLeft ==
  ASSUME CacheInv, NEW key \in DOMAIN cache, NEW freed, NEW it
  PROVE  Prio!Pushed(Prio!Removed(cache[key], freed), key, it)
           = Prio!Pushed(Left(key, freed), key, it)
<1>1. PICK rem, left : /\ rem = Prio!Removed(cache[key], freed) /\ left = Left(key, freed)
                       /\ left.lists = rem.lists /\ left.item = rem.item
                       /\ left.cache = [k \in DOMAIN cache \ {key} |-> cache[k]]
  <2>1. /\ Left(key, freed).lists = Prio!Removed(cache[key], freed).lists
        /\ Left(key, freed).item = Prio!Removed(cache[key], freed).item
        /\ Left(key, freed).cache = [k \in DOMAIN cache \ {key} |-> cache[k]]
    BY RemovedSound DEF CacheInv
  <2> QED  BY <2>1
<1>2. rem.cache = cache
  BY <1>1, RemovedHolds DEF CacheInv
<1>3. PICK n : n = Prio!NewNode(rem.item)
  OBVIOUS
<1>4. [j \in DOMAIN rem.cache \cup {key} |-> IF j = key THEN n ELSE rem.cache[j]]
        = [j \in DOMAIN left.cache \cup {key} |-> IF j = key THEN n ELSE left.cache[j]]
  BY <1>1, <1>2
<1>5. Prio!Pushed(rem, key, it) = Prio!Pushed(left, key, it)
  BY <1>1, <1>3, <1>4 DEF Prio!Pushed
<1> QED  BY <1>1, <1>5

\* What Set pushes the new item on: a sound store with room, without the key.
Makes(store, key) ==
  /\ Sound(store, newer) /\ DOMAIN store.cache \subseteq DOMAIN cache \ {key}
  /\ Cardinality(DOMAIN store.cache) < Most

LEMMA SetMakes ==
  ASSUME CacheInv, NEW key, NEW it, Prio!Set(key, it)
  PROVE  \E store : /\ Prio!Becomes(Prio!Pushed(store, key, it)) /\ Makes(store, key)
                    /\ \A k \in DOMAIN cache \ DOMAIN store.cache :
                         \/ k = key
                         \/ store = Prio!Evicted /\ Cardinality(DOMAIN cache) >= MaxItems
<1>0. Keyed(item, cache)
  BY CacheInvIs
<1>1. PICK c \in Nat : /\ c = Cardinality(DOMAIN cache) /\ c <= Most /\ IsFiniteSet(DOMAIN cache)
                       /\ Prio!Cardinality(DOMAIN cache) = c
  BY <1>0, CacheInvIs, CardinalityIs DEF Keyed
<1>2. CASE key \in DOMAIN cache
  <2>1. PICK freed : Prio!Becomes(Prio!Pushed(Prio!Removed(cache[key], freed), key, it))
    BY <1>2 DEF Prio!Set
  <2>2. PICK left : /\ left = Left(key, freed) /\ Sound(left, newer)
                    /\ left.cache = [k \in DOMAIN cache \ {key} |-> cache[k]]
    BY <1>2, RemovedSound DEF CacheInv
  <2>3. Prio!Becomes(Prio!Pushed(left, key, it))
    BY <2>1, <2>2, <1>2, PushedOnLeft
  <2>4. DOMAIN left.cache = DOMAIN cache \ {key}
    BY <2>2
  <2>5. Cardinality(DOMAIN left.cache) = c - 1
    BY <2>4, <1>1, <1>2, FS_RemoveElement
  <2>6. Makes(left, key)
    BY <2>2, <2>4, <2>5, <1>1, MostIs DEF Makes
  <2> QED  BY <2>3, <2>4, <2>6
<1>3. CASE key \notin DOMAIN cache /\ c >= MaxItems
  <2>1. Prio!Becomes(Prio!Pushed(Prio!Evicted, key, it))
    BY <1>1, <1>3 DEF Prio!Set
  <2>2. Evicts(Prio!Evicted)
    BY <1>1, <1>3, EvictedIs DEF CacheInv
  <2>3. Makes(Prio!Evicted, key)
    BY <2>2, <1>3 DEF Evicts, Makes
  <2> QED  BY <2>1, <2>3, <1>1, <1>3
<1>4. CASE key \notin DOMAIN cache /\ ~(c >= MaxItems)
  <2>1. PICK store : store = Prio!Stored /\ store.cache = cache /\ Sound(store, newer)
    BY StoredIs DEF CacheInv
  <2>2. Prio!Becomes(Prio!Pushed(store, key, it))
    BY <2>1, <1>1, <1>4 DEF Prio!Set
  <2>3. c < Most
    BY <1>4, MostIs DEF Most
  <2>4. Makes(store, key)
    BY <2>1, <2>3, <1>1, <1>4 DEF Makes
  <2> QED  BY <2>1, <2>2, <2>4
<1> QED  BY <1>2, <1>3, <1>4

LEMMA SetSound ==
  ASSUME CacheInv, PrioInv', NEW key, NEW it, it.key = key, it.priority \in Priorities,
         Prio!Set(key, it)
  PROVE  CacheInv'
<1>1. PICK store : Prio!Becomes(Prio!Pushed(store, key, it)) /\ Makes(store, key)
  BY SetMakes
<1>2. PICK pushed : pushed = Prio!Pushed(store, key, it) /\ Prio!Becomes(pushed)
  BY <1>1
<1>3. DOMAIN pushed.cache = DOMAIN store.cache \cup {key}
  <2>1. PICK n : n = Prio!NewNode(store.item)
    OBVIOUS
  <2>2. Prio!Pushed(store, key, it).cache =
          [j \in DOMAIN store.cache \cup {key} |-> IF j = key THEN n ELSE store.cache[j]]
    BY <2>1, StoreIs DEF Prio!Pushed
  <2> QED  BY <2>2, <1>2
<1>4. cache' = pushed.cache /\ Prio!Used(key)
  BY <1>2 DEF Prio!Set, Prio!Becomes
<1>5. /\ Sound(store, newer) /\ DOMAIN store.cache \subseteq DOMAIN cache
      /\ key \notin DOMAIN store.cache
  BY <1>1 DEF Makes
<1>6. Sound(store, newer')
  <2>1. \A j, k \in DOMAIN store.cache : <<j, k>> \in newer => <<j, k>> \in newer'
    BY <1>3, <1>4, <1>5, UsedIs
  <2> QED  BY <2>1, <1>5, OrderedOn
<1>7. Sound(pushed, newer')
  <2>1. \A k \in DOMAIN store.cache : <<it.key, k>> \in newer'
    BY <1>3, <1>4, <1>5, UsedIs
  <2> QED  BY <2>1, <1>2, <1>5, <1>6, PushedSound
<1>8. Cardinality(DOMAIN pushed.cache) <= Most
  <2>1. PICK d \in Nat : d = Cardinality(DOMAIN store.cache) /\ d < Most
                         /\ IsFiniteSet(DOMAIN store.cache)
    BY <1>1, FS_CardinalityType DEF Makes, Sound, Keyed
  <2>2. Cardinality(DOMAIN pushed.cache) = d + 1
    BY <2>1, <1>3, <1>5, FS_AddElement
  <2> QED  BY <2>1, <2>2, MostIs
<1> QED  BY <1>2, <1>7, <1>8, CacheInvNext

LEMMA CacheStays ==
  ASSUME CacheInv, UNCHANGED <<lists, item, cache, last, newer>>
  PROVE  CacheInv'
<1>1. PrioInv'
  BY DEF CacheInv, PrioInv, Holds, Prio!Stored, Prio!Store
<1>2. PICK store : store = Prio!Stored /\ Prio!Becomes(store) /\ Sound(store, newer')
                   /\ store.cache = cache
  BY StoredIs DEF CacheInv, Prio!Becomes
<1> QED  BY <1>1, <1>2, CacheInvNext, CacheInvIs

LEMMA CacheStep == CacheInv /\ [Prio!Next]_(Prio!vars) => CacheInv'
<1> SUFFICES ASSUME CacheInv, [Prio!Next]_(Prio!vars)  PROVE CacheInv'
  OBVIOUS
<1>0. PrioInv'
  BY PrioStep DEF CacheInv
<1>1. CASE UNCHANGED Prio!vars
  BY <1>1, CacheStays DEF Prio!vars, Prio!storeVars
<1>2. ASSUME NEW k \in Keys, Prio!Get(k)  PROVE CacheInv'
  <2>1. CASE Prio!GetAbsent(k)
    BY <2>1, CacheStays DEF Prio!GetAbsent, Prio!storeVars
  <2>2. CASE Prio!GetExpired(k)
    BY <2>2, <1>0, GetExpiredSound
  <2>3. CASE Prio!GetHit(k)
    BY <2>3, <1>0, GetHitSound
  <2>4. CASE Prio!GetDamaged
    BY <2>4, CacheStays DEF Prio!GetDamaged, Prio!storeVars
  <2> QED  BY <2>1, <2>2, <2>3, <2>4, <1>2 DEF Prio!Get
<1>3. ASSUME NEW k \in Keys, NEW v \in Values, NEW p \in Priorities, NEW e \in Expiries,
             Prio!Set(k, [key |-> k, value |-> v, priority |-> p, expireTime |-> e])
      PROVE  CacheInv'
  <2>1. PICK it : /\ it = [key |-> k, value |-> v, priority |-> p, expireTime |-> e]
                  /\ it.key = k /\ it.priority \in Priorities /\ Prio!Set(k, it)
    BY <1>3
  <2> QED  BY <2>1, <1>0, SetSound
<1>4. CASE Prio!Tick
  BY <1>4, CacheStays DEF Prio!Tick, Prio!storeVars
<1> QED  BY <1>1, <1>2, <1>3, <1>4 DEF Prio!Next

LEMMA CacheStart == Prio!Init => CacheInv
<1> SUFFICES ASSUME Prio!Init  PROVE CacheInv
  OBVIOUS
<1>1. item = << >> /\ cache = << >> /\ last = << >> /\ lists = << >>
  BY DEF Prio!Init
<1>2. DOMAIN item = {} /\ DOMAIN cache = {} /\ DOMAIN last = {} /\ DOMAIN lists = {}
  BY <1>1
<1>3. PrioInv
  BY <1>2, StoreIs, FS_EmptySet DEF PrioInv, Holds, Prio!Stored
<1>4. Keyed(item, cache) /\ Listed(lists, item) /\ Ordered(lists, item, newer)
  BY <1>2, FS_EmptySet DEF Keyed, Listed, Ordered
<1>5. Cardinality(DOMAIN cache) <= Most
  BY <1>2, FS_EmptySet, MostIs
<1> QED  BY <1>3, <1>4, <1>5, StoredIs DEF CacheInv

(***************************************************************************)
(* priority_LRU.cpp: in every state every iterator in cache names a live   *)
(* node with its key, every node is once in the list of its priority, each *)
(* list is in the order of the last use, and no more items are cached than *)
(* maxItems (one if that is 0), whatever was read from freed memory.       *)
(***************************************************************************)
THEOREM CacheInvariance == Prio!Spec => []CacheInv
BY CacheStart, CacheStep, PTL DEF Prio!Spec

LEMMA PrioPartsAgree == CacheInv => Prio!TypeOK
<1> SUFFICES ASSUME CacheInv  PROVE Prio!TypeOK
  OBVIOUS
<1>0. Keyed(item, cache) /\ Listed(lists, item)
  BY CacheInvIs
<1>1. DOMAIN item = {cache[k] : k \in DOMAIN cache}
      /\ \A k \in DOMAIN cache : item[cache[k]].key = k
  BY <1>0 DEF Keyed
<1>2. ASSUME NEW p \in DOMAIN lists
      PROVE  /\ Prio!ToSet(lists[p]) = {n \in DOMAIN item : item[n].priority = p}
             /\ Prio!IsInjective(lists[p])
  <2>1. PICK s \in Seq(Nat) : s = lists[p] /\ DOMAIN s = 1..Len(s)
    BY <1>0, LenProperties DEF Listed
  <2>2. \A i, j \in 1..Len(s) : s[i] = s[j] => i = j
    BY <2>1, <1>0 DEF Listed
  <2>3. \A i \in 1..Len(s) : s[i] \in DOMAIN item /\ item[s[i]].priority = p
    BY <2>1, <1>0 DEF Listed
  <2>4. \A n \in DOMAIN item : item[n].priority = p => \E i \in 1..Len(s) : n = s[i]
    BY <2>1, <1>0 DEF Listed, InList
  <2> QED  BY <2>1, <2>2, <2>3, <2>4 DEF Prio!ToSet, Prio!IsInjective
<1>3. \A n \in DOMAIN item : item[n].priority \in DOMAIN lists
  BY <1>0 DEF Listed
<1>4. Prio!Cardinality(DOMAIN cache) <= Prio!Max({1, MaxItems})
  BY CacheInvIs, CardinalityIs, MostIs
<1> QED  BY <1>1, <1>2, <1>3, <1>4 DEF Prio!TypeOK

\* What EvictsInOrder allows to leave.
MayGo(k) ==
  \/ Prio!Outdated(k)
  \/ /\ Prio!Cardinality(DOMAIN cache) >= MaxItems
     /\ \A j \in DOMAIN cache \ {k} :
          /\ ~Prio!Outdated(j)
          /\ last[j].priority >= last[k].priority
          /\ last[j].priority = last[k].priority => <<j, k>> \in newer

LEMMA GoneInOrder ==
  ASSUME CacheInv, Prio!Next, NEW k \in DOMAIN cache \ DOMAIN cache'
  PROVE  MayGo(k)
<1>1. \A j \in DOMAIN cache : item[cache[j]] = last[j]
  BY PrioInvIs DEF CacheInv
<1>2. ASSUME NEW key \in Keys, Prio!Get(key)  PROVE MayGo(k)
  <2>1. Prio!GetExpired(key)
    BY <1>2 DEF Prio!Get, Prio!GetAbsent, Prio!GetHit, Prio!GetDamaged, Prio!storeVars
  <2>2. PICK freed : /\ Prio!Becomes(Left(key, freed)) /\ key \in DOMAIN cache
                     /\ Prio!Expired(cache[key])
    BY <2>1 DEF Prio!GetExpired, Left
  <2>3. cache' = [j \in DOMAIN cache \ {key} |-> cache[j]]
    BY <2>2, RemovedSound DEF CacheInv, Prio!Becomes
  <2>4. k = key
    BY <2>3
  <2> QED  BY <2>2, <2>4, <1>1 DEF MayGo, Prio!Outdated, Prio!Expired
<1>3. ASSUME NEW key, NEW it, Prio!Set(key, it)  PROVE MayGo(k)
  <2>1. PICK store :
          /\ Prio!Becomes(Prio!Pushed(store, key, it)) /\ Makes(store, key)
          /\ \A j \in DOMAIN cache \ DOMAIN store.cache :
               j = key \/ (store = Prio!Evicted /\ Cardinality(DOMAIN cache) >= MaxItems)
    BY <1>3, SetMakes
  <2>2. DOMAIN cache' = DOMAIN store.cache \cup {key}
    <3>1. PICK n : n = Prio!NewNode(store.item)
      OBVIOUS
    <3>2. Prio!Pushed(store, key, it).cache =
            [j \in DOMAIN store.cache \cup {key} |-> IF j = key THEN n ELSE store.cache[j]]
      BY <3>1, StoreIs DEF Prio!Pushed
    <3> QED  BY <3>2, <2>1 DEF Prio!Becomes
  <2>3. /\ k \in DOMAIN cache \ DOMAIN Prio!Evicted.cache
        /\ Cardinality(DOMAIN cache) >= MaxItems
    BY <2>1, <2>2
  <2>4. Evicts(Prio!Evicted)
    BY <2>3, EvictedIs DEF CacheInv
  <2>5. \/ Prio!Expired(cache[k])
        \/ \A j \in DOMAIN cache \ {k} :
             /\ ~Prio!Expired(cache[j])
             /\ item[cache[j]].priority >= item[cache[k]].priority
             /\ item[cache[j]].priority = item[cache[k]].priority => <<j, k>> \in newer
    BY <2>3, <2>4 DEF Evicts, InOrderGone
  <2>6. Prio!Cardinality(DOMAIN cache) >= MaxItems
    BY <2>3, CardinalityIs
  <2>7. \A j \in DOMAIN cache : Prio!Expired(cache[j]) <=> Prio!Outdated(j)
    BY <1>1 DEF Prio!Expired, Prio!Outdated
  <2> QED  BY <2>5, <2>6, <2>7, <1>1 DEF MayGo
<1>4. CASE Prio!Tick
  BY <1>4 DEF Prio!Tick, Prio!storeVars
<1> QED  BY <1>2, <1>3, <1>4 DEF Prio!Next

(***************************************************************************)
(* priority_LRU.cpp: an item leaves the cache only when it has expired or  *)
(* when the cache is full and it is the least recently used of the lowest  *)
(* priority, with nothing expired that could have gone instead.            *)
(***************************************************************************)
THEOREM EvictionsInOrder == Prio!Spec => EvictsInOrder
<1>1. CacheInv /\ [Prio!Next]_(Prio!vars) =>
        [\A k \in DOMAIN cache \ DOMAIN cache' :
           \/ Prio!Outdated(k)
           \/ /\ Prio!Cardinality(DOMAIN cache) >= MaxItems
              /\ \A j \in DOMAIN cache \ {k} :
                   /\ ~Prio!Outdated(j)
                   /\ last[j].priority >= last[k].priority
                   /\ last[j].priority = last[k].priority => <<j, k>> \in newer]_(Prio!vars)
  <2> SUFFICES ASSUME CacheInv, Prio!Next
               PROVE  \A k \in DOMAIN cache \ DOMAIN cache' : MayGo(k)
    BY DEF MayGo
  <2> QED  BY GoneInOrder
<1> QED
  BY <1>1, CacheInvariance, PTL DEF Prio!Spec, EvictsInOrder, Prio!EvictsInOrder

--------------------------------------------------------------------------------
(***************************************************************************)
(* The containers of a run, of which one at a time moves.                  *)
(***************************************************************************)
ContainersInv == BufferInv /\ LruInv /\ CacheInv

LEMMA ContainersStep ==
  ASSUME ContainersInv, [MCNext]_<<program, vars, lruVars, prioVars, graphVars>>
  PROVE  ContainersInv'
<1> USE DEF ContainersInv
<1>1. ASSUME UNCHANGED vars  PROVE BufferInv'
  BY <1>1, NextIInv
<1>2. ASSUME UNCHANGED lruVars  PROVE LruInv'
  BY <1>2, LruStep DEF lruVars, Lru!vars
<1>3. ASSUME UNCHANGED prioVars  PROVE CacheInv'
  BY <1>3, CacheStays DEF prioVars
<1>4. CASE Next /\ UNCHANGED <<lruVars, prioVars, graphVars>>
  BY <1>4, <1>2, <1>3, NextIInv
<1>5. CASE Lru!Next /\ UNCHANGED <<vars, prioVars, graphVars>>
  BY <1>5, <1>1, <1>3, LruStep
<1>6. CASE Prio!Next /\ UNCHANGED <<vars, lruVars, graphVars>>
  BY <1>6, <1>1, <1>2, CacheStep
<1>7. CASE UNCHANGED <<vars, lruVars, prioVars>>
  BY <1>7, <1>1, <1>2, <1>3
<1> QED  BY <1>4, <1>5, <1>6, <1>7 DEF MCNext

(***************************************************************************)
(* ring_buffer.h, LRUCache.h, priority_LRU.cpp: in every state and for     *)
(* every capacity the counters of the buffer agree, and the iterators of   *)
(* the two caches name the nodes of their keys.                            *)
(***************************************************************************)
THEOREM ContainersAgree == MCSpec => []PartsAgree
<1>1. MCInit => ContainersInv
  BY InitIInv, LruStart, CacheStart DEF MCInit, ContainersInv
<1>2. ContainersInv /\ [MCNext]_<<program, vars, lruVars, prioVars, graphVars>>
        => ContainersInv'
  BY ContainersStep
<1>3. ContainersInv => PartsAgree
  <2>1. BufferInv => TypeOK
    BY SlotIs DEF BufferInv, CountersOK, TypeOK
  <2> QED  BY <2>1, PrioPartsAgree DEF ContainersInv, PartsAgree, LruInv
<1> QED  BY <1>1, <1>2, <1>3, PTL DEF MCSpec
================================================================================
