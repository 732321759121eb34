---------------------------- MODULE CircularBuffer ----------------------------
(***************************************************************************)
(* homemade-infra/CircularBuffer: a vector of capacity_ slots, the index   *)
(* head_ of the first item, the index tail_ behind the last one and the    *)
(* number size_ of items, all of type size_t, on which arithmetic wraps    *)
(* around at Word.  It implements a dropping deque.                        *)
(***************************************************************************)
EXTENDS Integers, Sequences

CONSTANTS
  Items,
  Capacity,   \* capacity_; the constructor refuses 0
  Word,       \* 2^64: one more than the largest size_t
  Default,    \* T(), which resize() fills the slots with
  NoItem      \* no pop has returned an item yet

ASSUME CapacityAssumption ==
  Capacity \in Nat \ {0} /\ Word \in Nat /\ 2 * Capacity <= Word

VARIABLES
  buffer,     \* buffer_
  head, tail, size,
  popped      \* what the last pop returned

vars == <<buffer, head, tail, size, popped>>

Indices == 0..Capacity - 1

\* (i + 1) % capacity_
Following(i) == ((i + 1) % Word) % Capacity

\* Mutant of Preceding: without the "+ capacity_".
PrecedingNoAdd(i) == ((i - 1) % Word) % Capacity

\* (i - 1 + capacity_) % capacity_: at 0 the subtraction wraps around and the
\* addition wraps back.
Preceding(i) == ((((i - 1) % Word) + Capacity) % Word) % Capacity

is_empty == size = 0

is_full == size = Capacity

Init ==
  /\ buffer = [i \in Indices |-> Default]
  /\ head = 0 /\ tail = 0 /\ size = 0
  /\ popped = NoItem

--------------------------------------------------------------------------------
\* Mutant of push_back: size_ grows on a full buffer too.
push_back_overcount(item) ==
  /\ head' = IF is_full THEN Following(head) ELSE head
  /\ size' = size + 1
  /\ buffer' = [buffer EXCEPT ![tail] = item]
  /\ tail' = Following(tail)
  /\ UNCHANGED popped

push_back(item) ==
  /\ IF is_full
       THEN head' = Following(head) /\ UNCHANGED size
       ELSE size' = size + 1 /\ UNCHANGED head
  /\ buffer' = [buffer EXCEPT ![tail] = item]
  /\ tail' = Following(tail)
  /\ UNCHANGED popped

push_front(item) ==
  /\ IF is_full
       THEN tail' = Preceding(tail) /\ UNCHANGED size
       ELSE size' = size + 1 /\ UNCHANGED tail
  /\ head' = Preceding(head)
  /\ buffer' = [buffer EXCEPT ![head'] = item]
  /\ UNCHANGED popped

\* A pop of an empty buffer throws and changes nothing.
pop_back ==
  /\ ~is_empty
  /\ tail' = Preceding(tail)
  /\ size' = size - 1
  /\ popped' = buffer[tail']
  /\ UNCHANGED <<buffer, head>>

pop_front ==
  /\ ~is_empty
  /\ popped' = buffer[head]
  /\ head' = Following(head)
  /\ size' = size - 1
  /\ UNCHANGED <<buffer, tail>>

\* The slots keep their contents.
clear ==
  /\ size' = 0 /\ head' = 0 /\ tail' = 0
  /\ UNCHANGED <<buffer, popped>>

Next ==
  \/ \E item \in Items : push_back(item) \/ push_front(item)
  \/ pop_back \/ pop_front \/ clear

Spec == Init /\ [][Next]_vars

\* The items iterate() visits, in its order.
Contents == [k \in 1..size |-> buffer[((head + k - 1) % Word) % Capacity]]

--------------------------------------------------------------------------------
(***************************************************************************)
(* Types, and the three counters agree: tail_ is size_ slots after head_.  *)
(***************************************************************************)
TypeOK ==
  /\ buffer \in [Indices -> Items \cup {Default}]
  /\ head \in Indices /\ tail \in Indices /\ size \in 0..Capacity
  /\ popped \in Items \cup {NoItem}
  /\ tail = (head + size) % Capacity

(***************************************************************************)
(* What iterate() visits is a deque that drops from its other end when it  *)
(* is full, and the pops return its ends, wherever head_ and tail_ have    *)
(* got to in the vector.                                                   *)
(***************************************************************************)
Deque == INSTANCE DroppingDeque
  WITH Elements <- Items, Bound <- Capacity, NoResult <- NoItem,
       items <- Contents, result <- popped

ImplementsDeque == Deque!Spec
================================================================================
