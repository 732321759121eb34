---------------------------- MODULE DroppingDeque -----------------------------
(***************************************************************************)
(* What a circular buffer promises: a double-ended queue of at most Bound  *)
(* items in which a push onto a full queue drops the item at the other     *)
(* end.  result is the item the last pop returned.                         *)
(***************************************************************************)
EXTENDS Integers, Sequences

CONSTANTS Elements, Bound, NoResult

VARIABLES items, result

dequeVars == <<items, result>>

Init == items = << >> /\ result = NoResult

Full == Len(items) = Bound

AllButLast(s) == SubSeq(s, 1, Len(s) - 1)

PushBack(x) ==
  /\ items' = Append(IF Full THEN Tail(items) ELSE items, x)
  /\ UNCHANGED result

PushFront(x) ==
  /\ items' = <<x>> \o (IF Full THEN AllButLast(items) ELSE items)
  /\ UNCHANGED result

PopBack ==
  /\ items # << >>
  /\ result' = items[Len(items)]
  /\ items' = AllButLast(items)

PopFront ==
  /\ items # << >>
  /\ result' = Head(items)
  /\ items' = Tail(items)

Clear == items' = << >> /\ UNCHANGED result

Next ==
  \/ \E x \in Elements : PushBack(x) \/ PushFront(x)
  \/ PopBack \/ PopFront \/ Clear

Spec == Init /\ [][Next]_dequeVars
================================================================================
