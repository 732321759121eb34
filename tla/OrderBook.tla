------------------------------- MODULE OrderBook -------------------------------
(***************************************************************************)
(* The order book of homemade-infra/OrderBook: per side a map from prices  *)
(* to deques of orders, and order_index, from an order's id to its side,   *)
(* its price and an iterator into the deque.                               *)
(*                                                                         *)
(* std::deque::erase moves the elements on the shorter side of the erased  *)
(* one by one place, and an iterator keeps naming the place, not the       *)
(* element.  A deque is therefore a sequence of orders and the place       *)
(* (first) of its front; an iterator is a place.  What erase does at a     *)
(* stale iterator is undefined in C++; the model has what libstdc++ does   *)
(* while the deque stays within one node (10 orders).                      *)
(***************************************************************************)
EXTENDS Integers, Sequences, FiniteSets, FiniteSetsExt

CONSTANTS
  Ids,        \* order ids; a client uses an id for one order
  Prices,     \* a finite set of integers
  Quantities  \* what an order may ask for: nothing, or more.  The code does not look
              \* at it; a negative quantity would make the other order grow.

ASSUME BookAssumption ==
  /\ IsFiniteSet(Ids) /\ IsFiniteSet(Prices)
  /\ Prices \subseteq Int /\ Quantities \subseteq Nat

VARIABLES
  tree,       \* tree[side][price]: the level's deque; empty when there is none
  index,      \* order_index, from ids to side, price and iterator
  used,       \* the orders clients have added, by id, oldest first
  matching,   \* match() is in its loop
  moved,      \* history: the orders that an erase has moved to another place, where
              \* their iterators do not point
  astray      \* history: an erase has been given the iterator of such an order

vars == <<tree, index, used, matching, moved, astray>>

Sides == {"BUY", "SELL"}

EmptyDeque == [first |-> 0, orders |-> << >>]

Init ==
  /\ tree = [s \in Sides |-> [p \in Prices |-> EmptyDeque]]
  /\ index = << >>
  /\ used = << >>
  /\ matching = FALSE
  /\ moved = {} /\ astray = FALSE

--------------------------------------------------------------------------------
\* The iterator of the k-th order of a deque.
Place(deque, k) == deque.first + k - 1

\* Mutant of Erase: the front of the level goes.
EraseFront(deque, it) ==
  [first |-> deque.first + 1, orders |-> Tail(deque.orders)]

\* deque::erase(it) as libstdc++ has it: at the k-th order it moves the shorter
\* side, and before the front or behind the back, where a stale iterator may
\* point, what is moved is everything or nothing, so an end is lost.
Erase(deque, it) ==
  LET n == Len(deque.orders)
      k == it - deque.first + 1
  IN  IF k < 1 THEN [deque EXCEPT !.orders = SubSeq(@, 2, n)]
      ELSE IF k > n THEN [deque EXCEPT !.orders = SubSeq(@, 1, n - 1)]
      ELSE [first |-> IF k - 1 < n \div 2 THEN deque.first + 1 ELSE deque.first,
            orders |-> SubSeq(deque.orders, 1, k - 1)
                         \o SubSeq(deque.orders, k + 1, n)]

\* The places whose orders it moves, when it erases the k-th: the shorter side.
Shifted(deque, k) ==
  IF k - 1 < Len(deque.orders) \div 2 THEN 1..(k - 1) ELSE (k + 1)..Len(deque.orders)

\* A tree and an index together: what the two private updates work on.
Book(t, i) == [tree |-> t, index |-> i]

\* order_index[id] = ref
Indexed(i, id, ref) == [o \in DOMAIN i \cup {id} |-> IF o = id THEN ref ELSE i[o]]

\* Mutant of Added: a new order gets in front of its level.
AddedInFront(book, id, side, price, quantity) ==
  LET queue == book.tree[side][price]
      grown == [first |-> queue.first - 1,
                orders |-> <<[id |-> id, quantity |-> quantity]>> \o queue.orders]
  IN  Book([book.tree EXCEPT ![side][price] = grown],
           Indexed(book.index, id, [side |-> side, price |-> price, it |-> grown.first]))

\* add_order: push_back on the level, made if need be, and index the new back.
Added(book, id, side, price, quantity) ==
  LET queue == book.tree[side][price]
      grown == [queue EXCEPT !.orders = Append(@, [id |-> id, quantity |-> quantity])]
  IN  Book([book.tree EXCEPT ![side][price] = grown],
           Indexed(book.index, id, [side |-> side, price |-> price,
                                    it |-> Place(grown, Len(grown.orders))]))

\* Mutant of Cancelled: the index keeps the cancelled order.
CancelledKeepIndex(book, id) ==
  IF id \notin DOMAIN book.index THEN book
  ELSE LET ref == book.index[id]
           queue == Erase(book.tree[ref.side][ref.price], ref.it)
           level == IF queue.orders = << >> THEN EmptyDeque ELSE queue
       IN  Book([book.tree EXCEPT ![ref.side][ref.price] = level], book.index)

\* cancel_order: a level left empty is erased, and its deque with it.
Cancelled(book, id) ==
  IF id \notin DOMAIN book.index THEN book
  ELSE LET ref == book.index[id]
           queue == Erase(book.tree[ref.side][ref.price], ref.it)
           level == IF queue.orders = << >> THEN EmptyDeque ELSE queue
       IN  Book([book.tree EXCEPT ![ref.side][ref.price] = level],
                [i \in DOMAIN book.index \ {id} |-> book.index[i]])

\* The non-empty levels of a side.
Levels(side) == {p \in Prices : tree[side][p].orders # << >>}

Crossed ==
  /\ Levels("BUY") # {} /\ Levels("SELL") # {}
  /\ Max(Levels("BUY")) >= Min(Levels("SELL"))

Front(side, price) == tree[side][price].orders[1]

\* The order's quantity in the book less what it trades.
Traded(t, side, price, quantity) ==
  [t EXCEPT ![side][price].orders[1].quantity = @ - quantity]

\* Mutant of TradeQuantity: the larger of the two.
TradeLarger(buy, sell) == Max({buy.quantity, sell.quantity})

TradeQuantity(buy, sell) == Min({buy.quantity, sell.quantity})

\* Mutant of CancelIfFilled: a filled order is left in the book.
NeverCancel(book, order, quantity) == book

CancelIfFilled(book, order, quantity) ==
  IF order.quantity = quantity THEN Cancelled(book, order.id) ELSE book

--------------------------------------------------------------------------------
AddOrder(id, side, price, quantity) ==
  /\ ~matching
  /\ \A k \in 1..Len(used) : used[k].id # id
  /\ LET book == Added(Book(tree, index), id, side, price, quantity)
     IN  tree' = book.tree /\ index' = book.index
  /\ used' = Append(used, [id |-> id, side |-> side, price |-> price])
  /\ UNCHANGED <<matching, moved, astray>>

\* The orders moved when the one with this id is erased where it is.
MovedBy(id) ==
  {o \in Ids : \E s \in Sides, p \in Prices : \E k \in 1..Len(tree[s][p].orders) :
     /\ tree[s][p].orders[k].id = id
     /\ \E j \in Shifted(tree[s][p], k) : tree[s][p].orders[j].id = o}

CancelOrder(id) ==
  /\ ~matching
  /\ LET book == Cancelled(Book(tree, index), id)
     IN  tree' = book.tree /\ index' = book.index
  /\ moved' = moved \cup MovedBy(id)
  /\ astray' = (astray \/ id \in moved \cap DOMAIN index)
  /\ UNCHANGED <<used, matching>>

StartMatch ==
  /\ ~matching
  /\ matching' = TRUE
  /\ UNCHANGED <<tree, index, used, moved, astray>>

\* One turn of match()'s loop: the two best orders trade, the filled ones go.
\* (\E x \in {v} is LET x == v, with v evaluated once.)
MatchOnce ==
  /\ matching
  /\ Crossed
  /\ \E bid \in {Max(Levels("BUY"))}, ask \in {Min(Levels("SELL"))} :
     \E buy \in {Front("BUY", bid)}, sell \in {Front("SELL", ask)} :
     \E quantity \in {TradeQuantity(buy, sell)} :
     \E traded \in {Traded(Traded(tree, "BUY", bid, quantity), "SELL", ask, quantity)} :
     \E book \in {CancelIfFilled(Book(traded, index), buy, quantity)} :
     \E done \in {CancelIfFilled(book, sell, quantity)} :
       /\ tree' = done.tree /\ index' = done.index
       /\ astray' = (astray \/ \E order \in {buy, sell} :
                                order.quantity = quantity /\ order.id \in moved)
  /\ UNCHANGED <<used, matching, moved>>

EndMatch ==
  /\ matching
  /\ ~Crossed
  /\ matching' = FALSE
  /\ UNCHANGED <<tree, index, used, moved, astray>>

Next ==
  \/ \E id \in Ids, s \in Sides, p \in Prices, q \in Quantities : AddOrder(id, s, p, q)
  \/ \E id \in Ids : CancelOrder(id)
  \/ StartMatch \/ MatchOnce \/ EndMatch

Spec == Init /\ [][Next]_vars

\* match() runs on; clients are under no obligation.
FairSpec == Spec /\ WF_vars(MatchOnce \/ EndMatch)

--------------------------------------------------------------------------------
\* The ids in the book, with multiplicity one per place.
Resting == {r \in Sides \X Prices \X (1..Cardinality(Ids)) :
              r[3] <= Len(tree[r[1]][r[2]].orders)}

OrderAt(r) == tree[r[1]][r[2]].orders[r[3]]

(***************************************************************************)
(* The levels are deques of orders, no order trades more than it has, and  *)
(* order_index maps ids to places.                                         *)
(***************************************************************************)
TypeOK ==
  /\ \A s \in Sides, p \in Prices :
       /\ tree[s][p].first \in Nat
       /\ tree[s][p].orders \in Seq([id : Ids, quantity : Nat])
  /\ DOMAIN index \subseteq Ids
  /\ \A id \in DOMAIN index : index[id] \in [side : Sides, price : Prices, it : Nat]
  /\ matching \in BOOLEAN
  /\ moved \subseteq Ids /\ astray \in BOOLEAN

(***************************************************************************)
(* order_index knows every resting order, and nothing else, with its side  *)
(* and price, and its iterator names that order unless an erase has moved  *)
(* it: what cancel_order and match() rely on.  It holds until one of them  *)
(* erases by the iterator of an order that was moved; with that the code   *)
(* has left what is defined, and nothing is claimed.                       *)
(***************************************************************************)
IndexExact ==
  ~astray =>
    /\ DOMAIN index = {OrderAt(r).id : r \in Resting}
    /\ \A r \in Resting :
         \E ref \in {index[OrderAt(r).id]} :
           /\ ref.side = r[1] /\ ref.price = r[2]
           /\ OrderAt(r).id \in moved \/ ref.it = Place(tree[r[1]][r[2]], r[3])

(***************************************************************************)
(* Price and time priority: an order that trades is the oldest of the best *)
(* price on its side, however orders came and were cancelled, from inside  *)
(* their levels too (until an erase has gone astray).                      *)
(***************************************************************************)
QuantityOf(id) == {OrderAt(r).quantity : r \in {x \in Resting : OrderAt(x).id = id}}

Better(a, b) ==
  /\ a.side = b.side
  /\ IF a.side = "BUY" THEN a.price > b.price ELSE a.price < b.price

Priority ==
  \A j \in 1..Len(used) :
    matching /\ ~astray' /\ QuantityOf(used[j].id) # QuantityOf(used[j].id)' =>
      \A i \in 1..Len(used) :
        \/ QuantityOf(used[i].id) = {}
        \/ ~Better(used[i], used[j])
             /\ ~(i < j /\ used[i].side = used[j].side /\ used[i].price = used[j].price)
        \/ i = j

TradesInPriority == [][Priority]_vars

\* The order leaves the book, and every other order is left as it was.
Removes(id) ==
  \A o \in Ids : QuantityOf(o)' = IF o = id THEN {} ELSE QuantityOf(o)

(***************************************************************************)
(* cancel_order takes the order it names out of the book and leaves every  *)
(* other as it was, wherever in its level the order lies and whatever was  *)
(* cancelled before, unless an erase has moved this order.                 *)
(***************************************************************************)
CancelExact == [][\A id \in Ids : CancelOrder(id) /\ ~astray' => Removes(id)]_vars

(***************************************************************************)
(* "Cancels an existing order" (the comment above cancel_order), without a *)
(* condition.                                                              *)
(***************************************************************************)
CancelsOrder == [][\A id \in Ids : CancelOrder(id) => Removes(id)]_vars

(***************************************************************************)
(* match() comes to an end, so that the book can be used again: it never   *)
(* meets a filled order that it cannot cancel, also when orders ask for    *)
(* nothing (until an erase has gone astray).                               *)
(***************************************************************************)
MatchEnds == matching ~> ~matching \/ astray
================================================================================
