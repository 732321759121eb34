---------------------------- MODULE OrderBookProofs ----------------------------
(***************************************************************************)
(* Proofs about the order book, for any finite sets of ids and prices, any *)
(* quantities that are not negative, and cancels from anywhere in a level. *)
(*                                                                         *)
(* Until an erase goes astray the invariant says of the book:  Indexes:    *)
(* order_index maps exactly the resting ids to their sides, prices and,    *)
(* but for the orders that an erase has moved, their places.  Known: each  *)
(* resting order is one a client added, on its side and at its price.      *)
(* InOrder: within a level orders rest in the order they came.  The types  *)
(* hold with or without that.                                              *)
(***************************************************************************)
EXTENDS OrderBook, FiniteSetTheorems, SequenceTheorems, TLAPS

Orders == [id : Ids, quantity : Nat]
Deques == [first : Nat, orders : Seq(Orders)]
Trees == [Sides -> [Prices -> Deques]]

Refs == [side : Sides, price : Prices, it : Nat]

\* An index, exact or not.
Indices == UNION {[D -> Refs] : D \in SUBSET Ids}

\* The k-th order of a level is in the index, with its side and its price and,
\* unless it was moved, its place; and its id is in no other place of the level.
Named(t, i, mv, s, p, k) ==
  /\ t[s][p].orders[k].id \in DOMAIN i
  /\ i[t[s][p].orders[k].id].side = s
  /\ i[t[s][p].orders[k].id].price = p
  /\ t[s][p].orders[k].id \in mv \/ i[t[s][p].orders[k].id].it = Place(t[s][p], k)
  /\ \A l \in 1..Len(t[s][p].orders) : t[s][p].orders[l].id = t[s][p].orders[k].id => l = k

\* order_index maps exactly the ids that rest in the tree.
Indexes(t, i, mv) ==
  /\ \A s \in Sides, p \in Prices : \A k \in 1..Len(t[s][p].orders) : Named(t, i, mv, s, p, k)
  /\ \A id \in DOMAIN i : \E s \in Sides, p \in Prices :
       \E k \in 1..Len(t[s][p].orders) : t[s][p].orders[k].id = id

\* The orders of a tree have been added with their side and price, ...
Known(t, u) ==
  \A s \in Sides, p \in Prices : \A k \in 1..Len(t[s][p].orders) :
    \E m \in 1..Len(u) : u[m] = [id |-> t[s][p].orders[k].id, side |-> s, price |-> p]

\* ... and those of a level in the order in which they rest there.
InOrder(t, u) ==
  \A s \in Sides, p \in Prices : \A k, l \in 1..Len(t[s][p].orders) :
    \A m, n \in 1..Len(u) :
      /\ u[m].id = t[s][p].orders[k].id
      /\ u[n].id = t[s][p].orders[l].id
      /\ k < l
      => m < n

Uses == Seq([id : Ids, side : Sides, price : Prices])

BookTypes ==
  /\ tree \in Trees
  /\ index \in Indices
  /\ used \in Uses
  /\ \A m, n \in 1..Len(used) : used[m].id = used[n].id => m = n
  /\ matching \in BOOLEAN
  /\ moved \subseteq Ids
  /\ astray \in BOOLEAN

Exact ==
  /\ Indexes(tree, index, moved)
  /\ Known(tree, used)
  /\ InOrder(tree, used)

BookInv == BookTypes /\ (~astray => Exact)

--------------------------------------------------------------------------------
(***************************************************************************)
(* Max and Min of a finite set of prices are its ends: best_bid and        *)
(* best_ask.                                                               *)
(***************************************************************************)
LEMMA MinIs ==
  ASSUME NEW S \in SUBSET Int, IsFiniteSet(S), S # {}
  PROVE  Min(S) \in S /\ \A x \in S : Min(S) <= x
<1> DEFINE Up(x) == {y \in S : y <= x}
           T == {Up(x) : x \in S}
<1>1. T # {}
  OBVIOUS
<1>2. T \subseteq FiniteSubsetsOf(Int)
  <2> SUFFICES ASSUME NEW x \in S  PROVE Up(x) \in FiniteSubsetsOf(Int)
    OBVIOUS
  <2>1. Up(x) \subseteq S
    OBVIOUS
  <2>2. IsFiniteSet(Up(x))
    BY <2>1, FS_Subset
  <2> QED  BY <2>2 DEF FiniteSubsetsOf
<1>3. PICK m \in S : \A X \in T : <<X, Up(m)>> \notin StrictSubsetOrdering(Int)
  <2> HIDE DEF T
  <2>1. \E X \in T : \A Y \in T : <<Y, X>> \notin StrictSubsetOrdering(Int)
    BY <1>1, <1>2, FS_StrictSubsetOrderingWellFounded, WFMin
  <2> QED  BY <2>1 DEF T
<1>4. \A x \in S : m <= x
  <2> SUFFICES ASSUME NEW x \in S, x < m  PROVE FALSE
    OBVIOUS
  <2>1. \A y \in S : y <= x => y <= m
    OBVIOUS
  <2>2. m \in Up(m) /\ m \notin Up(x)
    OBVIOUS
  <2>3. Up(x) \subseteq Up(m) /\ Up(x) # Up(m)
    BY <2>1, <2>2
  <2>4. <<Up(x), Up(m)>> \notin StrictSubsetOrdering(Int)
    BY <1>3
  <2> QED  BY <2>3, <2>4 DEF StrictSubsetOrdering
<1> QED  BY <1>4 DEF Min

LEMMA MaxIs ==
  ASSUME NEW S \in SUBSET Int, IsFiniteSet(S), S # {}
  PROVE  Max(S) \in S /\ \A x \in S : x <= Max(S)
<1> DEFINE Up(x) == {y \in S : y >= x}
           T == {Up(x) : x \in S}
<1>1. T # {}
  OBVIOUS
<1>2. T \subseteq FiniteSubsetsOf(Int)
  <2> SUFFICES ASSUME NEW x \in S  PROVE Up(x) \in FiniteSubsetsOf(Int)
    OBVIOUS
  <2>1. Up(x) \subseteq S
    OBVIOUS
  <2>2. IsFiniteSet(Up(x))
    BY <2>1, FS_Subset
  <2> QED  BY <2>2 DEF FiniteSubsetsOf
<1>3. PICK m \in S : \A X \in T : <<X, Up(m)>> \notin StrictSubsetOrdering(Int)
  <2> HIDE DEF T
  <2>1. \E X \in T : \A Y \in T : <<Y, X>> \notin StrictSubsetOrdering(Int)
    BY <1>1, <1>2, FS_StrictSubsetOrderingWellFounded, WFMin
  <2> QED  BY <2>1 DEF T
<1>4. \A x \in S : x <= m
  <2> SUFFICES ASSUME NEW x \in S, m < x  PROVE FALSE
    OBVIOUS
  <2>1. \A y \in S : y >= x => y >= m
    OBVIOUS
  <2>2. m \in Up(m) /\ m \notin Up(x)
    OBVIOUS
  <2>3. Up(x) \subseteq Up(m) /\ Up(x) # Up(m)
    BY <2>1, <2>2
  <2>4. <<Up(x), Up(m)>> \notin StrictSubsetOrdering(Int)
    BY <1>3
  <2> QED  BY <2>3, <2>4 DEF StrictSubsetOrdering
<1> QED  BY <1>4 DEF Max

--------------------------------------------------------------------------------
LEMMA Half ==
  ASSUME NEW n \in Nat, n >= 1
  PROVE  n \div 2 \in Int /\ 0 <= n \div 2 /\ n \div 2 <= n - 1 /\ (0 < n \div 2 \/ n = 1)
OBVIOUS

\* The turn that the j-th order had before the k-th was erased.
Before(k, j) == IF j < k THEN j ELSE j + 1

(***************************************************************************)
(* erase of the k-th order: the others keep their turn, and those it does  *)
(* not move keep their place.                                              *)
(***************************************************************************)
LEMMA EraseTakesOne ==
  ASSUME NEW d \in Deques, NEW k \in 1..Len(d.orders)
  PROVE  LET e == Erase(d, Place(d, k))
         IN  /\ e \in Deques
             /\ Len(e.orders) = Len(d.orders) - 1
             /\ \A j \in 1..Len(e.orders) :
                  /\ e.orders[j] = d.orders[Before(k, j)]
                  /\ \/ Before(k, j) \in Shifted(d, k)
                     \/ Place(e, j) = Place(d, Before(k, j))
<1>0. PICK n \in Nat : n = Len(d.orders) /\ n >= 1 /\ k \in 1..n
  <2>1. Len(d.orders) \in Nat
    BY DEF Deques
  <2>2. PICK n \in Nat : n = Len(d.orders)
    BY <2>1
  <2> QED  BY <2>2
<1>1. PICK f \in Nat : f = d.first
  BY DEF Deques
<1>2. PICK q \in Seq(Orders) : q = d.orders /\ Len(q) = n
  BY <1>0 DEF Deques
<1>3. PICK h \in Int : h = n \div 2 /\ 0 <= h /\ h <= n - 1
  BY <1>0, Half
<1>4. Place(d, k) - d.first + 1 = k /\ ~(k < 1) /\ ~(k > Len(d.orders))
  BY <1>0, <1>1 DEF Place
<1>5. PICK e : e = Erase(d, Place(d, k))
  OBVIOUS
<1>6. PICK g \in Nat : g = IF k - 1 < h THEN f + 1 ELSE f
  OBVIOUS
<1>7. PICK x \in Seq(Orders), y \in Seq(Orders) : x = SubSeq(q, 1, k - 1) /\ y = SubSeq(q, k + 1, n)
  <2>1. SubSeq(q, 1, k - 1) \in Seq(Orders)
    BY <1>0, <1>2
  <2>2. SubSeq(q, k + 1, n) \in Seq(Orders)
    BY <1>0, <1>2
  <2> QED  BY <2>1, <2>2
<1>8. /\ Len(x) = k - 1 /\ Len(y) = n - k
      /\ \A j \in 1..k - 1 : x[j] = q[j]
      /\ \A j \in 1..n - k : y[j] = q[j + k]
  <2>1. Len(x) = k - 1 /\ \A j \in 1..k - 1 : x[j] = q[j]
    BY <1>0, <1>2, <1>7
  <2>2. Len(y) = n - k /\ \A j \in 1..n - k : y[j] = q[j + k]
    BY <1>0, <1>2, <1>7
  <2> QED  BY <2>1, <2>2
<1>9. e = [first |-> g, orders |-> x \o y]
  <2>1. e = [first |-> IF k - 1 < Len(d.orders) \div 2 THEN d.first + 1 ELSE d.first,
             orders |-> SubSeq(d.orders, 1, k - 1) \o SubSeq(d.orders, k + 1, Len(d.orders))]
    BY <1>4, <1>5, Zenon DEF Erase
  <2> QED  BY <2>1, <1>0, <1>1, <1>2, <1>3, <1>6, <1>7
<1>10. PICK z \in Seq(Orders) :
         /\ z = x \o y
         /\ Len(z) = Len(x) + Len(y)
         /\ \A i \in 1..Len(x) + Len(y) : z[i] = IF i <= Len(x) THEN x[i] ELSE y[i - Len(x)]
  <2>1. /\ x \o y \in Seq(Orders)
        /\ Len(x \o y) = Len(x) + Len(y)
        /\ \A i \in 1..Len(x) + Len(y) : (x \o y)[i] = IF i <= Len(x) THEN x[i] ELSE y[i - Len(x)]
    BY ConcatProperties
  <2>2. PICK z : z = x \o y
    OBVIOUS
  <2> QED  BY <2>1, <2>2, Zenon
<1>11. /\ Len(z) = n - 1
       /\ \A j \in 1..n - 1 : z[j] = q[Before(k, j)]
  <2>1. Len(z) = n - 1
    BY <1>0, <1>8, <1>10
  <2>2. ASSUME NEW j \in 1..n - 1  PROVE z[j] = q[Before(k, j)]
    <3>1. CASE j < k
      <4>0. j \in 1..k - 1 /\ j \in 1..(k - 1) + (n - k) /\ j <= k - 1
        BY <3>1, <1>0
      <4>1. z[j] = x[j]
        BY <4>0, <1>8, <1>10
      <4> QED  BY <4>0, <4>1, <3>1, <1>8 DEF Before
    <3>2. CASE ~(j < k)
      <4>0. j - (k - 1) \in 1..n - k /\ j \in 1..(k - 1) + (n - k) /\ ~(j <= k - 1)
        BY <3>2, <1>0
      <4>1. z[j] = y[j - (k - 1)]
        BY <4>0, <1>8, <1>10
      <4>2. (j - (k - 1)) + k = j + 1
        BY <1>0
      <4> QED  BY <4>0, <4>1, <4>2, <3>2, <1>8 DEF Before
    <3> QED  BY <3>1, <3>2
  <2> QED  BY <2>1, <2>2
<1>12. e \in Deques /\ e.first = g /\ e.orders = z
  BY <1>9, <1>10 DEF Deques
<1>13. ASSUME NEW j \in 1..n - 1
       PROVE  Before(k, j) \in Shifted(d, k) \/ Place(e, j) = Place(d, Before(k, j))
  <2>1. CASE k - 1 < h
    <3>1. Shifted(d, k) = 1..(k - 1) /\ g = f + 1
      BY <2>1, <1>0, <1>3, <1>6 DEF Shifted
    <3>2. CASE j < k
      BY <3>1, <3>2, <1>0 DEF Before
    <3>3. CASE ~(j < k)
      BY <3>1, <3>3, <1>0, <1>1, <1>12 DEF Before, Place
    <3> QED  BY <3>2, <3>3
  <2>2. CASE ~(k - 1 < h)
    <3>1. Shifted(d, k) = (k + 1)..n /\ g = f
      BY <2>2, <1>0, <1>3, <1>6 DEF Shifted
    <3>2. CASE j < k
      BY <3>1, <3>2, <1>0, <1>1, <1>12 DEF Before, Place
    <3>3. CASE ~(j < k)
      BY <3>1, <3>3, <1>0 DEF Before
    <3> QED  BY <3>2, <3>3
  <2> QED  BY <2>1, <2>2
<1> QED  BY <1>0, <1>2, <1>5, <1>11, <1>12, <1>13

(***************************************************************************)
(* erase at the front moves no order.                                      *)
(***************************************************************************)
LEMMA FrontMovesNone ==
  ASSUME NEW d \in Deques, 1 \in 1..Len(d.orders)
  PROVE  Shifted(d, 1) = {}
<1>1. PICK n \in Nat : n = Len(d.orders) /\ n >= 1
  <2>1. Len(d.orders) \in Nat
    BY DEF Deques
  <2> QED  BY <2>1
<1>2. PICK h \in Int : h = n \div 2 /\ (0 < h \/ n = 1)
  BY <1>1, Half
<1>3. CASE 0 < h
  <2>1. Shifted(d, 1) = 1..(1 - 1)
    BY <1>1, <1>2, <1>3 DEF Shifted
  <2> QED  BY <2>1
<1>4. CASE ~(0 < h)
  <2>1. n = 1
    BY <1>2, <1>4
  <2>2. Shifted(d, 1) = (1 + 1)..n
    BY <1>1, <1>2, <1>4 DEF Shifted
  <2> QED  BY <2>1, <2>2
<1> QED  BY <1>3, <1>4

(***************************************************************************)
(* erase leaves a deque, whatever iterator it is given.                    *)
(***************************************************************************)
LEMMA EraseTypes ==
  ASSUME NEW d \in Deques, NEW it \in Nat
  PROVE  Erase(d, it) \in Deques
<1>1. PICK f \in Nat, q \in Seq(Orders) : f = d.first /\ q = d.orders /\ d = [first |-> f, orders |-> q]
  BY DEF Deques
<1>2. PICK n \in Nat : n = Len(q)
  BY <1>1
<1>3. PICK k \in Int : k = it - d.first + 1
  BY <1>1
<1>4. CASE k < 1
  <2>1. SubSeq(q, 2, n) \in Seq(Orders)
    BY <1>1, <1>2
  <2>2. Erase(d, it) = [d EXCEPT !.orders = SubSeq(@, 2, Len(d.orders))]
    BY <1>3, <1>4 DEF Erase
  <2> QED  BY <2>1, <2>2, <1>1, <1>2 DEF Deques
<1>5. CASE k > n
  <2>0. ~(k < 1)
    BY <1>2, <1>5
  <2>1. SubSeq(q, 1, n - 1) \in Seq(Orders)
    BY <1>1, <1>2
  <2>2. Erase(d, it) = [d EXCEPT !.orders = SubSeq(@, 1, Len(d.orders) - 1)]
    BY <2>0, <1>1, <1>2, <1>3, <1>5 DEF Erase
  <2> QED  BY <2>1, <2>2, <1>1, <1>2 DEF Deques
<1>6. CASE k \in 1..n
  <2>1. ~(k < 1) /\ ~(k > n)
    BY <1>6
  <2>2. SubSeq(q, 1, k - 1) \in Seq(Orders)
    BY <1>1, <1>2, <1>6
  <2>3. SubSeq(q, k + 1, n) \in Seq(Orders)
    BY <1>1, <1>2, <1>6
  <2>4. PICK x \in Seq(Orders) : x = SubSeq(q, 1, k - 1) \o SubSeq(q, k + 1, n)
    BY <2>2, <2>3, ConcatProperties
  <2>5. PICK g \in Nat : g = IF k - 1 < n \div 2 THEN d.first + 1 ELSE d.first
    BY <1>1
  <2>6. Erase(d, it) = [first |-> g, orders |-> x]
    BY <2>1, <2>4, <2>5, <1>1, <1>2, <1>3, Zenon DEF Erase
  <2> QED  BY <2>6 DEF Deques
<1>7. k < 1 \/ k > n \/ k \in 1..n
  BY <1>2
<1> QED  BY <1>4, <1>5, <1>6, <1>7

--------------------------------------------------------------------------------
LEMMA DequeTypes ==
  ASSUME NEW t \in Trees, NEW s \in Sides, NEW p \in Prices
  PROVE  /\ t[s][p] \in Deques
         /\ t[s][p].first \in Nat
         /\ t[s][p].orders \in Seq(Orders)
         /\ Len(t[s][p].orders) \in Nat
         /\ \A k \in 1..Len(t[s][p].orders) :
              /\ t[s][p].orders[k] \in Orders
              /\ t[s][p].orders[k].id \in Ids
              /\ t[s][p].orders[k].quantity \in Nat
<1>1. t[s][p] \in Deques
  BY DEF Trees
<1>2. t[s][p].first \in Nat /\ t[s][p].orders \in Seq(Orders)
  BY <1>1 DEF Deques
<1>3. Len(t[s][p].orders) \in Nat
  BY <1>2
<1>4. \A k \in 1..Len(t[s][p].orders) : t[s][p].orders[k] \in Orders
  BY <1>2
<1> QED  BY <1>1, <1>2, <1>3, <1>4 DEF Orders

\* t2 is t less some orders; the others rest in the same order as before.
Thins(t, t2) ==
  \A s \in Sides, p \in Prices :
    /\ \A k \in 1..Len(t2[s][p].orders) : \E m \in 1..Len(t[s][p].orders) :
         t2[s][p].orders[k].id = t[s][p].orders[m].id
    /\ \A k, l \in 1..Len(t2[s][p].orders) : k < l =>
         \E m, n \in 1..Len(t[s][p].orders) :
           /\ m < n
           /\ t2[s][p].orders[k].id = t[s][p].orders[m].id
           /\ t2[s][p].orders[l].id = t[s][p].orders[n].id

LEMMA ThinsTransitive ==
  ASSUME NEW t, NEW t2, NEW t3, Thins(t, t2), Thins(t2, t3)
  PROVE  Thins(t, t3)
<1> SUFFICES ASSUME NEW s \in Sides, NEW p \in Prices
             PROVE  /\ \A k \in 1..Len(t3[s][p].orders) : \E m \in 1..Len(t[s][p].orders) :
                         t3[s][p].orders[k].id = t[s][p].orders[m].id
                    /\ \A k, l \in 1..Len(t3[s][p].orders) : k < l =>
                         \E m, n \in 1..Len(t[s][p].orders) :
                           /\ m < n
                           /\ t3[s][p].orders[k].id = t[s][p].orders[m].id
                           /\ t3[s][p].orders[l].id = t[s][p].orders[n].id
  BY DEF Thins
<1>1. ASSUME NEW k \in 1..Len(t3[s][p].orders)
      PROVE  \E m \in 1..Len(t[s][p].orders) : t3[s][p].orders[k].id = t[s][p].orders[m].id
  <2>1. PICK j \in 1..Len(t2[s][p].orders) : t3[s][p].orders[k].id = t2[s][p].orders[j].id
    BY DEF Thins
  <2>2. PICK m \in 1..Len(t[s][p].orders) : t2[s][p].orders[j].id = t[s][p].orders[m].id
    BY DEF Thins
  <2> QED  BY <2>1, <2>2
<1>2. ASSUME NEW k \in 1..Len(t3[s][p].orders), NEW l \in 1..Len(t3[s][p].orders), k < l
      PROVE  \E m, n \in 1..Len(t[s][p].orders) :
               /\ m < n
               /\ t3[s][p].orders[k].id = t[s][p].orders[m].id
               /\ t3[s][p].orders[l].id = t[s][p].orders[n].id
  <2>1. PICK i \in 1..Len(t2[s][p].orders), j \in 1..Len(t2[s][p].orders) :
          /\ i < j
          /\ t3[s][p].orders[k].id = t2[s][p].orders[i].id
          /\ t3[s][p].orders[l].id = t2[s][p].orders[j].id
    BY <1>2 DEF Thins
  <2>2. PICK m \in 1..Len(t[s][p].orders), n \in 1..Len(t[s][p].orders) :
          /\ m < n
          /\ t2[s][p].orders[i].id = t[s][p].orders[m].id
          /\ t2[s][p].orders[j].id = t[s][p].orders[n].id
    BY <2>1 DEF Thins
  <2> QED  BY <2>1, <2>2
<1> QED  BY <1>1, <1>2

(***************************************************************************)
(* What is known of the orders that rest is known of those that are left.  *)
(***************************************************************************)
LEMMA ThinsKeeps ==
  ASSUME NEW t, NEW t2, Thins(t, t2), NEW u \in Uses,
         Known(t, u), InOrder(t, u)
  PROVE  Known(t2, u) /\ InOrder(t2, u)
<1>1. ASSUME NEW s \in Sides, NEW p \in Prices, NEW k \in 1..Len(t2[s][p].orders)
      PROVE  \E m \in 1..Len(u) : u[m] = [id |-> t2[s][p].orders[k].id, side |-> s, price |-> p]
  <2>1. PICK j \in 1..Len(t[s][p].orders) : t2[s][p].orders[k].id = t[s][p].orders[j].id
    BY DEF Thins
  <2> QED  BY <2>1 DEF Known
<1>2. ASSUME NEW s \in Sides, NEW p \in Prices,
             NEW k \in 1..Len(t2[s][p].orders), NEW l \in 1..Len(t2[s][p].orders),
             NEW m \in 1..Len(u), NEW n \in 1..Len(u),
             u[m].id = t2[s][p].orders[k].id, u[n].id = t2[s][p].orders[l].id, k < l
      PROVE  m < n
  <2>1. PICK i \in 1..Len(t[s][p].orders), j \in 1..Len(t[s][p].orders) :
          /\ i < j
          /\ t2[s][p].orders[k].id = t[s][p].orders[i].id
          /\ t2[s][p].orders[l].id = t[s][p].orders[j].id
    BY <1>2 DEF Thins
  <2>2. u[m].id = t[s][p].orders[i].id /\ u[n].id = t[s][p].orders[j].id
    BY <2>1, <1>2
  <2> QED  BY <2>1, <2>2 DEF InOrder
<1> QED  BY <1>1, <1>2 DEF Known, InOrder

--------------------------------------------------------------------------------
LEMMA IndexTypes ==
  ASSUME NEW i \in Indices
  PROVE  /\ DOMAIN i \subseteq Ids
         /\ \A o \in DOMAIN i : /\ i[o] \in Refs
                                /\ i[o].side \in Sides /\ i[o].price \in Prices /\ i[o].it \in Nat
         /\ \A id : [o \in DOMAIN i \ {id} |-> i[o]] \in Indices
<1>1. PICK D \in SUBSET Ids : i \in [D -> Refs]
  BY DEF Indices
<1>2. ASSUME NEW id  PROVE [o \in DOMAIN i \ {id} |-> i[o]] \in Indices
  <2>1. D \ {id} \in SUBSET Ids
    OBVIOUS
  <2>2. [o \in D \ {id} |-> i[o]] \in [D \ {id} -> Refs]
    BY <1>1
  <2> QED  BY <2>1, <2>2, <1>1 DEF Indices
<1>3. \A o \in D : i[o] \in Refs
  BY <1>1
<1>4. \A o \in D : i[o].side \in Sides /\ i[o].price \in Prices /\ i[o].it \in Nat
  BY <1>3 DEF Refs
<1> QED  BY <1>1, <1>2, <1>3, <1>4

\* c is a tree and an index.
IsBook(c) == c = Book(c.tree, c.index) /\ c.tree \in Trees /\ c.index \in Indices

(***************************************************************************)
(* cancel_order leaves a tree and an index, whatever order_index says.     *)
(***************************************************************************)
LEMMA CancelledTypes ==
  ASSUME NEW t \in Trees, NEW i \in Indices, NEW id
  PROVE  IsBook(Cancelled(Book(t, i), id))
<1>1. CASE id \notin DOMAIN i
  <2>1. Cancelled(Book(t, i), id) = Book(t, i)
    BY <1>1 DEF Cancelled, Book
  <2>2. Book(t, i).tree = t /\ Book(t, i).index = i
    BY DEF Book
  <2> QED  BY <2>1, <2>2 DEF IsBook
<1>2. CASE id \in DOMAIN i
  <2>1. PICK s \in Sides, p \in Prices, it \in Nat :
          s = i[id].side /\ p = i[id].price /\ it = i[id].it
    BY <1>2, IndexTypes
  <2>2. PICK e \in Deques : e = Erase(t[s][p], it)
    BY DequeTypes, EraseTypes
  <2>3. PICK level \in Deques : level = IF e.orders = << >> THEN EmptyDeque ELSE e
    <3>1. EmptyDeque \in Deques
      BY DEF EmptyDeque, Deques
    <3> QED  BY <3>1
  <2>4. PICK t2 \in Trees : t2 = [t EXCEPT ![s][p] = level]
    BY <2>3 DEF Trees
  <2>5. PICK i2 \in Indices : i2 = [o \in DOMAIN i \ {id} |-> i[o]]
    BY IndexTypes
  <2>6. Cancelled(Book(t, i), id) = Book(t2, i2)
    BY <1>2, <2>1, <2>2, <2>3, <2>4, <2>5 DEF Cancelled, Book
  <2>7. Book(t2, i2).tree = t2 /\ Book(t2, i2).index = i2
    BY DEF Book
  <2> QED  BY <2>6, <2>7 DEF IsBook
<1> QED  BY <1>1, <1>2

LEMMA FilledTypes ==
  ASSUME NEW t \in Trees, NEW i \in Indices, NEW x, NEW quantity
  PROVE  IsBook(CancelIfFilled(Book(t, i), x, quantity))
<1>1. CASE x.quantity = quantity
  BY <1>1, CancelledTypes DEF CancelIfFilled
<1>2. CASE x.quantity # quantity
  <2>1. CancelIfFilled(Book(t, i), x, quantity) = Book(t, i)
    BY <1>2 DEF CancelIfFilled
  <2>2. Book(t, i).tree = t /\ Book(t, i).index = i
    BY DEF Book
  <2> QED  BY <2>1, <2>2 DEF IsBook
<1> QED  BY <1>1, <1>2

--------------------------------------------------------------------------------
(***************************************************************************)
(* An id rests in one place.                                               *)
(***************************************************************************)
LEMMA OnePlace ==
  ASSUME NEW t \in Trees, NEW i, NEW mv, Indexes(t, i, mv),
         NEW s \in Sides, NEW p \in Prices, NEW k \in 1..Len(t[s][p].orders),
         NEW a \in Sides, NEW b \in Prices, NEW l \in 1..Len(t[a][b].orders),
         t[s][p].orders[k].id = t[a][b].orders[l].id
  PROVE  s = a /\ p = b /\ k = l
<1>1. Named(t, i, mv, s, p, k) /\ Named(t, i, mv, a, b, l)
  BY DEF Indexes
<1>2. i[t[s][p].orders[k].id].side = s /\ i[t[s][p].orders[k].id].price = p
  BY <1>1 DEF Named
<1>3. i[t[a][b].orders[l].id].side = a /\ i[t[a][b].orders[l].id].price = b
  BY <1>1 DEF Named
<1>4. k = l
  BY <1>1, <1>2, <1>3 DEF Named
<1> QED  BY <1>2, <1>3, <1>4

\* The book c is t and i less the k-th order of a level; the others keep their
\* turn, and those that erase does not move their place.
LeavesAt(t, i, s, p, k, c) ==
  LET id == t[s][p].orders[k].id
  IN  /\ IsBook(c)
      /\ c.index = [o \in DOMAIN i \ {id} |-> i[o]]
      /\ \A a \in Sides, b \in Prices : a # s \/ b # p => c.tree[a][b] = t[a][b]
      /\ Len(c.tree[s][p].orders) = Len(t[s][p].orders) - 1
      /\ \A j \in 1..Len(c.tree[s][p].orders) :
           /\ c.tree[s][p].orders[j] = t[s][p].orders[Before(k, j)]
           /\ \/ Before(k, j) \in Shifted(t[s][p], k)
              \/ Place(c.tree[s][p], j) = Place(t[s][p], Before(k, j))

(***************************************************************************)
(* cancel_order of an order that has not been moved: that order leaves the *)
(* tree and the index; the others keep their turn.                         *)
(***************************************************************************)
LEMMA CancelTakesOne ==
  ASSUME NEW t \in Trees, NEW i \in Indices, NEW mv, Indexes(t, i, mv),
         NEW s \in Sides, NEW p \in Prices, NEW k \in 1..Len(t[s][p].orders),
         t[s][p].orders[k].id \notin mv
  PROVE  LeavesAt(t, i, s, p, k, Cancelled(Book(t, i), t[s][p].orders[k].id))
<1>0. PICK id : id = t[s][p].orders[k].id
  OBVIOUS
<1>1. /\ id \in DOMAIN i
      /\ i[id].side = s /\ i[id].price = p /\ i[id].it = Place(t[s][p], k)
  <2>1. Named(t, i, mv, s, p, k)
    BY DEF Indexes
  <2> QED  BY <2>1, <1>0 DEF Named
<1>2. PICK d \in Deques : d = t[s][p] /\ k \in 1..Len(d.orders)
  BY DequeTypes
<1>3. PICK e : e = Erase(d, Place(d, k))
  OBVIOUS
<1>4. PICK level : level = IF e.orders = << >> THEN EmptyDeque ELSE e
  OBVIOUS
<1>5. Cancelled(Book(t, i), id) =
        [tree |-> [t EXCEPT ![s][p] = level], index |-> [o \in DOMAIN i \ {id} |-> i[o]]]
  BY <1>1, <1>2, <1>3, <1>4 DEF Cancelled, Book
<1>6. /\ e \in Deques
      /\ Len(e.orders) = Len(d.orders) - 1
      /\ \A j \in 1..Len(e.orders) :
           /\ e.orders[j] = d.orders[Before(k, j)]
           /\ Before(k, j) \in Shifted(d, k) \/ Place(e, j) = Place(d, Before(k, j))
  BY <1>2, <1>3, EraseTakesOne
<1>7. /\ Len(level.orders) = Len(d.orders) - 1
      /\ \A j \in 1..Len(level.orders) :
           /\ level.orders[j] = d.orders[Before(k, j)]
           /\ Before(k, j) \in Shifted(d, k) \/ Place(level, j) = Place(d, Before(k, j))
  <2>1. CASE e.orders = << >>
    <3>1. level = EmptyDeque /\ Len(e.orders) = 0
      BY <2>1, <1>4
    <3>2. Len(EmptyDeque.orders) = 0
      BY DEF EmptyDeque
    <3>3. Len(level.orders) = 0 /\ Len(d.orders) - 1 = 0
      BY <3>1, <3>2, <1>6
    <3> QED  BY <3>3
  <2>2. CASE e.orders # << >>
    BY <2>2, <1>4, <1>6
  <2> QED  BY <2>1, <2>2
<1>8. PICK c : c = Cancelled(Book(t, i), id)
  OBVIOUS
<1>9. /\ c.tree = [t EXCEPT ![s][p] = level]
      /\ c.index = [o \in DOMAIN i \ {id} |-> i[o]]
  BY <1>5, <1>8
<1>10. IsBook(c)
  BY <1>8, CancelledTypes
<1>11. /\ c.tree[s][p] = level
       /\ \A a \in Sides, b \in Prices : a # s \/ b # p => c.tree[a][b] = t[a][b]
  BY <1>9 DEF Trees
<1> QED  BY <1>0, <1>2, <1>7, <1>8, <1>9, <1>10, <1>11 DEF LeavesAt

\* The quantities of the orders of a tree with this id.
Held(t, o) ==
  {n \in Nat : \E s \in Sides, p \in Prices : \E k \in 1..Len(t[s][p].orders) :
                t[s][p].orders[k] = [id |-> o, quantity |-> n]}

\* The book c has an exact index, and is t but perhaps for one order of a level.
Spares(t, id, s, p, mv, c) ==
  /\ IsBook(c)
  /\ Indexes(c.tree, c.index, mv)
  /\ Thins(t, c.tree)
  /\ \A o : o # id => Held(c.tree, o) = Held(t, o)
  /\ \A a \in Sides, b \in Prices : a # s \/ b # p => c.tree[a][b] = t[a][b]

\* That order is no longer in it.
Cancels(t, id, s, p, mv, c) == Spares(t, id, s, p, mv, c) /\ Held(c.tree, id) = {}

(***************************************************************************)
(* cancel_order of an order that has not been moved keeps the index exact  *)
(* but for the orders it moves, takes that order out and leaves the others *)
(* as they are.                                                            *)
(***************************************************************************)
LEMMA CancelKeeps ==
  ASSUME NEW t \in Trees, NEW i \in Indices, NEW mv, Indexes(t, i, mv),
         NEW s \in Sides, NEW p \in Prices, NEW k \in 1..Len(t[s][p].orders),
         t[s][p].orders[k].id \notin mv,
         NEW mv2, \A o \in mv : o \in mv2,
         \A j \in Shifted(t[s][p], k) : j \in 1..Len(t[s][p].orders) => t[s][p].orders[j].id \in mv2
  PROVE  Cancels(t, t[s][p].orders[k].id, s, p, mv2,
                 Cancelled(Book(t, i), t[s][p].orders[k].id))
<1>0. PICK id : id = t[s][p].orders[k].id
  OBVIOUS
<1>1. PICK c : c = Cancelled(Book(t, i), id)
  OBVIOUS
<1>3. /\ IsBook(c) /\ c.tree \in Trees
      /\ c.index = [o \in DOMAIN i \ {id} |-> i[o]]
      /\ \A a \in Sides, b \in Prices : a # s \/ b # p => c.tree[a][b] = t[a][b]
      /\ Len(c.tree[s][p].orders) = Len(t[s][p].orders) - 1
      /\ \A j \in 1..Len(c.tree[s][p].orders) :
           /\ c.tree[s][p].orders[j] = t[s][p].orders[Before(k, j)]
           /\ \/ Before(k, j) \in Shifted(t[s][p], k)
              \/ Place(c.tree[s][p], j) = Place(t[s][p], Before(k, j))
  <2>1. LeavesAt(t, i, s, p, k, c)
    BY <1>0, <1>1, CancelTakesOne
  <2> QED  BY <2>1, <1>0 DEF LeavesAt, IsBook
<1>4. PICK n \in Nat : n = Len(t[s][p].orders) /\ k \in 1..n
  BY DequeTypes
<1>5. \A j \in 1..n - 1 : Before(k, j) \in 1..n /\ Before(k, j) # k
  BY <1>4 DEF Before
<1>6. \A l \in 1..n : l # k => \E j \in 1..n - 1 : Before(k, j) = l
  <2> SUFFICES ASSUME NEW l \in 1..n, l # k  PROVE \E j \in 1..n - 1 : Before(k, j) = l
    OBVIOUS
  <2>1. CASE l < k
    <3>1. l \in 1..n - 1 /\ Before(k, l) = l
      BY <2>1, <1>4 DEF Before
    <3> QED  BY <3>1
  <2>2. CASE ~(l < k)
    <3>1. l - 1 \in 1..n - 1 /\ Before(k, l - 1) = l
      BY <2>2, <1>4 DEF Before
    <3> QED  BY <3>1
  <2> QED  BY <2>1, <2>2
<1>13. \A j, l \in 1..n - 1 : j < l => Before(k, j) < Before(k, l)
  BY <1>4 DEF Before
\* Every order left was there, with another id, and has its place if not moved.
<1>7. ASSUME NEW a \in Sides, NEW b \in Prices, NEW j \in 1..Len(c.tree[a][b].orders)
      PROVE  \E l \in 1..Len(t[a][b].orders) :
               /\ c.tree[a][b].orders[j] = t[a][b].orders[l]
               /\ c.tree[a][b].orders[j].id # id
               /\ t[a][b].orders[l].id \in mv2 \/ Place(c.tree[a][b], j) = Place(t[a][b], l)
  <2>1. CASE a = s /\ b = p
    <3>1. j \in 1..n - 1
      BY <2>1, <1>3, <1>4
    <3>2. Before(k, j) \in 1..Len(t[s][p].orders) /\ Before(k, j) # k
      BY <3>1, <1>4, <1>5
    <3>3. /\ c.tree[s][p].orders[j] = t[s][p].orders[Before(k, j)]
          /\ \/ Before(k, j) \in Shifted(t[s][p], k)
             \/ Place(c.tree[s][p], j) = Place(t[s][p], Before(k, j))
      BY <2>1, <1>3
    <3>4. t[s][p].orders[Before(k, j)].id # id
      BY <3>2, <1>0, OnePlace
    <3>5. \/ t[s][p].orders[Before(k, j)].id \in mv2
          \/ Place(c.tree[s][p], j) = Place(t[s][p], Before(k, j))
      BY <3>2, <3>3
    <3> QED  BY <2>1, <3>2, <3>3, <3>4, <3>5
  <2>2. CASE a # s \/ b # p
    <3>1. c.tree[a][b] = t[a][b]
      BY <2>2, <1>3
    <3>2. j \in 1..Len(t[a][b].orders)
      BY <3>1
    <3>3. t[a][b].orders[j].id # id
      BY <2>2, <3>2, <1>0, OnePlace
    <3> QED  BY <3>1, <3>2, <3>3
  <2> QED  BY <2>1, <2>2
\* Every order with another id is still there.
<1>8. ASSUME NEW a \in Sides, NEW b \in Prices, NEW l \in 1..Len(t[a][b].orders),
             t[a][b].orders[l].id # id
      PROVE  \E j \in 1..Len(c.tree[a][b].orders) :
               c.tree[a][b].orders[j] = t[a][b].orders[l]
  <2>1. CASE a = s /\ b = p
    <3>1. l \in 1..n /\ l # k
      BY <2>1, <1>0, <1>4, <1>8
    <3>2. PICK j \in 1..n - 1 : Before(k, j) = l
      BY <3>1, <1>6
    <3>3. j \in 1..Len(c.tree[s][p].orders)
      BY <3>2, <1>3, <1>4
    <3>4. c.tree[s][p].orders[j] = t[s][p].orders[l]
      BY <3>2, <3>3, <1>3
    <3> QED  BY <2>1, <3>3, <3>4
  <2>2. CASE a # s \/ b # p
    BY <2>2, <1>3
  <2> QED  BY <2>1, <2>2
\* It is there once.
<1>14. ASSUME NEW a \in Sides, NEW b \in Prices, NEW j \in 1..Len(c.tree[a][b].orders),
              NEW l \in 1..Len(c.tree[a][b].orders),
              c.tree[a][b].orders[j].id = c.tree[a][b].orders[l].id
       PROVE  l = j
  <2>1. CASE a = s /\ b = p
    <3>1. j \in 1..n - 1 /\ l \in 1..n - 1
      BY <2>1, <1>3, <1>4
    <3>2. /\ c.tree[s][p].orders[j] = t[s][p].orders[Before(k, j)]
          /\ c.tree[s][p].orders[l] = t[s][p].orders[Before(k, l)]
      BY <2>1, <1>3
    <3>3. Before(k, j) \in 1..Len(t[s][p].orders) /\ Before(k, l) \in 1..Len(t[s][p].orders)
      BY <3>1, <1>4, <1>5
    <3>4. Before(k, j) = Before(k, l)
      BY <2>1, <3>2, <3>3, <1>14, OnePlace
    <3> QED  BY <3>1, <3>4, <1>4 DEF Before
  <2>2. CASE a # s \/ b # p
    <3>1. c.tree[a][b] = t[a][b]
      BY <2>2, <1>3
    <3> QED  BY <3>1, <1>14, OnePlace
  <2> QED  BY <2>1, <2>2
<1>9. Indexes(c.tree, c.index, mv2)
  <2>1. DOMAIN c.index = DOMAIN i \ {id}
    BY <1>3
  <2>2. ASSUME NEW a \in Sides, NEW b \in Prices, NEW j \in 1..Len(c.tree[a][b].orders)
        PROVE  Named(c.tree, c.index, mv2, a, b, j)
    <3>1. PICK l \in 1..Len(t[a][b].orders) :
            /\ c.tree[a][b].orders[j] = t[a][b].orders[l]
            /\ c.tree[a][b].orders[j].id # id
            /\ t[a][b].orders[l].id \in mv2 \/ Place(c.tree[a][b], j) = Place(t[a][b], l)
      BY <1>7
    <3>2. PICK o : o = t[a][b].orders[l].id
      OBVIOUS
    <3>3. /\ o \in DOMAIN i
          /\ i[o].side = a /\ i[o].price = b
          /\ o \in mv \/ i[o].it = Place(t[a][b], l)
      <4>1. Named(t, i, mv, a, b, l)
        BY DEF Indexes
      <4> QED  BY <4>1, <3>2 DEF Named
    <3>4. o # id /\ o \in DOMAIN c.index /\ c.index[o] = i[o]
      BY <3>1, <3>2, <3>3, <2>1, <1>3
    <3>5. \A l2 \in 1..Len(c.tree[a][b].orders) :
            c.tree[a][b].orders[l2].id = c.tree[a][b].orders[j].id => l2 = j
      BY <1>14
    <3> QED  BY <3>1, <3>2, <3>3, <3>4, <3>5 DEF Named
  <2>3. ASSUME NEW o \in DOMAIN c.index
        PROVE  \E a \in Sides, b \in Prices : \E j \in 1..Len(c.tree[a][b].orders) :
                 c.tree[a][b].orders[j].id = o
    <3>1. o \in DOMAIN i /\ o # id
      BY <2>1
    <3>2. PICK a \in Sides, b \in Prices : \E l \in 1..Len(t[a][b].orders) : t[a][b].orders[l].id = o
      BY <3>1 DEF Indexes
    <3>3. PICK l \in 1..Len(t[a][b].orders) : t[a][b].orders[l].id = o
      BY <3>2
    <3>4. PICK j \in 1..Len(c.tree[a][b].orders) : c.tree[a][b].orders[j] = t[a][b].orders[l]
      BY <3>1, <3>3, <1>8
    <3> QED  BY <3>3, <3>4
  <2> QED  BY <2>2, <2>3 DEF Indexes
<1>10. Thins(t, c.tree)
  <2>1. ASSUME NEW a \in Sides, NEW b \in Prices, NEW j \in 1..Len(c.tree[a][b].orders),
               NEW l \in 1..Len(c.tree[a][b].orders), j < l
        PROVE  \E m, q \in 1..Len(t[a][b].orders) :
                 /\ m < q
                 /\ c.tree[a][b].orders[j].id = t[a][b].orders[m].id
                 /\ c.tree[a][b].orders[l].id = t[a][b].orders[q].id
    <3>1. CASE a = s /\ b = p
      <4>1. j \in 1..n - 1 /\ l \in 1..n - 1
        BY <3>1, <1>3, <1>4
      <4>2. /\ Before(k, j) \in 1..Len(t[s][p].orders) /\ Before(k, l) \in 1..Len(t[s][p].orders)
            /\ Before(k, j) < Before(k, l)
        BY <4>1, <2>1, <1>4, <1>5, <1>13
      <4>3. /\ c.tree[s][p].orders[j] = t[s][p].orders[Before(k, j)]
            /\ c.tree[s][p].orders[l] = t[s][p].orders[Before(k, l)]
        BY <3>1, <1>3
      <4> QED  BY <3>1, <4>2, <4>3
    <3>2. CASE a # s \/ b # p
      BY <3>2, <2>1, <1>3
    <3> QED  BY <3>1, <3>2
  <2>2. ASSUME NEW a \in Sides, NEW b \in Prices, NEW j \in 1..Len(c.tree[a][b].orders)
        PROVE  \E m \in 1..Len(t[a][b].orders) : c.tree[a][b].orders[j].id = t[a][b].orders[m].id
    <3>1. PICK l \in 1..Len(t[a][b].orders) : c.tree[a][b].orders[j] = t[a][b].orders[l]
      BY <1>7
    <3> QED  BY <3>1
  <2> QED  BY <2>1, <2>2 DEF Thins
<1>11. Held(c.tree, id) = {}
  <2> SUFFICES ASSUME NEW m \in Nat, NEW a \in Sides, NEW b \in Prices,
                      NEW j \in 1..Len(c.tree[a][b].orders),
                      c.tree[a][b].orders[j] = [id |-> id, quantity |-> m]
               PROVE  FALSE
    BY DEF Held
  <2>1. c.tree[a][b].orders[j].id # id
    BY <1>7
  <2> QED  BY <2>1
<1>12. ASSUME NEW o, o # id  PROVE Held(c.tree, o) = Held(t, o)
  <2>1. ASSUME NEW m \in Nat, m \in Held(c.tree, o)  PROVE m \in Held(t, o)
    <3>1. PICK a \in Sides, b \in Prices : \E j \in 1..Len(c.tree[a][b].orders) :
            c.tree[a][b].orders[j] = [id |-> o, quantity |-> m]
      BY <2>1 DEF Held
    <3>0. PICK j \in 1..Len(c.tree[a][b].orders) :
            c.tree[a][b].orders[j] = [id |-> o, quantity |-> m]
      BY <3>1
    <3>2. PICK l \in 1..Len(t[a][b].orders) : c.tree[a][b].orders[j] = t[a][b].orders[l]
      BY <1>7
    <3>3. t[a][b].orders[l] = [id |-> o, quantity |-> m]
      BY <3>0, <3>2
    <3> QED  BY <3>3 DEF Held
  <2>2. ASSUME NEW m \in Nat, m \in Held(t, o)  PROVE m \in Held(c.tree, o)
    <3>1. PICK a \in Sides, b \in Prices : \E l \in 1..Len(t[a][b].orders) :
            t[a][b].orders[l] = [id |-> o, quantity |-> m]
      BY <2>2 DEF Held
    <3>2. PICK l \in 1..Len(t[a][b].orders) : t[a][b].orders[l] = [id |-> o, quantity |-> m]
      BY <3>1
    <3>3. t[a][b].orders[l].id # id
      BY <3>2, <1>12
    <3>4. PICK j \in 1..Len(c.tree[a][b].orders) : c.tree[a][b].orders[j] = t[a][b].orders[l]
      BY <3>3, <1>8
    <3>5. c.tree[a][b].orders[j] = [id |-> o, quantity |-> m]
      BY <3>2, <3>4
    <3> QED  BY <3>5 DEF Held
  <2> QED  BY <2>1, <2>2 DEF Held
<1> QED  BY <1>0, <1>1, <1>3, <1>9, <1>10, <1>11, <1>12 DEF Cancels, Spares

--------------------------------------------------------------------------------
\* The tree t2 is t with quantity traded by the order at the front of a level.
Trades(t, s, p, quantity, t2) ==
  /\ t2 \in Trees
  /\ \A a \in Sides, b \in Prices :
       /\ a # s \/ b # p => t2[a][b] = t[a][b]
       /\ t2[a][b].first = t[a][b].first
       /\ Len(t2[a][b].orders) = Len(t[a][b].orders)
       /\ \A j \in 1..Len(t[a][b].orders) :
            /\ t2[a][b].orders[j].id = t[a][b].orders[j].id
            /\ t[a][b].orders[j].id # t[s][p].orders[1].id => t2[a][b].orders[j] = t[a][b].orders[j]
  /\ t2[s][p].orders[1] = [id |-> t[s][p].orders[1].id,
                           quantity |-> t[s][p].orders[1].quantity - quantity]

(***************************************************************************)
(* Trading changes one order's quantity and nothing else.                  *)
(***************************************************************************)
LEMMA TradeAtFront ==
  ASSUME NEW t \in Trees, NEW s \in Sides, NEW p \in Prices,
         1 \in 1..Len(t[s][p].orders),
         NEW quantity \in Nat, quantity <= t[s][p].orders[1].quantity
  PROVE  Trades(t, s, p, quantity, Traded(t, s, p, quantity))
<1>1. PICK d \in Deques : d = t[s][p] /\ d.first \in Nat /\ d.orders \in Seq(Orders)
  BY DequeTypes
<1>2. PICK x \in Orders : x = d.orders[1]
  BY <1>1
<1>3. PICK y \in Orders : y = [id |-> x.id, quantity |-> x.quantity - quantity]
  <2>1. x.quantity - quantity \in Nat /\ x.id \in Ids
    BY <1>1, <1>2 DEF Orders
  <2> QED  BY <2>1 DEF Orders
<1>4. PICK q : q = [d.orders EXCEPT ![1] = y]
  OBVIOUS
<1>5. /\ q \in Seq(Orders) /\ Len(q) = Len(d.orders)
      /\ \A j \in 1..Len(d.orders) : q[j] = IF j = 1 THEN y ELSE d.orders[j]
  BY <1>1, <1>4
<1>6. PICK e \in Deques : e = [first |-> d.first, orders |-> q]
  BY <1>1, <1>5 DEF Deques
<1>7. PICK t2 : t2 = Traded(t, s, p, quantity)
  OBVIOUS
<1>8. t2 = [t EXCEPT ![s][p] = e]
  <2>1. [x EXCEPT !.quantity = @ - quantity] = y
    BY <1>2, <1>3 DEF Orders
  <2>2. [d.orders EXCEPT ![1].quantity = @ - quantity] = q
    BY <2>1, <1>2, <1>4
  <2>3. [d EXCEPT !.orders = q] = e
    BY <1>6 DEF Deques
  <2>4. [d EXCEPT !.orders[1].quantity = @ - quantity] = [d EXCEPT !.orders = q]
    BY <2>2
  <2> QED  BY <2>3, <2>4, <1>1, <1>7 DEF Traded
<1>9. /\ t2 \in Trees
      /\ t2[s][p] = e
      /\ \A a \in Sides, b \in Prices : a # s \/ b # p => t2[a][b] = t[a][b]
  BY <1>6, <1>8 DEF Trees
<1>10. ASSUME NEW a \in Sides, NEW b \in Prices
       PROVE  /\ t2[a][b].first = t[a][b].first
              /\ Len(t2[a][b].orders) = Len(t[a][b].orders)
              /\ \A j \in 1..Len(t[a][b].orders) :
                   /\ t2[a][b].orders[j].id = t[a][b].orders[j].id
                   /\ t[a][b].orders[j].id # t[s][p].orders[1].id
                        => t2[a][b].orders[j] = t[a][b].orders[j]
  <2>1. CASE a = s /\ b = p
    BY <2>1, <1>1, <1>2, <1>3, <1>5, <1>6, <1>9
  <2>2. CASE a # s \/ b # p
    BY <2>2, <1>9
  <2> QED  BY <2>1, <2>2
<1>11. t2[s][p].orders[1] = y
  BY <1>1, <1>5, <1>6, <1>9
<1> QED  BY <1>1, <1>2, <1>3, <1>7, <1>9, <1>10, <1>11 DEF Trades

LEMMA TradeKeeps ==
  ASSUME NEW t \in Trees, NEW t2 \in Trees, NEW s \in Sides, NEW p \in Prices,
         NEW quantity, Trades(t, s, p, quantity, t2), NEW i, NEW mv, Indexes(t, i, mv)
  PROVE  /\ Indexes(t2, i, mv)
         /\ Thins(t, t2)
         /\ \A o : o # t[s][p].orders[1].id => Held(t2, o) = Held(t, o)
<1>1. \A a \in Sides, b \in Prices :
        /\ t2[a][b].first = t[a][b].first
        /\ Len(t2[a][b].orders) = Len(t[a][b].orders)
        /\ \A j \in 1..Len(t[a][b].orders) :
             /\ t2[a][b].orders[j].id = t[a][b].orders[j].id
             /\ t[a][b].orders[j].id # t[s][p].orders[1].id
                   => t2[a][b].orders[j] = t[a][b].orders[j]
  BY DEF Trades
<1>2. \A a \in Sides, b \in Prices : \A j : Place(t2[a][b], j) = Place(t[a][b], j)
  BY <1>1 DEF Place
<1>3. Indexes(t2, i, mv)
  <2>2. ASSUME NEW a \in Sides, NEW b \in Prices, NEW j \in 1..Len(t2[a][b].orders)
        PROVE  Named(t2, i, mv, a, b, j)
    <3>1. j \in 1..Len(t[a][b].orders) /\ t2[a][b].orders[j].id = t[a][b].orders[j].id
      BY <1>1
    <3>2. Named(t, i, mv, a, b, j)
      BY <3>1 DEF Indexes
    <3>3. \A l \in 1..Len(t2[a][b].orders) : t2[a][b].orders[l].id = t2[a][b].orders[j].id => l = j
      BY <3>1, <3>2, <1>1 DEF Named
    <3> QED  BY <3>1, <3>2, <3>3, <1>2 DEF Named
  <2>3. ASSUME NEW o \in DOMAIN i
        PROVE  \E a \in Sides, b \in Prices : \E j \in 1..Len(t2[a][b].orders) :
                 t2[a][b].orders[j].id = o
    <3>1. PICK a \in Sides, b \in Prices : \E j \in 1..Len(t[a][b].orders) : t[a][b].orders[j].id = o
      BY DEF Indexes
    <3>2. PICK j \in 1..Len(t[a][b].orders) : t[a][b].orders[j].id = o
      BY <3>1
    <3>3. j \in 1..Len(t2[a][b].orders) /\ t2[a][b].orders[j].id = o
      BY <3>2, <1>1
    <3> QED  BY <3>3
  <2> QED  BY <2>2, <2>3 DEF Indexes
<1>4. Thins(t, t2)
  BY <1>1 DEF Thins
<1>5. ASSUME NEW o, o # t[s][p].orders[1].id  PROVE Held(t2, o) = Held(t, o)
  <2>1. ASSUME NEW m \in Nat, m \in Held(t2, o)  PROVE m \in Held(t, o)
    <3>1. PICK a \in Sides, b \in Prices : \E j \in 1..Len(t2[a][b].orders) :
            t2[a][b].orders[j] = [id |-> o, quantity |-> m]
      BY <2>1 DEF Held
    <3>2. PICK j \in 1..Len(t2[a][b].orders) : t2[a][b].orders[j] = [id |-> o, quantity |-> m]
      BY <3>1
    <3>3. j \in 1..Len(t[a][b].orders) /\ t[a][b].orders[j].id = o
      BY <3>2, <1>1
    <3>4. t[a][b].orders[j] = [id |-> o, quantity |-> m]
      BY <3>2, <3>3, <1>1, <1>5
    <3> QED  BY <3>3, <3>4 DEF Held
  <2>2. ASSUME NEW m \in Nat, m \in Held(t, o)  PROVE m \in Held(t2, o)
    <3>1. PICK a \in Sides, b \in Prices : \E j \in 1..Len(t[a][b].orders) :
            t[a][b].orders[j] = [id |-> o, quantity |-> m]
      BY <2>2 DEF Held
    <3>2. PICK j \in 1..Len(t[a][b].orders) : t[a][b].orders[j] = [id |-> o, quantity |-> m]
      BY <3>1
    <3>0. t[a][b].orders[j].id # t[s][p].orders[1].id
      BY <3>2, <1>5
    <3>3. j \in 1..Len(t2[a][b].orders) /\ t2[a][b].orders[j] = [id |-> o, quantity |-> m]
      BY <3>0, <3>2, <1>1
    <3> QED  BY <3>3 DEF Held
  <2> QED  BY <2>1, <2>2 DEF Held
<1> QED  BY <1>3, <1>4, <1>5

--------------------------------------------------------------------------------
\* The book c is t and i with one more order at the back of a level.
Adds(t, i, id, s, p, quantity, c) ==
  LET n == Len(t[s][p].orders)
  IN  /\ c.tree \in Trees
      /\ \A a \in Sides, b \in Prices : a # s \/ b # p => c.tree[a][b] = t[a][b]
      /\ c.tree[s][p].first = t[s][p].first
      /\ Len(c.tree[s][p].orders) = n + 1
      /\ \A k \in 1..n : c.tree[s][p].orders[k] = t[s][p].orders[k]
      /\ c.tree[s][p].orders[n + 1] = [id |-> id, quantity |-> quantity]
      /\ c.index \in Indices
      /\ DOMAIN c.index = DOMAIN i \cup {id}
      /\ \A o \in DOMAIN i : o # id => c.index[o] = i[o]
      /\ c.index[id] = [side |-> s, price |-> p, it |-> Place(c.tree[s][p], n + 1)]

(***************************************************************************)
(* add_order puts the order at the back of its level and indexes it there. *)
(***************************************************************************)
LEMMA AddAtBack ==
  ASSUME NEW t \in Trees, NEW i \in Indices, NEW id \in Ids, NEW s \in Sides, NEW p \in Prices,
         NEW quantity \in Nat
  PROVE  Adds(t, i, id, s, p, quantity, Added(Book(t, i), id, s, p, quantity))
<1>1. PICK d \in Deques : d = t[s][p] /\ d.first \in Nat /\ d.orders \in Seq(Orders)
  BY DequeTypes
<1>2. PICK n \in Nat : n = Len(d.orders)
  BY <1>1
<1>3. PICK x \in Orders : x = [id |-> id, quantity |-> quantity]
  BY DEF Orders
<1>4. PICK q : q = Append(d.orders, x)
  OBVIOUS
<1>5. /\ q \in Seq(Orders) /\ Len(q) = n + 1 /\ q[n + 1] = x
      /\ \A k \in 1..n : q[k] = d.orders[k]
  BY <1>1, <1>2, <1>4
<1>6. PICK e \in Deques : e = [first |-> d.first, orders |-> q]
  BY <1>1, <1>5 DEF Deques
<1>7. [d EXCEPT !.orders = Append(@, x)] = e
  <2>1. [d EXCEPT !.orders = q] = e
    BY <1>6 DEF Deques
  <2> QED  BY <2>1, <1>4
<1>8. PICK c : c = Added(Book(t, i), id, s, p, quantity)
  OBVIOUS
<1>9. PICK ref : ref = [side |-> s, price |-> p, it |-> Place(e, n + 1)]
  OBVIOUS
<1>10. c = [tree |-> [t EXCEPT ![s][p] = e], index |-> Indexed(i, id, ref)]
  <2>1. Len(e.orders) = n + 1
    BY <1>5, <1>6
  <2> QED  BY <2>1, <1>1, <1>3, <1>7, <1>8, <1>9 DEF Added, Book
<1>11. /\ c.tree \in Trees
       /\ c.tree[s][p] = e
       /\ \A a \in Sides, b \in Prices : a # s \/ b # p => c.tree[a][b] = t[a][b]
  BY <1>6, <1>10 DEF Trees
<1>14. c.index \in Indices
  <2>1. Place(e, n + 1) \in Nat
    BY <1>1, <1>6 DEF Place
  <2>2. ref \in Refs
    BY <2>1, <1>9 DEF Refs
  <2>3. c.index \in [DOMAIN i \cup {id} -> Refs]
    BY <2>2, <1>10, IndexTypes DEF Indexed
  <2>4. DOMAIN i \cup {id} \in SUBSET Ids
    BY IndexTypes
  <2> QED  BY <2>3, <2>4 DEF Indices
<1>12. /\ DOMAIN c.index = DOMAIN i \cup {id}
       /\ \A o \in DOMAIN i : o # id => c.index[o] = i[o]
       /\ c.index[id] = ref
  BY <1>10 DEF Indexed
<1>13. /\ c.tree[s][p].first = t[s][p].first
       /\ Len(c.tree[s][p].orders) = n + 1
       /\ \A k \in 1..n : c.tree[s][p].orders[k] = t[s][p].orders[k]
       /\ c.tree[s][p].orders[n + 1] = [id |-> id, quantity |-> quantity]
  BY <1>1, <1>3, <1>5, <1>6, <1>11
<1> QED  BY <1>1, <1>2, <1>8, <1>9, <1>11, <1>12, <1>13, <1>14 DEF Adds

\* The id has not been used.
Fresh(i, u, id) == id \notin DOMAIN i /\ \A m \in 1..Len(u) : u[m].id # id

\* The facts about the book c and the orders that were added.
Fits(c, u, mv) == Indexes(c.tree, c.index, mv) /\ Known(c.tree, u) /\ InOrder(c.tree, u)

LEMMA AddKeeps ==
  ASSUME NEW t \in Trees, NEW i, NEW mv, Indexes(t, i, mv), NEW id \in Ids,
         NEW s \in Sides, NEW p \in Prices, NEW quantity \in Nat,
         NEW c, Adds(t, i, id, s, p, quantity, c),
         NEW u \in Uses, Known(t, u), InOrder(t, u), Fresh(i, u, id)
  PROVE  Fits(c, Append(u, [id |-> id, side |-> s, price |-> p]), mv)
<1>0. PICK u2 : u2 = Append(u, [id |-> id, side |-> s, price |-> p])
  OBVIOUS
<1>1. PICK n \in Nat : n = Len(t[s][p].orders)
  BY DequeTypes
<1>2. PICK l \in Nat : l = Len(u)
  BY DEF Uses
<1>3. /\ Len(u2) = l + 1
      /\ u2[l + 1] = [id |-> id, side |-> s, price |-> p]
      /\ \A m \in 1..l : u2[m] = u[m]
  BY <1>0, <1>2 DEF Uses
\* An order of the new tree is an old one or the new one.
<1>4. ASSUME NEW a \in Sides, NEW b \in Prices, NEW k \in 1..Len(c.tree[a][b].orders)
      PROVE  \/ /\ k \in 1..Len(t[a][b].orders)
                /\ c.tree[a][b].orders[k] = t[a][b].orders[k]
                /\ Place(c.tree[a][b], k) = Place(t[a][b], k)
                /\ c.tree[a][b].orders[k].id # id
             \/ /\ a = s /\ b = p /\ k = n + 1
                /\ c.tree[a][b].orders[k] = [id |-> id, quantity |-> quantity]
  <2>0. ASSUME NEW j \in 1..Len(t[a][b].orders)  PROVE t[a][b].orders[j].id # id
    <3>1. t[a][b].orders[j].id \in DOMAIN i
      BY DEF Indexes, Named
    <3> QED  BY <3>1 DEF Fresh
  <2>1. CASE a = s /\ b = p
    <3>1. CASE k \in 1..n
      <4>1. c.tree[a][b].orders[k] = t[a][b].orders[k] /\ c.tree[a][b].first = t[a][b].first
        BY <2>1, <3>1, <1>1 DEF Adds
      <4> QED  BY <4>1, <3>1, <2>1, <2>0, <1>1 DEF Place
    <3>2. CASE k \notin 1..n
      <4>1. k \in 1..n + 1
        BY <2>1, <1>1 DEF Adds
      <4>2. k = n + 1
        BY <3>2, <4>1
      <4> QED  BY <2>1, <4>2, <1>1 DEF Adds
    <3> QED  BY <3>1, <3>2
  <2>2. CASE a # s \/ b # p
    <3>1. c.tree[a][b] = t[a][b]
      BY <2>2 DEF Adds
    <3> QED  BY <3>1, <2>0
  <2> QED  BY <2>1, <2>2
<1>5. ASSUME NEW a \in Sides, NEW b \in Prices, NEW k \in 1..Len(t[a][b].orders)
      PROVE  /\ k \in 1..Len(c.tree[a][b].orders)
             /\ c.tree[a][b].orders[k] = t[a][b].orders[k]
  <2>1. CASE a = s /\ b = p
    <3>1. k \in 1..n /\ k \in 1..n + 1
      BY <2>1, <1>1
    <3> QED  BY <3>1, <2>1, <1>1 DEF Adds
  <2>2. CASE a # s \/ b # p
    BY <2>2 DEF Adds
  <2> QED  BY <2>1, <2>2
<1>6. Indexes(c.tree, c.index, mv)
  <2>2. ASSUME NEW a \in Sides, NEW b \in Prices, NEW k \in 1..Len(c.tree[a][b].orders)
        PROVE  Named(c.tree, c.index, mv, a, b, k)
    <3>1. CASE /\ k \in 1..Len(t[a][b].orders)
               /\ c.tree[a][b].orders[k] = t[a][b].orders[k]
               /\ Place(c.tree[a][b], k) = Place(t[a][b], k)
               /\ c.tree[a][b].orders[k].id # id
      <4>1. Named(t, i, mv, a, b, k)
        BY <3>1 DEF Indexes
      <4>2. PICK o : o = t[a][b].orders[k].id /\ o # id
        BY <3>1
      <4>3. o \in DOMAIN c.index /\ c.index[o] = i[o]
        BY <4>1, <4>2 DEF Adds, Named
      <4>4. ASSUME NEW j \in 1..Len(c.tree[a][b].orders), c.tree[a][b].orders[j].id = o
            PROVE  j = k
        <5>1. c.tree[a][b].orders[j] # [id |-> id, quantity |-> quantity]
          BY <4>2, <4>4
        <5>2. j \in 1..Len(t[a][b].orders) /\ c.tree[a][b].orders[j] = t[a][b].orders[j]
          BY <5>1, <1>4
        <5> QED  BY <5>2, <4>1, <4>2, <4>4 DEF Named
      <4> QED  BY <4>1, <4>2, <4>3, <4>4, <3>1 DEF Named
    <3>2. CASE /\ a = s /\ b = p /\ k = n + 1
               /\ c.tree[a][b].orders[k] = [id |-> id, quantity |-> quantity]
      <4>1. /\ id \in DOMAIN c.index
            /\ c.index[id] = [side |-> s, price |-> p, it |-> Place(c.tree[s][p], n + 1)]
        BY <1>1 DEF Adds
      <4>2. ASSUME NEW j \in 1..Len(c.tree[a][b].orders), c.tree[a][b].orders[j].id = id
            PROVE  j = k
        BY <4>2, <3>2, <1>4
      <4> QED  BY <4>1, <4>2, <3>2 DEF Named
    <3> QED  BY <3>1, <3>2, <1>4
  <2>3. ASSUME NEW o \in DOMAIN c.index
        PROVE  \E a \in Sides, b \in Prices : \E k \in 1..Len(c.tree[a][b].orders) :
                 c.tree[a][b].orders[k].id = o
    <3>1. CASE o = id
      <4>1. n + 1 \in 1..Len(c.tree[s][p].orders) /\ c.tree[s][p].orders[n + 1].id = id
        BY <1>1 DEF Adds
      <4> QED  BY <4>1, <3>1
    <3>2. CASE o \in DOMAIN i
      <4>1. PICK a \in Sides, b \in Prices : \E k \in 1..Len(t[a][b].orders) : t[a][b].orders[k].id = o
        BY <3>2 DEF Indexes
      <4>2. PICK k \in 1..Len(t[a][b].orders) : t[a][b].orders[k].id = o
        BY <4>1
      <4>3. k \in 1..Len(c.tree[a][b].orders) /\ c.tree[a][b].orders[k].id = o
        BY <4>2, <1>5
      <4> QED  BY <4>3
    <3> QED  BY <3>1, <3>2 DEF Adds
  <2> QED  BY <2>2, <2>3 DEF Indexes
<1>7. Known(c.tree, u2)
  <2> SUFFICES ASSUME NEW a \in Sides, NEW b \in Prices, NEW k \in 1..Len(c.tree[a][b].orders)
               PROVE  \E m \in 1..Len(u2) :
                        u2[m] = [id |-> c.tree[a][b].orders[k].id, side |-> a, price |-> b]
    BY DEF Known
  <2>1. CASE k \in 1..Len(t[a][b].orders) /\ c.tree[a][b].orders[k] = t[a][b].orders[k]
    <3>1. PICK m \in 1..Len(u) : u[m] = [id |-> t[a][b].orders[k].id, side |-> a, price |-> b]
      BY <2>1 DEF Known
    <3>2. m \in 1..Len(u2) /\ u2[m] = u[m]
      BY <1>2, <1>3
    <3> QED  BY <3>1, <3>2, <2>1
  <2>2. CASE a = s /\ b = p /\ c.tree[a][b].orders[k] = [id |-> id, quantity |-> quantity]
    <3>1. l + 1 \in 1..Len(u2)
      BY <1>3
    <3> QED  BY <3>1, <2>2, <1>3
  <2> QED  BY <2>1, <2>2, <1>4
<1>8. InOrder(c.tree, u2)
  <2> SUFFICES ASSUME NEW a \in Sides, NEW b \in Prices,
                      NEW k \in 1..Len(c.tree[a][b].orders), NEW k2 \in 1..Len(c.tree[a][b].orders),
                      NEW m \in 1..Len(u2), NEW m2 \in 1..Len(u2),
                      u2[m].id = c.tree[a][b].orders[k].id,
                      u2[m2].id = c.tree[a][b].orders[k2].id,
                      k < k2
               PROVE  m < m2
    BY DEF InOrder
  <2>0. ASSUME NEW j \in 1..Len(u2)
        PROVE  \/ j \in 1..l /\ u2[j] = u[j] /\ u2[j].id # id
               \/ j = l + 1 /\ u2[j].id = id
    <3>1. CASE j \in 1..l
      BY <3>1, <1>2, <1>3 DEF Fresh
    <3>2. CASE j \notin 1..l
      <4>1. j = l + 1
        BY <3>2, <1>3
      <4> QED  BY <4>1, <1>3
    <3> QED  BY <3>1, <3>2
  <2>1. k \in 1..Len(t[a][b].orders) /\ c.tree[a][b].orders[k] = t[a][b].orders[k]
          /\ c.tree[a][b].orders[k].id # id
    <3>1. ~(a = s /\ b = p /\ k = n + 1)
      <4> SUFFICES ASSUME a = s, b = p, k = n + 1  PROVE FALSE
        OBVIOUS
      <4>1. k2 \in 1..n + 1
        BY <1>1 DEF Adds
      <4> QED  BY <4>1
    <3> QED  BY <3>1, <1>4
  <2>2. m \in 1..l /\ u2[m] = u[m]
    BY <2>0, <2>1
  <2>3. CASE c.tree[a][b].orders[k2].id = id
    <3>1. m2 = l + 1
      BY <2>3, <2>0
    <3> QED  BY <3>1, <2>2
  <2>4. CASE c.tree[a][b].orders[k2].id # id
    <3>0. c.tree[a][b].orders[k2] # [id |-> id, quantity |-> quantity]
      BY <2>4
    <3>1. k2 \in 1..Len(t[a][b].orders) /\ c.tree[a][b].orders[k2] = t[a][b].orders[k2]
      BY <3>0, <1>4
    <3>2. m2 \in 1..l /\ u2[m2] = u[m2]
      BY <2>4, <2>0
    <3>3. m \in 1..Len(u) /\ m2 \in 1..Len(u)
      BY <2>2, <3>2, <1>2
    <3>4. /\ u[m].id = t[a][b].orders[k].id
          /\ u[m2].id = t[a][b].orders[k2].id
      BY <2>1, <2>2, <3>1, <3>2
    <3> QED  BY <2>1, <3>1, <3>3, <3>4 DEF InOrder
  <2> QED  BY <2>3, <2>4
<1> QED  BY <1>0, <1>6, <1>7, <1>8 DEF Fits

--------------------------------------------------------------------------------
(***************************************************************************)
(* What match() does with an order at the front of its level that may be   *)
(* filled.                                                                 *)
(***************************************************************************)
LEMMA FilledKeeps ==
  ASSUME NEW t \in Trees, NEW i \in Indices, NEW mv, Indexes(t, i, mv),
         NEW s \in Sides, NEW p \in Prices, 1 \in 1..Len(t[s][p].orders),
         NEW x, x.id = t[s][p].orders[1].id, NEW quantity,
         x.quantity = quantity => x.id \notin mv
  PROVE  Spares(t, x.id, s, p, mv, CancelIfFilled(Book(t, i), x, quantity))
<1>1. CASE x.quantity = quantity
  <2>1. Shifted(t[s][p], 1) = {}
    BY DequeTypes, FrontMovesNone
  <2>2. Cancels(t, t[s][p].orders[1].id, s, p, mv,
                Cancelled(Book(t, i), t[s][p].orders[1].id))
    BY <2>1, <1>1, CancelKeeps
  <2> QED  BY <2>2, <1>1 DEF CancelIfFilled, Cancels
<1>2. CASE x.quantity # quantity
  <2>1. CancelIfFilled(Book(t, i), x, quantity) = Book(t, i)
    BY <1>2 DEF CancelIfFilled
  <2>2. Book(t, i).tree = t /\ Book(t, i).index = i
    BY DEF Book
  <2>3. Thins(t, t)
    BY DEF Thins
  <2> QED  BY <2>1, <2>2, <2>3 DEF Spares, IsBook
<1> QED  BY <1>1, <1>2

\* best_bid and best_ask: no level of the side is better.
BestLevels(bid, ask) ==
  /\ bid \in Prices /\ ask \in Prices
  /\ 1 \in 1..Len(tree["BUY"][bid].orders)
  /\ 1 \in 1..Len(tree["SELL"][ask].orders)
  /\ \A p \in Prices : tree["BUY"][p].orders # << >> => p <= bid
  /\ \A p \in Prices : tree["SELL"][p].orders # << >> => ask <= p

LEMMA BestOfCrossed ==
  ASSUME tree \in Trees, Crossed
  PROVE  BestLevels(Max(Levels("BUY")), Min(Levels("SELL")))
<1>1. \A s \in Sides : Levels(s) \in SUBSET Int /\ IsFiniteSet(Levels(s))
  BY BookAssumption, FS_Subset DEF Levels
<1>2. "BUY" \in Sides /\ "SELL" \in Sides
  BY DEF Sides
<1>3. PICK bid \in Levels("BUY") : bid = Max(Levels("BUY")) /\ \A p \in Levels("BUY") : p <= bid
  BY <1>1, <1>2, MaxIs DEF Crossed
<1>4. PICK ask \in Levels("SELL") : ask = Min(Levels("SELL")) /\ \A p \in Levels("SELL") : ask <= p
  BY <1>1, <1>2, MinIs DEF Crossed
<1>5. ASSUME NEW s \in Sides, NEW p \in Levels(s)  PROVE 1 \in 1..Len(tree[s][p].orders)
  <2>1. p \in Prices /\ tree[s][p].orders # << >>
    BY DEF Levels
  <2>2. tree[s][p].orders \in Seq(Orders)
    BY <2>1, DequeTypes
  <2> QED  BY <2>1, <2>2
<1>6. bid \in Prices /\ ask \in Prices
  BY DEF Levels
<1>7. \A s \in Sides, p \in Prices : tree[s][p].orders # << >> => p \in Levels(s)
  BY DEF Levels
<1> QED  BY <1>2, <1>3, <1>4, <1>5, <1>6, <1>7 DEF BestLevels

LEMMA TradeQuantityIs ==
  ASSUME NEW buy \in Orders, NEW sell \in Orders
  PROVE  /\ TradeQuantity(buy, sell) \in Nat
         /\ TradeQuantity(buy, sell) <= buy.quantity
         /\ TradeQuantity(buy, sell) <= sell.quantity
<1>1. buy.quantity \in Nat /\ sell.quantity \in Nat
  BY DEF Orders
<1>2. IsFiniteSet({buy.quantity, sell.quantity})
  <2>1. IsFiniteSet({sell.quantity})
    BY FS_Singleton
  <2>2. {buy.quantity, sell.quantity} = {sell.quantity} \cup {buy.quantity}
    OBVIOUS
  <2> QED  BY <2>1, <2>2, FS_AddElement
<1>3. PICK S \in SUBSET Int : S = {buy.quantity, sell.quantity}
  <2>1. buy.quantity \in Int /\ sell.quantity \in Int
    BY <1>1
  <2> QED  BY <2>1
<1>4. Min(S) \in S /\ \A x \in S : Min(S) <= x
  BY <1>2, <1>3, MinIs
<1> QED  BY <1>1, <1>3, <1>4 DEF TradeQuantity

\* What a turn of match() does to a book whose index is exact: only the two
\* orders at the front of the best levels can change.
Turns ==
  /\ Indexes(tree', index', moved)
  /\ Thins(tree, tree')
  /\ \E bid, ask \in Prices :
       /\ BestLevels(bid, ask)
       /\ \A o : /\ o # tree["BUY"][bid].orders[1].id
                 /\ o # tree["SELL"][ask].orders[1].id
                 => Held(tree', o) = Held(tree, o)

(***************************************************************************)
(* One turn of match() leaves a tree and an index; and while no erase goes *)
(* astray only the two orders at the front of the best levels can change.  *)
(***************************************************************************)
LEMMA MatchKeeps ==
  ASSUME tree \in Trees, index \in Indices, MatchOnce
  PROVE  /\ tree' \in Trees
         /\ index' \in Indices
         /\ astray => astray'
         /\ ~astray' /\ Indexes(tree, index, moved) => Turns
<1>0. "BUY" \in Sides /\ "SELL" \in Sides /\ "BUY" # "SELL"
  BY DEF Sides
<1>1. PICK bid \in Prices, ask \in Prices :
        /\ bid = Max(Levels("BUY")) /\ ask = Min(Levels("SELL"))
        /\ BestLevels(bid, ask)
  <2>1. Crossed
    BY DEF MatchOnce
  <2> QED  BY <2>1, BestOfCrossed DEF BestLevels
<1>2. PICK buy \in Orders, sell \in Orders :
        buy = tree["BUY"][bid].orders[1] /\ sell = tree["SELL"][ask].orders[1]
  <2>1. tree["BUY"][bid].orders[1] \in Orders
    BY <1>0, <1>1, DequeTypes DEF BestLevels
  <2>2. tree["SELL"][ask].orders[1] \in Orders
    BY <1>0, <1>1, DequeTypes DEF BestLevels
  <2> QED  BY <2>1, <2>2
<1>3. PICK quantity \in Nat : /\ quantity = TradeQuantity(buy, sell)
                             /\ quantity <= buy.quantity /\ quantity <= sell.quantity
  BY TradeQuantityIs
<1>4. PICK t1 : t1 = Traded(tree, "BUY", bid, quantity)
  OBVIOUS
<1>5. Trades(tree, "BUY", bid, quantity, t1)
  <2>1. 1 \in 1..Len(tree["BUY"][bid].orders) /\ quantity <= tree["BUY"][bid].orders[1].quantity
    BY <1>1, <1>2, <1>3 DEF BestLevels
  <2> QED  BY <2>1, <1>0, <1>4, TradeAtFront
<1>6. /\ t1 \in Trees
      /\ t1["SELL"][ask] = tree["SELL"][ask]
      /\ Len(t1["BUY"][bid].orders) = Len(tree["BUY"][bid].orders)
      /\ t1["BUY"][bid].orders[1].id = buy.id
  BY <1>0, <1>1, <1>2, <1>5 DEF Trades, BestLevels
<1>7. PICK t2 : t2 = Traded(t1, "SELL", ask, quantity)
  OBVIOUS
<1>8. Trades(t1, "SELL", ask, quantity, t2)
  <2>1. 1 \in 1..Len(t1["SELL"][ask].orders) /\ quantity <= t1["SELL"][ask].orders[1].quantity
    BY <1>1, <1>2, <1>3, <1>6 DEF BestLevels
  <2> QED  BY <2>1, <1>0, <1>6, <1>7, TradeAtFront
<1>9. /\ t2 \in Trees
      /\ t2["BUY"][bid] = t1["BUY"][bid]
      /\ Len(t2["SELL"][ask].orders) = Len(tree["SELL"][ask].orders)
      /\ t2["SELL"][ask].orders[1].id = sell.id
  BY <1>0, <1>1, <1>2, <1>6, <1>8 DEF Trades, BestLevels
<1>10. PICK book : book = CancelIfFilled(Book(t2, index), buy, quantity)
  OBVIOUS
<1>11. IsBook(book)
  BY <1>9, <1>10, FilledTypes
<1>12. PICK done : done = CancelIfFilled(book, sell, quantity)
  OBVIOUS
<1>13. done = CancelIfFilled(Book(book.tree, book.index), sell, quantity)
  BY <1>11, <1>12 DEF IsBook
<1>14. IsBook(done)
  BY <1>11, <1>13, FilledTypes DEF IsBook
<1>18. /\ tree' = done.tree /\ index' = done.index
       /\ astray' = (astray \/ \E order \in {buy, sell} :
                                order.quantity = quantity /\ order.id \in moved)
  <2>1. PICK b \in {bid}, a \in {ask} :
          \E x \in {Front("BUY", b)}, y \in {Front("SELL", a)} :
          \E q \in {TradeQuantity(x, y)} :
          \E traded \in {Traded(Traded(tree, "BUY", b, q), "SELL", a, q)} :
          \E bk \in {CancelIfFilled(Book(traded, index), x, q)} :
          \E dn \in {CancelIfFilled(bk, y, q)} :
            /\ tree' = dn.tree /\ index' = dn.index
            /\ astray' = (astray \/ \E order \in {x, y} :
                                     order.quantity = q /\ order.id \in moved)
    BY <1>1 DEF MatchOnce
  <2>2. PICK q \in {quantity} :
          \E traded \in {Traded(Traded(tree, "BUY", bid, q), "SELL", ask, q)} :
          \E bk \in {CancelIfFilled(Book(traded, index), buy, q)} :
          \E dn \in {CancelIfFilled(bk, sell, q)} :
            /\ tree' = dn.tree /\ index' = dn.index
            /\ astray' = (astray \/ \E order \in {buy, sell} :
                                     order.quantity = q /\ order.id \in moved)
    BY <2>1, <1>2, <1>3 DEF Front
  <2>3. PICK traded \in {t2} :
          \E bk \in {CancelIfFilled(Book(traded, index), buy, quantity)} :
          \E dn \in {CancelIfFilled(bk, sell, quantity)} :
            /\ tree' = dn.tree /\ index' = dn.index
            /\ astray' = (astray \/ \E order \in {buy, sell} :
                                     order.quantity = quantity /\ order.id \in moved)
    BY <2>2, <1>4, <1>7
  <2> QED  BY <2>3, <1>10, <1>12
<1>19. ASSUME ~astray', Indexes(tree, index, moved)
       PROVE  Turns
  <2>0. /\ buy.quantity = quantity => buy.id \notin moved
        /\ sell.quantity = quantity => sell.id \notin moved
    BY <1>18, <1>19
  <2>1. /\ Indexes(t1, index, moved) /\ Thins(tree, t1)
        /\ \A o : o # buy.id => Held(t1, o) = Held(tree, o)
    BY <1>0, <1>2, <1>5, <1>6, <1>19, TradeKeeps
  <2>2. /\ Indexes(t2, index, moved) /\ Thins(t1, t2)
        /\ \A o : o # sell.id => Held(t2, o) = Held(t1, o)
    BY <1>0, <1>2, <1>6, <1>8, <1>9, <2>1, TradeKeeps
  <2>3. Spares(t2, buy.id, "BUY", bid, moved, book)
    <3>1. 1 \in 1..Len(t2["BUY"][bid].orders) /\ buy.id = t2["BUY"][bid].orders[1].id
      BY <1>1, <1>6, <1>9 DEF BestLevels
    <3> QED  BY <3>1, <1>0, <1>9, <1>10, <2>0, <2>2, FilledKeeps
  <2>4. /\ book.tree \in Trees /\ book.index \in Indices
        /\ Indexes(book.tree, book.index, moved) /\ Thins(t2, book.tree)
        /\ \A o : o # buy.id => Held(book.tree, o) = Held(t2, o)
        /\ book.tree["SELL"][ask] = t2["SELL"][ask]
    BY <1>0, <2>3 DEF Spares, IsBook
  <2>5. Spares(book.tree, sell.id, "SELL", ask, moved, done)
    <3>1. 1 \in 1..Len(book.tree["SELL"][ask].orders) /\ sell.id = book.tree["SELL"][ask].orders[1].id
      BY <1>1, <1>9, <2>4 DEF BestLevels
    <3> QED  BY <3>1, <1>0, <1>13, <2>0, <2>4, FilledKeeps
  <2>6. /\ Indexes(done.tree, done.index, moved) /\ Thins(book.tree, done.tree)
        /\ \A o : o # sell.id => Held(done.tree, o) = Held(book.tree, o)
    BY <2>5 DEF Spares
  <2>7. Thins(tree, done.tree)
    <3>1. Thins(tree, t2)
      BY <2>1, <2>2, ThinsTransitive
    <3>2. Thins(tree, book.tree)
      BY <3>1, <2>4, ThinsTransitive
    <3> QED  BY <3>2, <2>6, ThinsTransitive
  <2>8. \A o : o # buy.id /\ o # sell.id => Held(done.tree, o) = Held(tree, o)
    BY <2>1, <2>2, <2>4, <2>6
  <2> QED  BY <1>1, <1>2, <1>18, <2>6, <2>7, <2>8 DEF Turns
<1> QED  BY <1>14, <1>18, <1>19 DEF IsBook

--------------------------------------------------------------------------------
LEMMA InitInv ==
  ASSUME Init  PROVE BookInv
<1>1. tree \in Trees /\ \A s \in Sides, p \in Prices : Len(tree[s][p].orders) = 0
  BY DEF Init, Trees, Deques, EmptyDeque
<1>2. used = << >> /\ index = << >> /\ matching \in BOOLEAN /\ moved = {} /\ astray \in BOOLEAN
  BY DEF Init
<1>3. index \in Indices
  <2>1. << >> \in [{} -> Refs]
    OBVIOUS
  <2> QED  BY <2>1, <1>2 DEF Indices
<1>4. Indexes(tree, index, moved)
  BY <1>1, <1>2 DEF Indexes
<1>5. Known(tree, used) /\ InOrder(tree, used)
  BY <1>1 DEF Known, InOrder
<1> QED  BY <1>1, <1>2, <1>3, <1>4, <1>5 DEF BookInv, BookTypes, Exact, Uses

LEMMA AddInv ==
  ASSUME BookInv, NEW id \in Ids, NEW s \in Sides, NEW p \in Prices, NEW q \in Quantities,
         AddOrder(id, s, p, q)
  PROVE  BookInv'
<1>0. tree \in Trees /\ index \in Indices /\ used \in Uses
  BY DEF BookInv, BookTypes
<1>1. q \in Nat
  BY BookAssumption
<1>2. \A m \in 1..Len(used) : used[m].id # id
  BY DEF AddOrder
<1>3. PICK c : c = Added(Book(tree, index), id, s, p, q)
  OBVIOUS
<1>4. tree' = c.tree /\ index' = c.index
  BY <1>3 DEF AddOrder
<1>5. Adds(tree, index, id, s, p, q, c)
  BY <1>0, <1>1, <1>3, AddAtBack
<1>6. c.tree \in Trees /\ c.index \in Indices
  BY <1>5 DEF Adds
<1>7. PICK u2 : u2 = Append(used, [id |-> id, side |-> s, price |-> p])
  OBVIOUS
<1>8. /\ used' = u2 /\ matching' = matching /\ moved' = moved /\ astray' = astray
  BY <1>7 DEF AddOrder
<1>9. ASSUME ~astray  PROVE Fits(c, u2, moved)
  <2>1. Indexes(tree, index, moved) /\ Known(tree, used) /\ InOrder(tree, used)
    BY <1>9 DEF BookInv, Exact
  <2>2. ASSUME id \in DOMAIN index  PROVE FALSE
    <3>1. PICK a \in Sides, b \in Prices :
            \E k \in 1..Len(tree[a][b].orders) : tree[a][b].orders[k].id = id
      BY <2>1, <2>2 DEF Indexes
    <3>2. PICK k \in 1..Len(tree[a][b].orders) : tree[a][b].orders[k].id = id
      BY <3>1
    <3>3. PICK m \in 1..Len(used) : used[m] = [id |-> tree[a][b].orders[k].id, side |-> a, price |-> b]
      BY <2>1 DEF Known
    <3> QED  BY <1>2, <3>2, <3>3
  <2>3. Fresh(index, used, id)
    BY <1>2, <2>2 DEF Fresh
  <2> QED  BY <2>1, <2>3, <1>0, <1>1, <1>5, <1>7, AddKeeps
<1>12. PICK l \in Nat : l = Len(used)
  BY <1>0 DEF Uses
<1>13. /\ u2 \in Uses
       /\ Len(u2) = l + 1
       /\ u2[l + 1].id = id
       /\ \A m \in 1..l : u2[m] = used[m]
  BY <1>0, <1>7, <1>12 DEF Uses
<1>14. ASSUME NEW m \in 1..l + 1, NEW n \in 1..l + 1, u2[m].id = u2[n].id
       PROVE  m = n
  <2>1. CASE m \in 1..l /\ n \in 1..l
    BY <2>1, <1>12, <1>13, <1>14 DEF BookInv, BookTypes
  <2>2. CASE m = l + 1 /\ n \in 1..l
    BY <2>2, <1>2, <1>12, <1>13, <1>14
  <2>3. CASE n = l + 1 /\ m \in 1..l
    BY <2>3, <1>2, <1>12, <1>13, <1>14
  <2>4. CASE m = l + 1 /\ n = l + 1
    BY <2>4
  <2>5. (m \in 1..l \/ m = l + 1) /\ (n \in 1..l \/ n = l + 1)
    OBVIOUS
  <2> QED  BY <2>1, <2>2, <2>3, <2>4, <2>5
<1>15. BookTypes'
  BY <1>4, <1>6, <1>8, <1>13, <1>14 DEF BookInv, BookTypes
<1>16. ~astray' => Exact'
  BY <1>4, <1>8, <1>9 DEF Exact, Fits
<1> QED  BY <1>15, <1>16 DEF BookInv

LEMMA CancelTypes ==
  ASSUME BookTypes, NEW id \in Ids, CancelOrder(id)
  PROVE  BookTypes'
<1>1. PICK c : c = Cancelled(Book(tree, index), id)
  OBVIOUS
<1>2. tree' = c.tree /\ index' = c.index
  BY <1>1 DEF CancelOrder
<1>3. c.tree \in Trees /\ c.index \in Indices
  BY <1>1, CancelledTypes DEF BookTypes, IsBook
<1>4. MovedBy(id) \subseteq Ids
  BY DEF MovedBy
<1>5. used' = used /\ matching' = matching /\ moved' \subseteq Ids /\ astray' \in BOOLEAN
  BY <1>4 DEF CancelOrder, BookTypes
<1> QED  BY <1>2, <1>3, <1>5 DEF BookTypes

(***************************************************************************)
(* cancel_order, unless erase has moved the order.                         *)
(***************************************************************************)
LEMMA CancelStep ==
  ASSUME BookTypes, Exact, NEW id \in Ids, CancelOrder(id), ~astray'
  PROVE  \/ id \notin DOMAIN index /\ tree' = tree /\ index' = index /\ \A o \in moved : o \in moved'
         \/ \E s \in Sides, p \in Prices : \E c :
              /\ Cancels(tree, id, s, p, moved', c)
              /\ tree' = c.tree /\ index' = c.index
<1>1. tree \in Trees /\ index \in Indices /\ Indexes(tree, index, moved)
  BY DEF BookTypes, Exact
<1>2. \A o \in moved : o \in moved'
  BY DEF CancelOrder
<1>3. CASE id \notin DOMAIN index
  BY <1>2, <1>3 DEF CancelOrder, Cancelled, Book
<1>4. CASE id \in DOMAIN index
  <2>1. PICK s \in Sides, p \in Prices :
          \E k \in 1..Len(tree[s][p].orders) : tree[s][p].orders[k].id = id
    BY <1>1, <1>4 DEF Indexes
  <2>2. PICK k \in 1..Len(tree[s][p].orders) : tree[s][p].orders[k].id = id
    BY <2>1
  <2>3. id \notin moved
    BY <1>4 DEF CancelOrder
  <2>4. ASSUME NEW j \in Shifted(tree[s][p], k), j \in 1..Len(tree[s][p].orders)
        PROVE  tree[s][p].orders[j].id \in moved'
    <3>1. tree[s][p].orders[j].id \in Ids
      BY <1>1, <2>4, DequeTypes
    <3>2. tree[s][p].orders[j].id \in MovedBy(id)
      BY <2>2, <2>4, <3>1 DEF MovedBy
    <3> QED  BY <3>2 DEF CancelOrder
  <2>5. Cancels(tree, id, s, p, moved', Cancelled(Book(tree, index), id))
    BY <1>1, <1>2, <2>2, <2>3, <2>4, CancelKeeps
  <2>6. PICK c : c = Cancelled(Book(tree, index), id)
    OBVIOUS
  <2>7. tree' = c.tree /\ index' = c.index
    BY <2>6 DEF CancelOrder
  <2> QED  BY <2>5, <2>6, <2>7
<1> QED  BY <1>3, <1>4

\* More orders may have been moved.
LEMMA IndexesWeaken ==
  ASSUME NEW t, NEW i, NEW mv, NEW mv2, Indexes(t, i, mv), \A o \in mv : o \in mv2
  PROVE  Indexes(t, i, mv2)
<1>1. ASSUME NEW s \in Sides, NEW p \in Prices, NEW k \in 1..Len(t[s][p].orders)
      PROVE  Named(t, i, mv2, s, p, k)
  <2>1. Named(t, i, mv, s, p, k)
    BY DEF Indexes
  <2> QED  BY <2>1 DEF Named
<1> QED  BY <1>1 DEF Indexes

LEMMA CancelInv ==
  ASSUME BookInv, NEW id \in Ids, CancelOrder(id)
  PROVE  BookInv'
<1>1. BookTypes'
  BY CancelTypes DEF BookInv
<1>2. ASSUME ~astray'  PROVE Exact'
  <2>1. BookTypes /\ Exact
    <3>1. ~astray
      BY <1>2 DEF CancelOrder
    <3> QED  BY <3>1 DEF BookInv
  <2>2. used' = used
    BY DEF CancelOrder
  <2>3. CASE tree' = tree /\ index' = index /\ \A o \in moved : o \in moved'
    <3>1. Indexes(tree, index, moved')
      BY <2>1, <2>3, IndexesWeaken DEF Exact
    <3> QED  BY <3>1, <2>1, <2>2, <2>3 DEF Exact
  <2>4. CASE \E s \in Sides, p \in Prices : \E c :
               /\ Cancels(tree, id, s, p, moved', c)
               /\ tree' = c.tree /\ index' = c.index
    <3>1. Indexes(tree', index', moved') /\ Thins(tree, tree')
      BY <2>4 DEF Cancels, Spares
    <3>2. Known(tree', used) /\ InOrder(tree', used)
      BY <3>1, <2>1, ThinsKeeps DEF Exact, BookTypes
    <3> QED  BY <3>1, <3>2, <2>2 DEF Exact
  <2> QED  BY <2>1, <2>3, <2>4, <1>2, CancelStep
<1> QED  BY <1>1, <1>2 DEF BookInv

LEMMA NextInv ==
  ASSUME BookInv, [Next]_vars
  PROVE  BookInv'
<1>1. ASSUME NEW id \in Ids, NEW s \in Sides, NEW p \in Prices, NEW q \in Quantities,
             AddOrder(id, s, p, q)
      PROVE  BookInv'
  BY <1>1, AddInv
<1>2. ASSUME NEW id \in Ids, CancelOrder(id)
      PROVE  BookInv'
  BY <1>2, CancelInv
<1>3. CASE StartMatch \/ EndMatch
  BY <1>3 DEF StartMatch, EndMatch, BookInv, BookTypes, Exact
<1>4. CASE MatchOnce
  <2>1. /\ tree' \in Trees /\ index' \in Indices /\ (astray => astray')
        /\ ~astray' /\ Indexes(tree, index, moved) => Turns
    BY <1>4, MatchKeeps DEF BookInv, BookTypes
  <2>2. used' = used /\ matching' = matching /\ moved' = moved
    BY <1>4 DEF MatchOnce
  <2>3. BookTypes'
    <3>1. astray' \in BOOLEAN
      BY <1>4 DEF MatchOnce
    <3> QED  BY <3>1, <2>1, <2>2 DEF BookInv, BookTypes
  <2>4. ASSUME ~astray'  PROVE Exact'
    <3>1. Exact
      BY <2>1, <2>4 DEF BookInv
    <3>2. Indexes(tree', index', moved) /\ Thins(tree, tree')
      BY <2>1, <2>4, <3>1 DEF Exact, Turns
    <3>3. Known(tree', used) /\ InOrder(tree', used)
      BY <3>1, <3>2, ThinsKeeps DEF Exact, BookInv, BookTypes
    <3> QED  BY <3>2, <3>3, <2>2 DEF Exact
  <2> QED  BY <2>3, <2>4 DEF BookInv
<1>5. CASE UNCHANGED vars
  BY <1>5 DEF vars, BookInv, BookTypes, Exact
<1> QED  BY <1>1, <1>2, <1>3, <1>4, <1>5 DEF Next

(***************************************************************************)
(* After any calls of add_order, cancel_order and match: until an erase is *)
(* given the iterator of an order that another erase has moved, the index  *)
(* names every resting order, each is one that was added, on its side and  *)
(* at its price, and a level's orders rest in the order in which they      *)
(* came.                                                                   *)
(***************************************************************************)
THEOREM BookInvariance ==
  Spec => []BookInv
<1>1. Init => BookInv
  BY InitInv
<1>2. BookInv /\ [Next]_vars => BookInv'
  BY NextInv
<1> QED  BY <1>1, <1>2, PTL DEF Spec

--------------------------------------------------------------------------------
\* A level has at most one order per id, so that Resting is every place.
LEMMA RestingIs ==
  ASSUME BookTypes, Exact
  PROVE  \A r : r \in Resting <=>
           \E s \in Sides, p \in Prices : \E k \in 1..Len(tree[s][p].orders) : r = <<s, p, k>>
<1>1. tree \in Trees /\ Indexes(tree, index, moved)
  BY DEF BookTypes, Exact
<1>2. ASSUME NEW s \in Sides, NEW p \in Prices
      PROVE  Len(tree[s][p].orders) <= Cardinality(Ids)
  <2>1. PICK n \in Nat : n = Len(tree[s][p].orders)
    BY <1>1, DequeTypes
  <2>2. PICK f : f = [k \in 1..n |-> tree[s][p].orders[k].id]
    OBVIOUS
  <2>3. f \in [1..n -> Ids]
    BY <1>1, <2>1, <2>2, DequeTypes
  <2>4. \A k, l \in 1..n : f[k] = f[l] => k = l
    BY <1>1, <2>1, <2>2, OnePlace
  <2>5. f \in Injection(1..n, Ids)
    BY <2>3, <2>4 DEF Injection, IsInjective
  <2>6. Cardinality(1..n) <= Cardinality(Ids)
    BY <2>5, BookAssumption, FS_Injection
  <2>7. Cardinality(1..n) = n
    BY FS_Interval
  <2> QED  BY <2>1, <2>6, <2>7
<1>3. Cardinality(Ids) \in Nat
  BY BookAssumption, FS_CardinalityType
<1>4. ASSUME NEW r \in Resting
      PROVE  \E s \in Sides, p \in Prices : \E k \in 1..Len(tree[s][p].orders) : r = <<s, p, k>>
  <2>1. PICK s \in Sides, p \in Prices, k \in 1..Cardinality(Ids) : r = <<s, p, k>>
    BY DEF Resting
  <2>2. k <= Len(tree[s][p].orders)
    BY <2>1 DEF Resting
  <2>3. Len(tree[s][p].orders) \in Nat
    BY <1>1, DequeTypes
  <2>4. k \in 1..Len(tree[s][p].orders)
    BY <2>2, <2>3, <1>3
  <2> QED  BY <2>1, <2>4
<1>5. ASSUME NEW s \in Sides, NEW p \in Prices, NEW k \in 1..Len(tree[s][p].orders)
      PROVE  <<s, p, k>> \in Resting
  <2>1. Len(tree[s][p].orders) \in Nat /\ Len(tree[s][p].orders) <= Cardinality(Ids)
    BY <1>1, <1>2, DequeTypes
  <2>2. k \in 1..Cardinality(Ids) /\ k <= Len(tree[s][p].orders)
    BY <2>1, <1>3
  <2> QED  BY <2>2 DEF Resting
<1> QED  BY <1>4, <1>5

LEMMA InvImpliesTypeOK ==
  ASSUME BookInv  PROVE TypeOK
<1>1. /\ tree \in Trees /\ index \in Indices
      /\ matching \in BOOLEAN /\ moved \subseteq Ids /\ astray \in BOOLEAN
  BY DEF BookInv, BookTypes
<1>2. ASSUME NEW s \in Sides, NEW p \in Prices
      PROVE  /\ tree[s][p].first \in Nat
             /\ tree[s][p].orders \in Seq([id : Ids, quantity : Nat])
  BY <1>1, DequeTypes DEF Orders
<1>3. DOMAIN index \subseteq Ids /\ \A id \in DOMAIN index : index[id] \in Refs
  BY <1>1, IndexTypes
<1> QED  BY <1>1, <1>2, <1>3 DEF TypeOK, Refs

LEMMA InvImpliesIndexExact ==
  ASSUME BookInv  PROVE IndexExact
<1> SUFFICES ASSUME ~astray
             PROVE  /\ DOMAIN index = {OrderAt(r).id : r \in Resting}
                    /\ \A r \in Resting :
                         \E ref \in {index[OrderAt(r).id]} :
                           /\ ref.side = r[1] /\ ref.price = r[2]
                           /\ \/ OrderAt(r).id \in moved
                              \/ ref.it = Place(tree[r[1]][r[2]], r[3])
  BY DEF IndexExact
<1>1. BookTypes /\ Exact /\ Indexes(tree, index, moved)
  BY DEF BookInv, Exact
<1>2. ASSUME NEW r \in Resting
      PROVE  /\ OrderAt(r).id \in DOMAIN index
             /\ index[OrderAt(r).id].side = r[1]
             /\ index[OrderAt(r).id].price = r[2]
             /\ \/ OrderAt(r).id \in moved
                \/ index[OrderAt(r).id].it = Place(tree[r[1]][r[2]], r[3])
  <2>1. PICK s \in Sides, p \in Prices : \E k \in 1..Len(tree[s][p].orders) : r = <<s, p, k>>
    BY <1>1, RestingIs
  <2>2. PICK k \in 1..Len(tree[s][p].orders) : r = <<s, p, k>>
    BY <2>1
  <2>3. OrderAt(r) = tree[s][p].orders[k]
    BY <2>2 DEF OrderAt
  <2>4. Named(tree, index, moved, s, p, k)
    BY <1>1 DEF Indexes
  <2> QED  BY <2>2, <2>3, <2>4 DEF Named
<1>3. ASSUME NEW id \in DOMAIN index
      PROVE  \E r \in Resting : OrderAt(r).id = id
  <2>1. PICK s \in Sides, p \in Prices :
          \E k \in 1..Len(tree[s][p].orders) : tree[s][p].orders[k].id = id
    BY <1>1 DEF Indexes
  <2>2. PICK k \in 1..Len(tree[s][p].orders) : tree[s][p].orders[k].id = id
    BY <2>1
  <2>3. <<s, p, k>> \in Resting
    BY <1>1, RestingIs
  <2>4. OrderAt(<<s, p, k>>).id = id
    BY <2>2 DEF OrderAt
  <2> QED  BY <2>3, <2>4
<1> QED  BY <1>2, <1>3

(***************************************************************************)
(* The levels of the book are deques of orders with what is left of their  *)
(* quantities, never less than nothing, and order_index maps ids to        *)
(* places, whatever the clients cancel and wherever an erase goes astray.  *)
(***************************************************************************)
THEOREM BookTypeCorrect ==
  Spec => []TypeOK
BY BookInvariance, InvImpliesTypeOK, PTL

(***************************************************************************)
(* order_index knows every resting order and nothing else, with its side   *)
(* and price, and its iterator names that order unless an erase has moved  *)
(* it, though iterators name places: whatever clients cancel, until an     *)
(* order that was moved is itself erased.                                  *)
(***************************************************************************)
THEOREM IndexStaysExact ==
  Spec => []IndexExact
BY BookInvariance, InvImpliesIndexExact, PTL

--------------------------------------------------------------------------------
\* The quantity of an id, seen from the tree.
LEMMA QuantityIsHeld ==
  ASSUME BookTypes, Exact  PROVE \A o \in Ids : QuantityOf(o) = Held(tree, o)
<1>1. tree \in Trees /\ Indexes(tree, index, moved)
  BY DEF BookTypes, Exact
<1> TAKE o \in Ids
<1>2. ASSUME NEW x \in QuantityOf(o)  PROVE x \in Held(tree, o)
  <2>1. PICK r \in Resting : OrderAt(r).id = o /\ x = OrderAt(r).quantity
    BY DEF QuantityOf
  <2>2. PICK s \in Sides, p \in Prices : \E k \in 1..Len(tree[s][p].orders) : r = <<s, p, k>>
    BY RestingIs
  <2>3. PICK k \in 1..Len(tree[s][p].orders) : r = <<s, p, k>>
    BY <2>2
  <2>4. OrderAt(r) = tree[s][p].orders[k] /\ tree[s][p].orders[k] \in Orders
    BY <1>1, <2>3, DequeTypes DEF OrderAt
  <2>5. x \in Nat /\ tree[s][p].orders[k] = [id |-> o, quantity |-> x]
    BY <2>1, <2>4 DEF Orders
  <2> QED  BY <2>5 DEF Held
<1>3. ASSUME NEW x \in Nat, x \in Held(tree, o)  PROVE x \in QuantityOf(o)
  <2>1. PICK s \in Sides, p \in Prices :
          \E k \in 1..Len(tree[s][p].orders) : tree[s][p].orders[k] = [id |-> o, quantity |-> x]
    BY <1>3 DEF Held
  <2>2. PICK k \in 1..Len(tree[s][p].orders) : tree[s][p].orders[k] = [id |-> o, quantity |-> x]
    BY <2>1
  <2>3. <<s, p, k>> \in Resting
    BY RestingIs
  <2>4. OrderAt(<<s, p, k>>).id = o /\ OrderAt(<<s, p, k>>).quantity = x
    BY <2>2 DEF OrderAt
  <2> QED  BY <2>3, <2>4 DEF QuantityOf
<1> QED  BY <1>2, <1>3 DEF Held

LEMMA QuantityIsHeldNext ==
  ASSUME BookTypes', Exact'  PROVE (\A o \in Ids : QuantityOf(o) = Held(tree, o))'
BY QuantityIsHeld, PTL

\* An order that has a quantity rests somewhere.
LEMMA HeldRests ==
  ASSUME NEW t, NEW o, Held(t, o) # {}
  PROVE  \E s \in Sides, p \in Prices : \E k \in 1..Len(t[s][p].orders) : t[s][p].orders[k].id = o
<1>1. PICK x \in Nat : \E s \in Sides, p \in Prices : \E k \in 1..Len(t[s][p].orders) :
        t[s][p].orders[k] = [id |-> o, quantity |-> x]
  BY DEF Held
<1>2. PICK s \in Sides, p \in Prices : \E k \in 1..Len(t[s][p].orders) :
        t[s][p].orders[k] = [id |-> o, quantity |-> x]
  BY <1>1
<1>3. PICK k \in 1..Len(t[s][p].orders) : t[s][p].orders[k] = [id |-> o, quantity |-> x]
  BY <1>2
<1> QED  BY <1>3

\* The order at the front of a best level comes before every other.
Foremost(o) ==
  \E s \in Sides, b \in Prices :
    /\ 1 \in 1..Len(tree[s][b].orders)
    /\ o = tree[s][b].orders[1].id
    /\ \A p \in Prices : tree[s][p].orders # << >> =>
         IF s = "BUY" THEN p <= b ELSE b <= p

LEMMA ForemostIsFirst ==
  ASSUME BookTypes, Exact, NEW i \in 1..Len(used), NEW j \in 1..Len(used),
         Foremost(used[j].id), Held(tree, used[i].id) # {}
  PROVE  \/ ~Better(used[i], used[j])
              /\ ~(i < j /\ used[i].side = used[j].side /\ used[i].price = used[j].price)
         \/ i = j
<1>0. /\ tree \in Trees /\ used \in Uses
      /\ \A m, n \in 1..Len(used) : used[m].id = used[n].id => m = n
  BY DEF BookTypes
<1>1. PICK s \in Sides, b \in Prices :
        /\ 1 \in 1..Len(tree[s][b].orders)
        /\ used[j].id = tree[s][b].orders[1].id
        /\ \A p \in Prices : tree[s][p].orders # << >> =>
             IF s = "BUY" THEN p <= b ELSE b <= p
  BY DEF Foremost
<1>2. PICK a \in Sides, p \in Prices : \E k \in 1..Len(tree[a][p].orders) :
        tree[a][p].orders[k].id = used[i].id
  BY HeldRests
<1>3. PICK k \in 1..Len(tree[a][p].orders) : tree[a][p].orders[k].id = used[i].id
  BY <1>2
<1>4. used[j].side = s /\ used[j].price = b
  <2>1. PICK m \in 1..Len(used) : used[m] = [id |-> used[j].id, side |-> s, price |-> b]
    BY <1>1 DEF Exact, Known
  <2>2. m = j
    BY <2>1, <1>0
  <2> QED  BY <2>1, <2>2
<1>5. used[i].side = a /\ used[i].price = p
  <2>1. PICK m \in 1..Len(used) : used[m] = [id |-> used[i].id, side |-> a, price |-> p]
    BY <1>3 DEF Exact, Known
  <2>2. m = i
    BY <2>1, <1>0
  <2> QED  BY <2>1, <2>2
<1>6. tree[a][p].orders # << >>
  <2>1. tree[a][p].orders \in Seq(Orders)
    BY <1>0, DequeTypes
  <2>2. Len(tree[a][p].orders) # 0
    BY <1>3, <2>1
  <2> QED  BY <2>2
<1>7. ~Better(used[i], used[j])
  <2>1. p \in Int /\ b \in Int
    BY BookAssumption
  <2> QED  BY <2>1, <1>1, <1>4, <1>5, <1>6 DEF Better
<1>8. ASSUME i < j, a = s, p = b, i # j  PROVE FALSE
  <2>1. CASE k = 1
    <3>1. used[i].id = used[j].id
      BY <2>1, <1>1, <1>3, <1>8
    <3> QED  BY <3>1, <1>0, <1>8
  <2>2. CASE k # 1
    <3>1. Len(tree[s][b].orders) \in Nat
      BY <1>0, DequeTypes
    <3>2. 1 < k /\ k \in 1..Len(tree[s][b].orders)
      BY <2>2, <1>3, <1>8, <3>1
    <3>3. j < i
      BY <3>2, <1>1, <1>3, <1>8 DEF Exact, InOrder
    <3>4. i \in Int /\ j \in Int
      BY <1>0
    <3> QED  BY <3>3, <3>4, <1>8
  <2> QED  BY <2>1, <2>2
<1> QED  BY <1>4, <1>5, <1>7, <1>8

LEMMA UsedIds ==
  ASSUME BookTypes  PROVE \A k \in 1..Len(used) : used[k].id \in Ids
<1>1. PICK R : R = [id : Ids, side : Sides, price : Prices]
  OBVIOUS
<1>2. used \in Seq(R)
  BY <1>1 DEF BookTypes, Uses
<1>3. \A k \in 1..Len(used) : used[k] \in R
  BY <1>2
<1> QED  BY <1>1, <1>3

LEMMA PriorityStep ==
  ASSUME BookInv, [Next]_vars
  PROVE  Priority
<1>4. SUFFICES ASSUME matching, ~astray', NEW j \in 1..Len(used), NEW i \in 1..Len(used),
                      QuantityOf(used[j].id) # QuantityOf(used[j].id)',
                      QuantityOf(used[i].id) # {}
               PROVE  \/ ~Better(used[i], used[j])
                           /\ ~(i < j /\ used[i].side = used[j].side /\ used[i].price = used[j].price)
                      \/ i = j
  BY DEF Priority
<1>0. BookTypes /\ Exact
  <2>1. ~astray
    BY <1>4 DEF Next, AddOrder, CancelOrder, StartMatch, MatchOnce, EndMatch, vars
  <2> QED  BY <2>1 DEF BookInv
<1>1. BookTypes' /\ Exact'
  <2>1. BookInv'
    BY NextInv
  <2> QED  BY <2>1, <1>4 DEF BookInv
<1>2. \A o \in Ids : QuantityOf(o) = Held(tree, o)
  BY <1>0, QuantityIsHeld
<1>3. (\A o \in Ids : QuantityOf(o) = Held(tree, o))'
  BY <1>1, QuantityIsHeldNext
<1>5. used' = used
  BY <1>4 DEF Next, AddOrder, CancelOrder, StartMatch, MatchOnce, EndMatch, vars
<1>6. used[i].id \in Ids /\ used[j].id \in Ids
  BY <1>0, UsedIds
<1>7. Held(tree, used[j].id) # Held(tree', used[j].id)
  <2>1. QuantityOf(used[j].id)' = Held(tree', used[j].id)
    BY <1>3, <1>5, <1>6
  <2> QED  BY <2>1, <1>2, <1>4, <1>6
<1>8. MatchOnce
  BY <1>4, <1>7 DEF Next, AddOrder, CancelOrder, StartMatch, EndMatch, vars
<1>9. Foremost(used[j].id)
  <2>1. PICK bid, ask \in Prices :
          /\ BestLevels(bid, ask)
          /\ \A o : /\ o # tree["BUY"][bid].orders[1].id
                    /\ o # tree["SELL"][ask].orders[1].id
                    => Held(tree', o) = Held(tree, o)
    <3>1. Turns
      BY <1>0, <1>4, <1>8, MatchKeeps DEF BookTypes, Exact
    <3> QED  BY <3>1 DEF Turns
  <2>2. \/ used[j].id = tree["BUY"][bid].orders[1].id
        \/ used[j].id = tree["SELL"][ask].orders[1].id
    BY <2>1, <1>7
  <2>3. "BUY" \in Sides /\ "SELL" \in Sides /\ "SELL" # "BUY"
    BY DEF Sides
  <2> QED  BY <2>1, <2>2, <2>3 DEF Foremost, BestLevels
<1>10. Held(tree, used[i].id) # {}
  BY <1>2, <1>4, <1>6
<1> QED  BY <1>0, <1>9, <1>10, ForemostIsFirst

LEMMA CancelExactStep ==
  ASSUME BookInv, [Next]_vars
  PROVE  \A id \in Ids : CancelOrder(id) /\ ~astray' => Removes(id)
<1>4. SUFFICES ASSUME NEW id \in Ids, CancelOrder(id), ~astray', NEW x \in Ids
               PROVE  QuantityOf(x)' = IF x = id THEN {} ELSE QuantityOf(x)
  BY DEF Removes
<1>0. BookTypes /\ Exact
  <2>1. ~astray
    BY <1>4 DEF CancelOrder
  <2> QED  BY <2>1 DEF BookInv
<1>1. BookTypes' /\ Exact'
  <2>1. BookInv'
    BY NextInv
  <2> QED  BY <2>1, <1>4 DEF BookInv
<1>2. QuantityOf(x) = Held(tree, x)
  BY <1>0, QuantityIsHeld
<1>3. (\A o \in Ids : QuantityOf(o) = Held(tree, o))'
  BY <1>1, QuantityIsHeldNext
<1>5. Held(tree', x) = IF x = id THEN {} ELSE Held(tree, x)
  <2>1. CASE id \notin DOMAIN index /\ tree' = tree
    <3>1. Held(tree, id) = {}
      <4> SUFFICES ASSUME Held(tree, id) # {}  PROVE FALSE
        OBVIOUS
      <4>1. PICK s \in Sides, p \in Prices : \E k \in 1..Len(tree[s][p].orders) :
              tree[s][p].orders[k].id = id
        BY HeldRests
      <4>2. PICK k \in 1..Len(tree[s][p].orders) : tree[s][p].orders[k].id = id
        BY <4>1
      <4>3. Named(tree, index, moved, s, p, k)
        BY <1>0 DEF Exact, Indexes
      <4> QED  BY <4>2, <4>3, <2>1 DEF Named
    <3> QED  BY <3>1, <2>1
  <2>2. CASE \E s \in Sides, p \in Prices : \E c :
              /\ Cancels(tree, id, s, p, moved', c)
              /\ tree' = c.tree /\ index' = c.index
    BY <2>2 DEF Cancels, Spares
  <2> QED  BY <2>1, <2>2, <1>0, <1>4, CancelStep
<1>6. QuantityOf(x)' = Held(tree', x)
  BY <1>3
<1> QED  BY <1>2, <1>5, <1>6

(***************************************************************************)
(* Price and time priority: an order that trades in match() is the oldest  *)
(* of the best price on its side, however orders came and were cancelled   *)
(* before, from inside their levels too, until an order that an erase has  *)
(* moved is itself erased.                                                 *)
(***************************************************************************)
THEOREM BookTradesInPriority ==
  Spec => TradesInPriority
<1>1. BookInv /\ [Next]_vars => [Priority]_vars
  BY PriorityStep
<1> QED  BY <1>1, BookInvariance, PTL DEF Spec, TradesInPriority

(***************************************************************************)
(* cancel_order takes the order it names out of the book, wherever in its  *)
(* level it lies, and leaves every other order with its quantity, unless   *)
(* an earlier erase has moved that order.                                  *)
(***************************************************************************)
THEOREM BookCancelsExactly ==
  Spec => CancelExact
<1>1. BookInv /\ [Next]_vars =>
        [\A id \in Ids : CancelOrder(id) /\ ~astray' => Removes(id)]_vars
  BY CancelExactStep
<1> QED  BY <1>1, BookInvariance, PTL DEF Spec, CancelExact
================================================================================
