------------------------------ MODULE MCOrderBook ------------------------------
(***************************************************************************)
(* The order book on a small instance.  An id is only a name, so it is     *)
(* enough to look at clients that use 1, 2, 3, ... in turn.                *)
(***************************************************************************)
EXTENDS OrderBook

InTurn == \A k \in 1..Len(used) : used[k].id = k

MCNext == Next /\ InTurn'

\* As FairSpec.
MCSpec == Init /\ [][MCNext]_vars /\ WF_vars(MatchOnce \/ EndMatch)
================================================================================
