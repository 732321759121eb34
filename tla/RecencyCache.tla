----------------------------- MODULE RecencyCache -----------------------------
(***************************************************************************)
(* What a least-recently-used cache promises: it holds the pairs of the at *)
(* most Bound keys that were put or found last, the latest first.  answer  *)
(* is what the last Get returned.                                          *)
(***************************************************************************)
EXTENDS Integers, Sequences, SequencesExt

CONSTANTS CacheKeys, CacheValues, Bound, NoValue

VARIABLES recent, answer

cacheVars == <<recent, answer>>

Init == recent = << >> /\ answer = NoValue

\* The pair goes to the front.  The older pair of its key goes, or, when the key
\* is new and the cache full, the pair that was put or found longest ago.
Latest(pair) ==
  \/ \E i \in DOMAIN recent :
       recent[i].key = pair.key /\ recent' = <<pair>> \o RemoveAt(recent, i)
  \/ /\ \A i \in DOMAIN recent : recent[i].key # pair.key
     /\ recent' = <<pair>> \o IF Len(recent) < Bound THEN recent ELSE Front(recent)

Miss(k) ==
  /\ \A i \in DOMAIN recent : recent[i].key # k
  /\ answer' = NoValue
  /\ UNCHANGED recent

Hit(i) == answer' = recent[i].value /\ Latest(recent[i])

Put(k, v) == Latest([key |-> k, value |-> v]) /\ UNCHANGED answer

Next ==
  \/ \E k \in CacheKeys : Miss(k) \/ (\E v \in CacheValues : Put(k, v))
  \/ \E i \in DOMAIN recent : Hit(i)

Spec == Init /\ [][Next]_cacheVars
================================================================================
