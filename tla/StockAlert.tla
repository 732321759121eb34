------------------------------ MODULE StockAlert ------------------------------
(***************************************************************************)
(* The two threads of MultiThreadsInC++11/story-2-ConditionVariable: Peter *)
(* updates a stock price Rounds times and notifies a condition variable    *)
(* when it is above $90, which it is at the latest in round SureRound;     *)
(* Danny waits on the condition variable without a predicate, at most      *)
(* twice, for a price to sell at.  A price is "high" above 90, else "low". *)
(***************************************************************************)
EXTENDS Integers

CONSTANTS
  Rounds,     \* iterations of Peter's loop: 4 in the code
  SureRound   \* the iteration that sets the price to 99: 2 in the code

VARIABLES
  price,      \* of the blackboard, guarded by the mutex
  mutex,      \* "peter", "danny" or "free"
  round,      \* Peter's i
  peter,      \* where Peter is in his loop
  danny       \* where Danny is

vars == <<price, mutex, round, peter, danny>>

Init ==
  /\ price = "low"
  /\ mutex = "free"
  /\ round = 0
  /\ peter = "lock"
  /\ danny = "lock"

--------------------------------------------------------------------------------
PeterLock ==
  /\ peter \in {"lock", "relock"}
  /\ round < Rounds
  /\ mutex = "free"
  /\ mutex' = "peter"
  /\ peter' = IF peter = "lock" THEN "update" ELSE "leave"
  /\ UNCHANGED <<price, round, danny>>

\* A high price releases the mutex before the notification.
PeterUpdate ==
  /\ peter = "update"
  /\ price' \in IF round = SureRound THEN {"high"} ELSE {"low", "high"}
  /\ IF price' = "high"
       THEN peter' = "notify" /\ mutex' = "free"
       ELSE peter' = "leave" /\ UNCHANGED mutex
  /\ UNCHANGED <<round, danny>>

\* notify_one, which is lost when Danny is not waiting.
PeterNotify ==
  /\ peter = "notify"
  /\ peter' = "relock"
  /\ danny' = CASE danny = "wait" -> "woken"
                [] danny = "waitAgain" -> "wokenAgain"
                [] OTHER -> danny
  /\ UNCHANGED <<price, mutex, round>>

\* The lock is released at the end of its scope.
PeterLeave ==
  /\ peter = "leave"
  /\ mutex' = "free"
  /\ round' = round + 1
  /\ peter' = "lock"
  /\ UNCHANGED <<price, danny>>

\* Danny takes the mutex on entry and before wait returns.
DannyLock ==
  /\ danny \in {"lock", "woken", "wokenAgain"}
  /\ mutex = "free"
  /\ mutex' = "danny"
  /\ danny' = CASE danny = "lock" -> "locked"
                [] danny = "woken" -> "look"
                [] OTHER -> "lookAgain"
  /\ UNCHANGED <<price, round, peter>>

\* wait(lock) releases the mutex and waits, whatever the price is by now.
DannyWait ==
  /\ danny = "locked"
  /\ mutex' = "free"
  /\ danny' = "wait"
  /\ UNCHANGED <<price, round, peter>>

\* After the first wait Danny sells or waits again, after the second he leaves,
\* having sold or not.
DannyLook ==
  /\ danny \in {"look", "lookAgain"}
  /\ mutex' = "free"
  /\ danny' = IF price = "high" THEN "sold"
              ELSE IF danny = "look" THEN "waitAgain" ELSE "gone"
  /\ UNCHANGED <<price, round, peter>>

SpuriousWakeup ==
  /\ \/ danny = "wait" /\ danny' = "woken"
     \/ danny = "waitAgain" /\ danny' = "wokenAgain"
  /\ UNCHANGED <<price, mutex, round, peter>>

PeterStep == PeterLock \/ PeterUpdate \/ PeterNotify \/ PeterLeave

DannyStep == DannyLock \/ DannyWait \/ DannyLook

Next == PeterStep \/ DannyStep \/ SpuriousWakeup

Spec == Init /\ [][Next]_vars

(***************************************************************************)
(* Both threads keep running and neither is kept out of the mutex for ever *)
(* by the other.  No spurious wake-up is promised.                         *)
(***************************************************************************)
Fairness ==
  /\ WF_vars(PeterUpdate \/ PeterNotify \/ PeterLeave)
  /\ WF_vars(DannyWait \/ DannyLook)
  /\ SF_vars(PeterLock)
  /\ SF_vars(DannyLock)

FairSpec == Spec /\ Fairness

--------------------------------------------------------------------------------
(***************************************************************************)
(* "Wait efficiently and safely": whatever the scheduling, Danny's wait is *)
(* over some day and his thread can be joined.                             *)
(***************************************************************************)
DannyLeaves == <>(danny \in {"sold", "gone"})
================================================================================
