------------------------------ MODULE FifoChannel ------------------------------
(***************************************************************************)
(* What a thread-safe message queue promises its callers: a bounded FIFO   *)
(* channel on which a call begins, takes effect at one instant while it is *)
(* pending, and ends.  No mutex, no condition variable, no wake-up is      *)
(* visible here.  MessageQueue is shown to implement this specification.   *)
(***************************************************************************)
EXTENDS Integers, Sequences

CONSTANTS
  Senders,    \* threads that call Send
  Receivers,  \* threads that call Receive (a thread may do both)
  Values,     \* what can be sent
  Capacity,   \* most values the channel holds; negative: no bound
  NoValue     \* what a thread holds before its first call

VARIABLES
  chan,       \* the values sent and not yet received, oldest first
  call,       \* call[t]: the call thread t is in, "none" when it is in none
  val         \* val[t]: the value t sends, or the last value it received

chanVars == <<chan, call, val>>

Users == Senders \cup Receivers

HasRoom == Capacity < 0 \/ Len(chan) < Capacity

Init ==
  /\ chan = << >>
  /\ call = [t \in Users |-> "none"]
  /\ val = [t \in Users |-> NoValue]

BeginSend(t, v) ==
  /\ call[t] = "none"
  /\ call' = [call EXCEPT ![t] = "send"]
  /\ val' = [val EXCEPT ![t] = v]
  /\ UNCHANGED chan

Send(t) ==
  /\ call[t] = "send"
  /\ HasRoom
  /\ chan' = Append(chan, val[t])
  /\ call' = [call EXCEPT ![t] = "none"]
  /\ UNCHANGED val

BeginReceive(t) ==
  /\ call[t] = "none"
  /\ call' = [call EXCEPT ![t] = "receive"]
  /\ UNCHANGED <<chan, val>>

Receive(t) ==
  /\ call[t] = "receive"
  /\ chan # << >>
  /\ val' = [val EXCEPT ![t] = Head(chan)]
  /\ chan' = Tail(chan)
  /\ call' = [call EXCEPT ![t] = "none"]

Next ==
  \/ \E t \in Senders : Send(t) \/ \E v \in Values : BeginSend(t, v)
  \/ \E t \in Receivers : BeginReceive(t) \/ Receive(t)

Spec == Init /\ [][Next]_chanVars

(***************************************************************************)
(* The channel itself never stalls: while some sender is pending and there *)
(* is room, some send completes; while some receiver is pending and there  *)
(* is a value, some receive completes.  Nothing is promised to a given     *)
(* thread, because the others may always be faster.                        *)
(***************************************************************************)
FairSpec ==
  /\ Spec
  /\ WF_chanVars(\E t \in Senders : Send(t))
  /\ WF_chanVars(\E t \in Receivers : Receive(t))
================================================================================
