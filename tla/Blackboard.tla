------------------------------ MODULE Blackboard ------------------------------
(***************************************************************************)
(* Story 1: two threads write a sentence of four words each on one         *)
(* blackboard, a std::string; main joins them and prints it.  The program  *)
(* comes in four stages:                                                   *)
(*   "Fighting"  BlackboardFighting.cpp: nobody locks;                     *)
(*   "AddLock"   AddLockSolution.cpp: both lock and unlock;                *)
(*   "Smart"     SmartLock.cpp: Peter uses a unique_lock, Danny none;      *)
(*   "Safe"      SafeAndSmartLock.cpp: both get the string from a MutexSafe*)
(*               by a unique_lock, and so does main.  Danny's first word   *)
(*               is assigned there (= +"My"), not appended (+=).           *)
(*                                                                         *)
(* A write that overlaps another is a data race: from then on the string   *)
(* may be anything, and torn says so.                                      *)
(***************************************************************************)
EXTENDS Integers, Sequences

CONSTANTS
  Stages,     \* the programs a run looks at
  Nobody      \* no thread

\* Assumed by MCThreads.
StagesAssumption ==
  /\ Stages \subseteq {"Fighting", "AddLock", "Smart", "Safe"}
  /\ Nobody \notin {"Danny", "Peter", "main"}

VARIABLES
  stage,
  board,      \* the words on the blackboard, each with who wrote it
  torn,
  mutex,      \* who holds the mutex, or Nobody
  pc,         \* where a thread is: to "lock", between words, in a "write", ...
  written,    \* written[w]: how many words w has written
  printed     \* what main printed: a board, or <<"garbled">>

vars == <<stage, board, torn, mutex, pc, written, printed>>

Writers == {"Danny", "Peter"}

\* Word i of writer w: "My", " name", " is", and the name.
Word(w, i) == [by |-> w, nr |-> i]

Sentence(w) == [i \in 1..4 |-> Word(w, i)]

\* Mutant of UsesLock: Danny forgets the lock in every stage.
UsesLockNotDanny(w) == stage \in {"AddLock", "Safe", "Smart"} /\ w = "Peter"

UsesLock(w) == stage \in {"AddLock", "Safe"} \/ (stage = "Smart" /\ w = "Peter")

Init ==
  /\ stage \in Stages
  /\ board = << >> /\ torn = FALSE
  /\ mutex = Nobody
  /\ pc = [w \in Writers |-> IF UsesLock(w) THEN "lock" ELSE "pause"]
  /\ written = [w \in Writers |-> 0]
  /\ printed = << >>

--------------------------------------------------------------------------------
\* mutex.lock(), or the constructor of a unique_lock; Acquire() only checks it.
Lock(w) ==
  /\ pc[w] = "lock" /\ mutex = Nobody
  /\ mutex' = w
  /\ pc' = [pc EXCEPT ![w] = "pause"]
  /\ UNCHANGED <<stage, board, torn, written, printed>>

\* The next word is begun after the first write or a sleep.
BeginWord(w) ==
  /\ pc[w] = "pause" /\ written[w] < 4
  /\ pc' = [pc EXCEPT ![w] = "write"]
  /\ UNCHANGED <<stage, board, torn, mutex, written, printed>>

Racing(w) == \E v \in Writers \ {w} : pc[v] = "write"

\* Mutant of Put: Peter's first word is assigned too.
PutAssigns(w, i) ==
  IF stage = "Safe" /\ i = 1 THEN <<Word(w, i)>> ELSE Append(board, Word(w, i))

\* += appends; the = of line 75 replaces what was there.
Put(w, i) ==
  IF stage = "Safe" /\ w = "Danny" /\ i = 1 THEN <<Word(w, i)>>
                                             ELSE Append(board, Word(w, i))

EndWord(w) ==
  /\ pc[w] = "write"
  /\ torn' = (torn \/ Racing(w))
  /\ board' = IF torn' THEN << >> ELSE Put(w, written[w] + 1)
  /\ written' = [written EXCEPT ![w] = @ + 1]
  /\ pc' = [pc EXCEPT ![w] = "pause"]
  /\ UNCHANGED <<stage, mutex, printed>>

\* Mutant of Leave: the mutex is not unlocked.
LeaveLocked(w) ==
  /\ pc[w] = "pause" /\ written[w] = 4
  /\ pc' = [pc EXCEPT ![w] = "done"]
  /\ UNCHANGED <<stage, board, torn, mutex, written, printed>>

\* mutex.unlock(), or the destructor of the unique_lock, and the thread ends.
Leave(w) ==
  /\ pc[w] = "pause" /\ written[w] = 4
  /\ mutex' = IF UsesLock(w) THEN Nobody ELSE mutex
  /\ pc' = [pc EXCEPT ![w] = "done"]
  /\ UNCHANGED <<stage, board, torn, written, printed>>

\* main joins both threads, takes the lock in the last stage, and prints.
JoinAndPrint ==
  /\ \A w \in Writers : pc[w] = "done"
  /\ stage = "Safe" => mutex = Nobody
  /\ printed = << >>
  /\ printed' = IF torn THEN <<"garbled">> ELSE board
  /\ UNCHANGED <<stage, board, torn, mutex, pc, written>>

WriterStep(w) == Lock(w) \/ BeginWord(w) \/ EndWord(w) \/ Leave(w)

Next == JoinAndPrint \/ \E w \in Writers : WriterStep(w)

Spec == Init /\ [][Next]_vars

\* The three threads run.  Each locks the mutex once, so weak fairness is enough.
FairSpec == Spec /\ WF_vars(JoinAndPrint) /\ \A w \in Writers : WF_vars(WriterStep(w))

--------------------------------------------------------------------------------
Locked == stage \in {"AddLock", "Safe"}

(***************************************************************************)
(* Where both use the lock, nobody writes while the other does, and        *)
(* between two holders of the lock only whole sentences are on the board.  *)
(* Danny's missing lock in SmartLock.cpp is enough to spoil Peter's.       *)
(***************************************************************************)
SentencesWhole ==
  Locked =>
    /\ ~torn /\ \A w \in Writers : pc[w] = "write" => mutex = w /\ ~Racing(w)
    /\ mutex = Nobody =>
         board \in {<< >>, Sentence("Danny"), Sentence("Peter"),
                    Sentence("Danny") \o Sentence("Peter"),
                    Sentence("Peter") \o Sentence("Danny")}

(***************************************************************************)
(* What main prints.  With the lock of AddLockSolution.cpp, both sentences;*)
(* in the safe, Danny's always, and Peter's after it or not at all, because*)
(* Danny's assignment wipes the board.  Without the lock, if no write ever *)
(* overlapped another, every word is there and each writer's in order.     *)
(***************************************************************************)
EachInOrder(words) ==
  /\ Len(words) = 8
  /\ \A w \in Writers, n \in 1..4 : \E i \in 1..8 : words[i] = Word(w, n)
  /\ \A i, j \in 1..8 : i < j /\ words[i].by = words[j].by => words[i].nr < words[j].nr

PrintsWhatWasWritten ==
  printed # << >> =>
    CASE stage = "AddLock" ->
           printed \in {Sentence("Danny") \o Sentence("Peter"),
                        Sentence("Peter") \o Sentence("Danny")}
      [] stage = "Safe" ->
           printed \in {Sentence("Danny"), Sentence("Danny") \o Sentence("Peter")}
      [] OTHER -> torn \/ EachInOrder(printed)

(***************************************************************************)
(* main gets to print: nobody keeps the lock, and both joins return.       *)
(***************************************************************************)
Prints == <>(printed # << >>)
================================================================================
