------------------------------- MODULE MCThreads -------------------------------
(***************************************************************************)
(* The programs whose threads share memory under a mutex, on small         *)
(* instances, one of them per behaviour: program says which, and the other *)
(* stands still.  Of the shared pointer, one thread moves objects between  *)
(* two handles of its own while another shares them through a single one.  *)
(***************************************************************************)
EXTENDS SharedPtr

CONSTANTS t1, t2, Stages, Nobody

MCThreadSet == {t1, t2}

MCPerThread == [t \in MCThreadSet |-> IF t = t1 THEN 2 ELSE 1]

VARIABLES
  program,
  stage, board, torn, boardMutex, boardPc, written, printed

boardVars == <<stage, board, torn, boardMutex, boardPc, written, printed>>

B == INSTANCE Blackboard WITH mutex <- boardMutex, pc <- boardPc

ASSUME ThreadsAssumption == B!StagesAssumption

MCInit ==
  /\ Init /\ B!Init
  /\ \/ program = "Blackboard"
     \/ program = "Shared_Ptr" /\ stage = CHOOSE s \in Stages : TRUE

MCNext ==
  /\ UNCHANGED program
  /\ \/ program = "Shared_Ptr" /\ Next /\ UNCHANGED boardVars
     \/ program = "Blackboard" /\ B!Next /\ UNCHANGED vars

\* The fairness of both.
MCSpec ==
  /\ MCInit /\ [][MCNext]_<<program, vars, boardVars>>
  /\ \A t \in Threads : WF_vars(FreeStep(t) /\ UNCHANGED <<program, boardVars>>)
                        /\ SF_vars(LockStep(t) /\ UNCHANGED <<program, boardVars>>)
  /\ WF_boardVars(program = "Blackboard" /\ B!JoinAndPrint /\ UNCHANGED <<program, vars>>)
  /\ \A w \in B!Writers :
       WF_boardVars(program = "Blackboard" /\ B!WriterStep(w) /\ UNCHANGED <<program, vars>>)

(***************************************************************************)
(* Where both writers lock, no sentence is torn (Blackboard.tla).          *)
(***************************************************************************)
SentencesWhole == B!SentencesWhole

(***************************************************************************)
(* main prints what each program leaves on the board (Blackboard.tla).     *)
(***************************************************************************)
PrintsWhatWasWritten == B!PrintsWhatWasWritten

(***************************************************************************)
(* main gets to print (Blackboard.tla).                                    *)
(***************************************************************************)
Prints == program = "Blackboard" => B!Prints
================================================================================
