--------------------------- MODULE BlackboardProofs ---------------------------
(***************************************************************************)
(* Proofs about the blackboard, in each stage of the program.  The         *)
(* invariant says who holds the mutex where the code uses one, and what is *)
(* on the board in terms of how many words each writer has written: whole  *)
(* sentences before an unfinished one with the lock, an interleaving of    *)
(* the two without it (OnBoard).                                           *)
(***************************************************************************)
EXTENDS MCThreads, TLAPS

Pre(w, n) == [i \in 1..n |-> B!Word(w, i)]

Words == [by : B!Writers, nr : Nat]

TypeInv ==
  /\ stage \in {"Fighting", "AddLock", "Smart", "Safe"}
  /\ torn \in BOOLEAN
  /\ boardPc \in [B!Writers -> {"lock", "pause", "write", "done"}]
  /\ written \in [B!Writers -> 0..4]

\* Who waits for the lock has written nothing, and who is done, everything.
PcOK ==
  \A w \in B!Writers :
    /\ boardPc[w] = "lock" => B!UsesLock(w) /\ written[w] = 0
    /\ boardPc[w] = "write" => written[w] < 4
    /\ boardPc[w] = "done" => written[w] = 4

\* Between lock and unlock, and only there, a writer that locks holds the mutex.
MutexOK ==
  /\ boardMutex \in B!Writers \cup {Nobody}
  /\ \A w \in B!Writers : boardMutex = w <=> B!UsesLock(w) /\ boardPc[w] \in {"pause", "write"}

\* With the lock: one writer's words, then the other's once the first is done.
After(a, b) ==
  /\ board = Pre(a, written[a]) \o Pre(b, written[b])
  /\ written[b] > 0 => boardPc[a] = "done"

\* In the safe, Danny's first word replaces what Peter wrote.
Wiped ==
  /\ board = IF written["Danny"] = 0 THEN Pre("Peter", written["Peter"])
                                     ELSE Pre("Danny", written["Danny"])
  /\ written["Danny"] > 0 => boardPc["Peter"] = "done"

\* Without the lock: the words so far, each writer's in order.
Merged(words, nums) ==
  /\ words \in Seq(Words)
  /\ Len(words) = nums["Danny"] + nums["Peter"]
  /\ \A w \in B!Writers : \A n \in 1..nums[w] : \E i \in 1..Len(words) : words[i] = B!Word(w, n)
  /\ \A i \in 1..Len(words) : words[i].nr <= nums[words[i].by]
  /\ \A i, j \in 1..Len(words) : i < j /\ words[i].by = words[j].by => words[i].nr < words[j].nr

OnBoard ==
  /\ B!Locked => ~torn
  /\ stage = "AddLock" => After("Danny", "Peter") \/ After("Peter", "Danny")
  /\ stage = "Safe" => After("Danny", "Peter") \/ Wiped
  /\ ~B!Locked /\ ~torn => Merged(board, written)

BoardInv == TypeInv /\ PcOK /\ MutexOK /\ OnBoard /\ PrintsWhatWasWritten

--------------------------------------------------------------------------------
LEMMA PreGrows ==
  ASSUME NEW w \in B!Writers, NEW n \in Nat
  PROVE  /\ Pre(w, n) \in Seq(Words)
         /\ Len(Pre(w, n)) = n
         /\ Append(Pre(w, n), B!Word(w, n + 1)) = Pre(w, n + 1)
<1>1. Pre(w, n) \in Seq(Words) /\ Len(Pre(w, n)) = n
  BY DEF Pre, Words, B!Word
<1>2. Append(Pre(w, n), B!Word(w, n + 1)) = Pre(w, n + 1)
  BY <1>1 DEF Pre
<1> QED  BY <1>1, <1>2

LEMMA AppendConcat ==
  ASSUME NEW s \in Seq(Words), NEW t \in Seq(Words), NEW x \in Words
  PROVE  /\ Append(s \o t, x) = s \o Append(t, x)
         /\ << >> \o s = s /\ s \o << >> = s
OBVIOUS

\* The first n words of a sentence are none, or all four of them.
LEMMA PreEnds ==
  ASSUME NEW w \in B!Writers
  PROVE  Pre(w, 0) = << >> /\ Pre(w, 4) = B!Sentence(w)
BY DEF Pre, B!Sentence

LEMMA OthersAre ==
  B!Writers = {"Danny", "Peter"} /\ "Danny" # "Peter"
    /\ "Danny" # Nobody /\ "Peter" # Nobody
BY ThreadsAssumption DEF B!StagesAssumption, B!Writers

LEMMA InitInv ==
  ASSUME B!Init  PROVE BoardInv
<1>0. stage \in {"Fighting", "AddLock", "Smart", "Safe"}
  BY ThreadsAssumption DEF B!StagesAssumption, B!Init
<1>1. TypeInv /\ PcOK
  <2>1. boardPc \in [B!Writers -> {"lock", "pause", "write", "done"}]
    BY DEF B!Init
  <2>2. written \in [B!Writers -> 0..4]
    BY DEF B!Init
  <2>3. PcOK
    BY DEF B!Init, PcOK
  <2> QED  BY <1>0, <2>1, <2>2, <2>3 DEF B!Init, TypeInv
<1>2. MutexOK
  BY OthersAre DEF B!Init, MutexOK
<1>3. Pre("Danny", 0) = << >> /\ Pre("Peter", 0) = << >>
  BY PreEnds, OthersAre
<1>4. << >> \o << >> = << >>
  OBVIOUS
<1>5. written["Danny"] = 0 /\ written["Peter"] = 0 /\ board = << >> /\ torn = FALSE
  BY OthersAre DEF B!Init
<1>6. After("Danny", "Peter")
  BY <1>3, <1>4, <1>5 DEF After
<1>7. Merged(board, written)
  <2>1. \A w \in B!Writers : written[w] = 0
    BY DEF B!Init
  <2>2. << >> \in Seq(Words) /\ Len(<< >>) = 0
    OBVIOUS
  <2> QED  BY <2>1, <2>2, <1>5 DEF Merged
<1>8. printed = << >>
  BY DEF B!Init
<1> QED  BY <1>1, <1>2, <1>5, <1>6, <1>7, <1>8
         DEF BoardInv, OnBoard, PrintsWhatWasWritten, B!PrintsWhatWasWritten

--------------------------------------------------------------------------------
(***************************************************************************)
(* A word more on an interleaving.                                         *)
(***************************************************************************)
LEMMA MergedGrows ==
  ASSUME NEW words, NEW nums \in [B!Writers -> 0..4], Merged(words, nums),
         NEW w \in B!Writers, nums[w] < 4
  PROVE  Merged(Append(words, B!Word(w, nums[w] + 1)), [nums EXCEPT ![w] = @ + 1])
<1>1. PICK more : more = Append(words, B!Word(w, nums[w] + 1))
  OBVIOUS
<1>2. PICK now : now = [nums EXCEPT ![w] = @ + 1]
  OBVIOUS
<1>3. PICK l \in Nat : l = Len(words) /\ words \in Seq(Words)
  BY DEF Merged
<1>4. /\ nums[w] \in Nat /\ now[w] = nums[w] + 1
      /\ \A v \in B!Writers : v # w => now[v] = nums[v]
      /\ \A v \in B!Writers : nums[v] \in Nat /\ now[v] \in Nat /\ nums[v] <= now[v]
  BY <1>2
<1>5. B!Word(w, nums[w] + 1) \in Words
  BY <1>4 DEF B!Word, Words
<1>6. /\ more \in Seq(Words) /\ Len(more) = l + 1
      /\ more[l + 1] = B!Word(w, nums[w] + 1)
      /\ \A i \in 1..l : more[i] = words[i]
  BY <1>1, <1>3, <1>5
<1>7. Len(more) = now["Danny"] + now["Peter"]
  <2>1. l = nums["Danny"] + nums["Peter"]
    BY <1>3 DEF Merged
  <2>2. CASE w = "Danny"
    BY <2>1, <2>2, <1>4, <1>6, OthersAre
  <2>3. CASE w = "Peter"
    BY <2>1, <2>3, <1>4, <1>6, OthersAre
  <2> QED  BY <2>2, <2>3, OthersAre
<1>8. ASSUME NEW v \in B!Writers, NEW n \in 1..now[v]
      PROVE  \E i \in 1..l + 1 : more[i] = B!Word(v, n)
  <2>1. CASE n <= nums[v]
    <3>1. n \in 1..nums[v]
      BY <2>1, <1>4
    <3>2. PICK i \in 1..l : words[i] = B!Word(v, n)
      BY <3>1, <1>3 DEF Merged
    <3> QED  BY <3>2, <1>6
  <2>2. CASE ~(n <= nums[v])
    <3>1. v = w /\ n = nums[w] + 1
      BY <2>2, <1>4
    <3> QED  BY <3>1, <1>6
  <2> QED  BY <2>1, <2>2
<1>9. \A i \in 1..l : words[i].by \in B!Writers /\ words[i].nr \in Nat
  <2>1. \A i \in 1..l : words[i] \in Words
    BY <1>3
  <2> QED  BY <2>1 DEF Words
<1>10. ASSUME NEW i \in 1..l + 1  PROVE more[i].nr <= now[more[i].by]
  <2>1. CASE i \in 1..l
    <3>1. words[i].nr <= nums[words[i].by]
      BY <2>1, <1>3 DEF Merged
    <3> QED  BY <3>1, <2>1, <1>4, <1>6, <1>9
  <2>2. CASE i = l + 1
    BY <2>2, <1>4, <1>6 DEF B!Word
  <2> QED  BY <2>1, <2>2
<1>11. ASSUME NEW i \in 1..l + 1, NEW j \in 1..l + 1, i < j, more[i].by = more[j].by
       PROVE  more[i].nr < more[j].nr
  <2>0. i \in 1..l /\ more[i] = words[i]
    BY <1>6, <1>11
  <2>1. CASE j \in 1..l
    BY <2>0, <2>1, <1>3, <1>6, <1>11 DEF Merged
  <2>2. CASE j = l + 1
    <3>1. more[j].by = w /\ more[j].nr = nums[w] + 1
      BY <2>2, <1>6 DEF B!Word
    <3>2. words[i].nr <= nums[w]
      BY <2>0, <3>1, <1>3, <1>11 DEF Merged
    <3> QED  BY <2>0, <3>1, <3>2, <1>4, <1>9
  <2> QED  BY <2>1, <2>2
<1> QED  BY <1>1, <1>2, <1>6, <1>7, <1>8, <1>10, <1>11 DEF Merged

--------------------------------------------------------------------------------
LEMMA LockInv ==
  ASSUME BoardInv, NEW w \in B!Writers, B!Lock(w)
  PROVE  BoardInv'
<1>1. /\ boardPc[w] = "lock" /\ boardMutex = Nobody /\ boardMutex' = w
      /\ boardPc' = [boardPc EXCEPT ![w] = "pause"]
      /\ stage' = stage /\ board' = board /\ torn' = torn
      /\ written' = written /\ printed' = printed
  BY DEF B!Lock
<1>2. TypeInv /\ PcOK /\ MutexOK /\ OnBoard /\ PrintsWhatWasWritten
  BY DEF BoardInv
<1>3. TypeInv' /\ PcOK'
  BY <1>1, <1>2 DEF TypeInv, PcOK, B!UsesLock
<1>4. MutexOK'
  BY <1>1, <1>2, OthersAre DEF MutexOK, TypeInv, PcOK, B!UsesLock
<1>5. \A v \in B!Writers : (boardPc[v] = "done") <=> (boardPc'[v] = "done")
  BY <1>1, <1>2 DEF TypeInv
<1>6. OnBoard'
  BY <1>1, <1>2, <1>5, OthersAre DEF OnBoard, B!Locked, After, Wiped
<1>7. PrintsWhatWasWritten'
  BY <1>1, <1>2 DEF PrintsWhatWasWritten, B!PrintsWhatWasWritten
<1> QED  BY <1>3, <1>4, <1>6, <1>7 DEF BoardInv

LEMMA BeginInv ==
  ASSUME BoardInv, NEW w \in B!Writers, B!BeginWord(w)
  PROVE  BoardInv'
<1>1. /\ boardPc[w] = "pause" /\ written[w] < 4 /\ boardMutex' = boardMutex
      /\ boardPc' = [boardPc EXCEPT ![w] = "write"]
      /\ stage' = stage /\ board' = board /\ torn' = torn
      /\ written' = written /\ printed' = printed
  BY DEF B!BeginWord
<1>2. TypeInv /\ PcOK /\ MutexOK /\ OnBoard /\ PrintsWhatWasWritten
  BY DEF BoardInv
<1>3. TypeInv' /\ PcOK'
  BY <1>1, <1>2 DEF TypeInv, PcOK, B!UsesLock
<1>4. MutexOK'
  BY <1>1, <1>2, OthersAre DEF MutexOK, TypeInv, PcOK, B!UsesLock
<1>5. \A v \in B!Writers : (boardPc[v] = "done") <=> (boardPc'[v] = "done")
  BY <1>1, <1>2 DEF TypeInv
<1>6. OnBoard'
  BY <1>1, <1>2, <1>5, OthersAre DEF OnBoard, B!Locked, After, Wiped
<1>7. PrintsWhatWasWritten'
  BY <1>1, <1>2 DEF PrintsWhatWasWritten, B!PrintsWhatWasWritten
<1> QED  BY <1>3, <1>4, <1>6, <1>7 DEF BoardInv

LEMMA LeaveInv ==
  ASSUME BoardInv, NEW w \in B!Writers, B!Leave(w)
  PROVE  BoardInv'
<1>1. /\ boardPc[w] = "pause" /\ written[w] = 4
      /\ boardMutex' = IF B!UsesLock(w) THEN Nobody ELSE boardMutex
      /\ boardPc' = [boardPc EXCEPT ![w] = "done"]
      /\ stage' = stage /\ board' = board /\ torn' = torn
      /\ written' = written /\ printed' = printed
  BY DEF B!Leave
<1>2. TypeInv /\ PcOK /\ MutexOK /\ OnBoard /\ PrintsWhatWasWritten
  BY DEF BoardInv
<1>3. TypeInv' /\ PcOK'
  BY <1>1, <1>2 DEF TypeInv, PcOK, B!UsesLock
<1>4. MutexOK'
  <2>1. \A v \in B!Writers : B!UsesLock(v)' = B!UsesLock(v)
    BY <1>1 DEF B!UsesLock
  <2>2. CASE B!UsesLock(w)
    <3>1. boardMutex = w /\ boardMutex' = Nobody
      BY <2>2, <1>1, <1>2 DEF MutexOK
    <3>2. \A v \in B!Writers : v # w => ~(B!UsesLock(v) /\ boardPc[v] \in {"pause", "write"})
      BY <3>1, <1>2 DEF MutexOK
    <3> QED  BY <2>1, <3>1, <3>2, <1>1, <1>2, OthersAre DEF MutexOK, TypeInv
  <2>3. CASE ~B!UsesLock(w)
    <3>1. boardMutex' = boardMutex /\ boardMutex # w
      BY <2>3, <1>1, <1>2 DEF MutexOK
    <3> QED  BY <2>1, <2>3, <3>1, <1>1, <1>2 DEF MutexOK, TypeInv
  <2> QED  BY <2>2, <2>3
<1>5. \A v \in B!Writers : boardPc[v] = "done" => boardPc'[v] = "done"
  BY <1>1, <1>2 DEF TypeInv
<1>6. OnBoard'
  BY <1>1, <1>2, <1>5, OthersAre DEF OnBoard, B!Locked, After, Wiped
<1>7. PrintsWhatWasWritten'
  BY <1>1, <1>2 DEF PrintsWhatWasWritten, B!PrintsWhatWasWritten
<1> QED  BY <1>3, <1>4, <1>6, <1>7 DEF BoardInv

\* Where both lock, the other writer waits or is done while one writes.
LEMMA WritesAlone ==
  ASSUME BoardInv, B!Locked, NEW w \in B!Writers, boardPc[w] \in {"pause", "write"}
  PROVE  \A v \in B!Writers : v # w => \/ boardPc[v] = "lock" /\ written[v] = 0
                                       \/ boardPc[v] = "done" /\ written[v] = 4
<1>1. TypeInv /\ PcOK /\ MutexOK
  BY DEF BoardInv
<1>2. \A v \in B!Writers : B!UsesLock(v)
  BY DEF B!Locked, B!UsesLock
<1>3. boardMutex = w
  BY <1>1, <1>2 DEF MutexOK
<1>4. \A v \in B!Writers : v # w => boardPc[v] \notin {"pause", "write"}
  BY <1>1, <1>2, <1>3 DEF MutexOK
<1>5. ASSUME NEW v \in B!Writers, v # w
      PROVE  \/ boardPc[v] = "lock" /\ written[v] = 0
             \/ boardPc[v] = "done" /\ written[v] = 4
  <2>1. boardPc[v] = "lock" \/ boardPc[v] = "done"
    BY <1>1, <1>4, <1>5 DEF TypeInv
  <2> QED  BY <2>1, <1>1 DEF PcOK
<1> QED  BY <1>5

\* A writer with the lock appends its next word.
LEMMA AppendKeeps ==
  ASSUME TypeInv, NEW a \in B!Writers, NEW b \in B!Writers, a # b, After(a, b),
         written[b] < 4, boardPc[a] = "done",
         board' = Append(board, B!Word(b, written[b] + 1)),
         written' = [written EXCEPT ![b] = @ + 1], boardPc'[a] = "done"
  PROVE  After(a, b)'
<1>1. written[a] \in Nat /\ written[b] \in Nat /\ written'[a] = written[a]
        /\ written'[b] = written[b] + 1
  BY DEF TypeInv
<1>2. PICK n \in Nat, m \in Nat : n = written[b] /\ m = written[a]
  BY <1>1
<1>3. /\ Pre(b, n) \in Seq(Words) /\ Pre(a, m) \in Seq(Words)
      /\ Append(Pre(b, n), B!Word(b, n + 1)) = Pre(b, n + 1)
  BY PreGrows
<1>4. B!Word(b, n + 1) \in Words
  BY DEF B!Word, Words
<1>5. Append(Pre(a, m) \o Pre(b, n), B!Word(b, n + 1))
        = Pre(a, m) \o Append(Pre(b, n), B!Word(b, n + 1))
  <2>1. PICK s \in Seq(Words), t \in Seq(Words), x \in Words :
          s = Pre(a, m) /\ t = Pre(b, n) /\ x = B!Word(b, n + 1)
    BY <1>3, <1>4
  <2>2. Append(s \o t, x) = s \o Append(t, x)
    BY AppendConcat
  <2> QED  BY <2>1, <2>2
<1>6. board' = Pre(a, m) \o Pre(b, n + 1)
  BY <1>2, <1>3, <1>5 DEF After
<1> QED  BY <1>1, <1>2, <1>6 DEF After

\* The first writer with the lock appends its next word.
LEMMA AppendFirst ==
  ASSUME TypeInv, NEW a \in B!Writers, NEW b \in B!Writers, a # b,
         board = Pre(a, written[a]), written[b] = 0, written[a] < 4,
         board' = Append(board, B!Word(a, written[a] + 1)),
         written' = [written EXCEPT ![a] = @ + 1]
  PROVE  After(a, b)' /\ board' = Pre(a, written'[a])
<1>1. written[a] \in Nat /\ written'[a] = written[a] + 1 /\ written'[b] = 0
  BY DEF TypeInv
<1>2. PICK n \in Nat : n = written[a]
  BY <1>1
<1>3. board' = Pre(a, n + 1)
  BY <1>2, PreGrows
<1>4. Pre(a, n + 1) \in Seq(Words) /\ Pre(b, 0) = << >>
  <2>1. n + 1 \in Nat
    OBVIOUS
  <2> QED  BY <2>1, PreGrows, PreEnds
<1>5. Pre(a, n + 1) \o << >> = Pre(a, n + 1)
  BY <1>4
<1>6. board' = Pre(a, n + 1) \o Pre(b, 0)
  BY <1>3, <1>4, <1>5
<1>7. written'[a] = n + 1 /\ n + 1 # 0
  BY <1>1, <1>2
<1>8. board' = Pre(a, written'[a]) \o Pre(b, written'[b])
  BY <1>1, <1>6, <1>7
<1>9. ~(written'[b] > 0)
  BY <1>1
<1>10. After(a, b)'
  BY <1>8, <1>9, Zenon DEF After
<1> QED  BY <1>3, <1>7, <1>10

LEMMA EndInv ==
  ASSUME BoardInv, NEW w \in B!Writers, B!EndWord(w)
  PROVE  BoardInv'
<1>1. /\ boardPc[w] = "write" /\ boardMutex' = boardMutex
      /\ boardPc' = [boardPc EXCEPT ![w] = "pause"]
      /\ written' = [written EXCEPT ![w] = @ + 1]
      /\ torn' = (torn \/ B!Racing(w))
      /\ board' = IF torn' THEN << >> ELSE B!Put(w, written[w] + 1)
      /\ stage' = stage /\ printed' = printed
  BY DEF B!EndWord
<1>2. TypeInv /\ PcOK /\ MutexOK /\ OnBoard /\ PrintsWhatWasWritten
  BY DEF BoardInv
<1>3. /\ written[w] \in 0..4 /\ written[w] < 4
      /\ written'[w] = written[w] + 1
      /\ \A v \in B!Writers : v # w => written'[v] = written[v] /\ boardPc'[v] = boardPc[v]
      /\ boardPc'[w] = "pause"
  BY <1>1, <1>2 DEF TypeInv, PcOK
<1>4. TypeInv'
  <2>1. B!Racing(w) \in BOOLEAN
    BY DEF B!Racing
  <2>2. torn' \in BOOLEAN
    BY <2>1, <1>1, <1>2 DEF TypeInv
  <2>3. written' \in [B!Writers -> 0..4]
    BY <1>1, <1>2, <1>3 DEF TypeInv
  <2> QED  BY <2>2, <2>3, <1>1, <1>2 DEF TypeInv
<1>5. PcOK'
  <2>1. \A v \in B!Writers : B!UsesLock(v)' = B!UsesLock(v)
    BY <1>1 DEF B!UsesLock
  <2> QED  BY <2>1, <1>2, <1>3 DEF PcOK
<1>6. MutexOK'
  <2>1. \A v \in B!Writers : B!UsesLock(v)' = B!UsesLock(v)
    BY <1>1 DEF B!UsesLock
  <2>2. \A v \in B!Writers :
          boardPc'[v] \in {"pause", "write"} <=> boardPc[v] \in {"pause", "write"}
    BY <1>1, <1>3
  <2> QED  BY <2>1, <2>2, <1>1, <1>2 DEF MutexOK
<1>7. ASSUME B!Locked
      PROVE  /\ torn' = FALSE
             /\ \A v \in B!Writers : v # w => \/ boardPc[v] = "lock" /\ written[v] = 0
                                              \/ boardPc[v] = "done" /\ written[v] = 4
  <2>1. \A v \in B!Writers : v # w => \/ boardPc[v] = "lock" /\ written[v] = 0
                                      \/ boardPc[v] = "done" /\ written[v] = 4
    BY <1>1, <1>7, WritesAlone
  <2>2. ~B!Racing(w)
    BY <2>1 DEF B!Racing
  <2>3. torn = FALSE
    BY <1>2, <1>7 DEF OnBoard, TypeInv
  <2> QED  BY <2>1, <2>2, <2>3, <1>1
<1>8. Pre(w, 0) = << >> /\ \A v \in B!Writers : Pre(v, 0) = << >>
  BY PreEnds
<1>9. \A v \in B!Writers : Pre(v, written[v]) \o << >> = Pre(v, written[v])
                          /\ << >> \o Pre(v, written[v]) = Pre(v, written[v])
  <2> TAKE v \in B!Writers
  <2>1. written[v] \in Nat
    BY <1>2 DEF TypeInv
  <2>2. Pre(v, written[v]) \in Seq(Words)
    BY <2>1, PreGrows
  <2> QED  BY <2>2
\* Appending keeps the order of sentences, whichever writer was first.
<1>10. ASSUME B!Locked, NEW v \in B!Writers, v # w, After(v, w) \/ After(w, v),
                board' = Append(board, B!Word(w, written[w] + 1))
       PROVE  \/ After(v, w)' /\ boardPc[v] = "done" /\ After(v, w)
              \/ After(w, v)' /\ board' = Pre(w, written'[w]) /\ written[v] = 0
  <2>1. CASE boardPc[v] = "done" /\ written[v] = 4
    <3>1. ~After(w, v)
      BY <2>1, <1>1 DEF After
    <3>2. After(v, w)'
      BY <2>1, <3>1, <1>1, <1>2, <1>3, <1>10, AppendKeeps
    <3> QED  BY <2>1, <3>1, <3>2, <1>10
  <2>2. CASE boardPc[v] = "lock" /\ written[v] = 0
    <3>1. board = Pre(w, written[w])
      <4>1. CASE After(v, w)
        BY <4>1, <2>2, <1>8, <1>9 DEF After
      <4>2. CASE After(w, v)
        BY <4>2, <2>2, <1>8, <1>9 DEF After
      <4> QED  BY <4>1, <4>2, <1>10
    <3> QED  BY <2>2, <3>1, <1>1, <1>2, <1>3, <1>10, AppendFirst
  <2> QED  BY <2>1, <2>2, <1>7, <1>10
<1>11. ASSUME stage = "AddLock"  PROVE OnBoard'
  <2>1. B!Locked
    BY <1>11 DEF B!Locked
  <2>2. board' = Append(board, B!Word(w, written[w] + 1))
    BY <2>1, <1>1, <1>7, <1>11 DEF B!Put
  <2>3. After("Danny", "Peter")' \/ After("Peter", "Danny")'
    <3>0. After("Danny", "Peter") \/ After("Peter", "Danny")
      BY <1>2, <1>11 DEF OnBoard
    <3>1. PICK v \in B!Writers : v # w /\ {v, w} = {"Danny", "Peter"}
      BY OthersAre
    <3>2. After(v, w)' \/ After(w, v)'
      BY <3>0, <3>1, <2>1, <2>2, <1>10, OthersAre
    <3> QED  BY <3>1, <3>2, OthersAre
  <2> QED  BY <2>1, <2>3, <1>1, <1>7, <1>11 DEF OnBoard, B!Locked
<1>12. ASSUME stage = "Safe"  PROVE OnBoard'
  <2>1. B!Locked
    BY <1>12 DEF B!Locked
  <2>2. After("Danny", "Peter") \/ Wiped
    BY <1>2, <1>12 DEF OnBoard
  <2>3. After("Danny", "Peter")' \/ Wiped'
    <3>1. CASE w = "Danny"
      <4>1. \/ boardPc["Peter"] = "lock" /\ written["Peter"] = 0
            \/ boardPc["Peter"] = "done" /\ written["Peter"] = 4
        BY <2>1, <3>1, <1>7, OthersAre
      <4>2. CASE written["Danny"] = 0
        <5>1. board' = <<B!Word("Danny", 1)>>
          <6>1. board' = B!Put("Danny", 1)
            <7>1. board' = B!Put("Danny", written["Danny"] + 1)
              BY <3>1, <2>1, <1>1, <1>7
            <7>2. written["Danny"] + 1 = 1
              BY <4>2
            <7> QED  BY <7>1, <7>2
          <6> QED  BY <6>1, <1>12 DEF B!Put
        <5>2. Pre("Danny", 1) = <<B!Word("Danny", 1)>>
          BY DEF Pre
        <5>3. written'["Danny"] = 1 /\ written'["Peter"] = written["Peter"]
              /\ boardPc'["Peter"] = boardPc["Peter"]
          BY <4>2, <3>1, <1>3, OthersAre
        <5>4. CASE boardPc["Peter"] = "done"
          BY <5>1, <5>2, <5>3, <5>4 DEF Wiped
        <5>5. CASE boardPc["Peter"] = "lock" /\ written["Peter"] = 0
          <6>1. Pre("Danny", 1) \o << >> = Pre("Danny", 1)
            BY <5>2
          <6>2. Pre("Peter", 0) = << >>
            BY <1>8, OthersAre
          <6>3. board' = Pre("Danny", 1) \o Pre("Peter", 0)
            BY <6>1, <6>2, <5>1, <5>2
          <6>4. written'["Peter"] = 0 /\ ~(written'["Peter"] > 0)
            BY <5>3, <5>5
          <6> QED  BY <6>3, <6>4, <5>3 DEF After
        <5> QED  BY <4>1, <5>4, <5>5
      <4>3. CASE written["Danny"] # 0
        <5>1. board' = Append(board, B!Word("Danny", written["Danny"] + 1))
          <6>1. written["Danny"] + 1 # 1
            BY <4>3, <3>1, <1>3
          <6> QED  BY <6>1, <3>1, <2>1, <1>1, <1>7, <1>12 DEF B!Put
        <5>2. board = Pre("Danny", written["Danny"])
          <6>1. CASE Wiped
            BY <6>1, <4>3 DEF Wiped
          <6>2. CASE After("Danny", "Peter")
            <7>1. written["Peter"] = 0
              BY <6>2, <4>1, <3>1, <1>1 DEF After
            <7> QED  BY <7>1, <6>2, <1>8, <1>9, OthersAre DEF After
          <6> QED  BY <6>1, <6>2, <2>2
        <5>3. CASE boardPc["Peter"] = "done"
          <6>1. PICK n \in Nat : n = written["Danny"]
            BY <3>1, <1>3
          <6>2. board' = Pre("Danny", n + 1)
            BY <5>1, <5>2, <6>1, PreGrows, OthersAre
          <6>3. written'["Danny"] = n + 1 /\ n + 1 # 0 /\ boardPc'["Peter"] = "done"
            BY <6>1, <5>3, <3>1, <1>3, OthersAre
          <6> QED  BY <6>2, <6>3 DEF Wiped
        <5>4. CASE written["Peter"] = 0
          BY <5>1, <5>2, <5>4, <3>1, <1>1, <1>2, <1>3, OthersAre, AppendFirst
        <5> QED  BY <5>3, <5>4, <4>1
      <4> QED  BY <4>2, <4>3
    <3>2. CASE w = "Peter"
      <4>1. \/ boardPc["Danny"] = "lock" /\ written["Danny"] = 0
            \/ boardPc["Danny"] = "done" /\ written["Danny"] = 4
        BY <2>1, <3>2, <1>7, OthersAre
      <4>2. board' = Append(board, B!Word("Peter", written["Peter"] + 1))
        BY <3>2, <2>1, <1>1, <1>7, <1>12, OthersAre DEF B!Put
      <4>3. CASE boardPc["Danny"] = "done" /\ written["Danny"] = 4
        <5>1. After("Danny", "Peter")
          BY <4>3, <3>2, <2>2, <1>1 DEF Wiped
        <5> QED  BY <5>1, <4>2, <4>3, <3>2, <1>1, <1>2, <1>3, OthersAre, AppendKeeps
      <4>4. CASE boardPc["Danny"] = "lock" /\ written["Danny"] = 0
        <5>1. board = Pre("Peter", written["Peter"])
          BY <4>4, <2>2, <1>8, <1>9, OthersAre DEF Wiped, After
        <5>2. board' = Pre("Peter", written'["Peter"])
          BY <5>1, <4>2, <4>4, <3>2, <1>1, <1>2, <1>3, OthersAre, AppendFirst
        <5>3. written'["Danny"] = 0
          BY <4>4, <3>2, <1>3, OthersAre
        <5> QED  BY <5>2, <5>3 DEF Wiped
      <4> QED  BY <4>1, <4>3, <4>4
    <3> QED  BY <3>1, <3>2, OthersAre
  <2> QED  BY <2>1, <2>3, <1>1, <1>7, <1>12 DEF OnBoard, B!Locked
<1>13. ASSUME ~B!Locked  PROVE OnBoard'
  <2>1. ASSUME ~torn'  PROVE Merged(board', written')
    <3>1. ~torn /\ board' = Append(board, B!Word(w, written[w] + 1))
      BY <2>1, <1>1, <1>13 DEF B!Put, B!Locked
    <3>2. Merged(board, written)
      BY <3>1, <1>2, <1>13 DEF OnBoard
    <3>3. Merged(Append(board, B!Word(w, written[w] + 1)), [written EXCEPT ![w] = @ + 1])
      BY <3>2, <1>2, <1>3, MergedGrows DEF TypeInv
    <3> QED  BY <3>1, <3>3, <1>1
  <2> QED  BY <2>1, <1>1, <1>13 DEF OnBoard, B!Locked
<1>14. OnBoard'
  BY <1>11, <1>12, <1>13 DEF B!Locked
<1>15. PrintsWhatWasWritten'
  BY <1>1, <1>2 DEF PrintsWhatWasWritten, B!PrintsWhatWasWritten
<1> QED  BY <1>4, <1>5, <1>6, <1>14, <1>15 DEF BoardInv

LEMMA PrintInv ==
  ASSUME BoardInv, B!JoinAndPrint
  PROVE  BoardInv'
<1>1. /\ \A w \in B!Writers : boardPc[w] = "done"
      /\ printed' = IF torn THEN <<"garbled">> ELSE board
      /\ stage' = stage /\ board' = board /\ torn' = torn /\ boardMutex' = boardMutex
      /\ boardPc' = boardPc /\ written' = written
  BY DEF B!JoinAndPrint
<1>2. TypeInv /\ PcOK /\ MutexOK /\ OnBoard
  BY DEF BoardInv
<1>3. TypeInv' /\ PcOK' /\ MutexOK' /\ OnBoard'
  BY <1>1, <1>2 DEF TypeInv, PcOK, MutexOK, OnBoard, B!UsesLock, B!Locked, After, Wiped
<1>4. \A w \in B!Writers : written[w] = 4 /\ Pre(w, written[w]) = B!Sentence(w)
  BY <1>1, <1>2, PreEnds DEF PcOK
<1>5. written["Danny"] = 4 /\ written["Peter"] = 4
  BY <1>4, OthersAre
<1>6. ASSUME stage = "AddLock"
      PROVE  printed' \in {B!Sentence("Danny") \o B!Sentence("Peter"),
                          B!Sentence("Peter") \o B!Sentence("Danny")}
  <2>1. ~torn
    BY <1>2, <1>6 DEF OnBoard, B!Locked
  <2> QED  BY <2>1, <1>1, <1>2, <1>4, <1>6, OthersAre DEF OnBoard, After
<1>7. ASSUME stage = "Safe"
      PROVE  printed' \in {B!Sentence("Danny"), B!Sentence("Danny") \o B!Sentence("Peter")}
  <2>1. ~torn
    BY <1>2, <1>7 DEF OnBoard, B!Locked
  <2>2. board \in {B!Sentence("Danny"), B!Sentence("Danny") \o B!Sentence("Peter")}
    BY <1>2, <1>4, <1>5, <1>7, OthersAre DEF OnBoard, After, Wiped
  <2> QED  BY <2>1, <2>2, <1>1
<1>8. ASSUME ~B!Locked, ~torn
      PROVE  B!EachInOrder(printed')
  <2>1. Merged(board, written) /\ printed' = board
    BY <1>1, <1>2, <1>8 DEF OnBoard
  <2>2. Len(board) = 8
    BY <2>1, <1>5 DEF Merged
  <2>3. \A w \in B!Writers, n \in 1..4 : \E i \in 1..8 : board[i] = B!Word(w, n)
    BY <2>1, <2>2, <1>4 DEF Merged
  <2>4. \A i, j \in 1..8 : i < j /\ board[i].by = board[j].by => board[i].nr < board[j].nr
    BY <2>1, <2>2 DEF Merged
  <2> QED  BY <2>1, <2>2, <2>3, <2>4 DEF B!EachInOrder
<1>9. PrintsWhatWasWritten'
  BY <1>1, <1>6, <1>7, <1>8 DEF PrintsWhatWasWritten, B!PrintsWhatWasWritten, B!Locked
<1> QED  BY <1>3, <1>9 DEF BoardInv

LEMMA NextInv ==
  ASSUME BoardInv, [B!Next]_B!vars  PROVE BoardInv'
<1>1. ASSUME NEW w \in B!Writers, B!WriterStep(w)  PROVE BoardInv'
  BY <1>1, LockInv, BeginInv, EndInv, LeaveInv DEF B!WriterStep
<1>2. CASE B!JoinAndPrint
  BY <1>2, PrintInv
<1>3. CASE UNCHANGED B!vars
  BY <1>3 DEF B!vars, BoardInv, TypeInv, PcOK, MutexOK, OnBoard, B!UsesLock, B!Locked, After, Wiped,
              PrintsWhatWasWritten, B!PrintsWhatWasWritten
<1> QED  BY <1>1, <1>2, <1>3 DEF B!Next

LEMMA InvImpliesWhole ==
  ASSUME BoardInv  PROVE SentencesWhole
<1> SUFFICES ASSUME B!Locked
             PROVE  /\ ~torn
                    /\ \A w \in B!Writers :
                         boardPc[w] = "write" => boardMutex = w /\ ~B!Racing(w)
                    /\ boardMutex = Nobody =>
                         board \in {<< >>, B!Sentence("Danny"), B!Sentence("Peter"),
                                    B!Sentence("Danny") \o B!Sentence("Peter"),
                                    B!Sentence("Peter") \o B!Sentence("Danny")}
  BY DEF SentencesWhole, B!SentencesWhole
<1>1. TypeInv /\ PcOK /\ MutexOK /\ OnBoard
  BY DEF BoardInv
<1>2. \A w \in B!Writers : B!UsesLock(w)
  BY DEF B!Locked, B!UsesLock
<1>3. ~torn
  BY <1>1 DEF OnBoard
<1>4. ASSUME NEW w \in B!Writers, boardPc[w] = "write"  PROVE boardMutex = w /\ ~B!Racing(w)
  BY <1>1, <1>2, <1>4 DEF MutexOK, B!Racing
<1>5. ASSUME boardMutex = Nobody
      PROVE  board \in {<< >>, B!Sentence("Danny"), B!Sentence("Peter"),
                        B!Sentence("Danny") \o B!Sentence("Peter"),
                        B!Sentence("Peter") \o B!Sentence("Danny")}
  <2>1. \A w \in B!Writers : boardPc[w] \in {"lock", "done"}
    BY <1>1, <1>2, <1>5, OthersAre DEF MutexOK, TypeInv
  <2>2. \A w \in B!Writers : \/ written[w] = 0 /\ Pre(w, written[w]) = << >>
                             \/ written[w] = 4 /\ Pre(w, written[w]) = B!Sentence(w)
    BY <2>1, <1>1, PreEnds DEF PcOK
  <2>3. ASSUME NEW w \in B!Writers
        PROVE  << >> \o B!Sentence(w) = B!Sentence(w) /\ B!Sentence(w) \o << >> = B!Sentence(w)
    <3>1. B!Sentence(w) \in Seq(Words)
      BY PreGrows, PreEnds
    <3> QED  BY <3>1
  <2>4. << >> \o << >> = << >>
    OBVIOUS
  <2>5. ASSUME NEW a \in B!Writers, NEW b \in B!Writers, After(a, b)
        PROVE  board \in {<< >>, B!Sentence(a), B!Sentence(b), B!Sentence(a) \o B!Sentence(b)}
    <3>1. board = Pre(a, written[a]) \o Pre(b, written[b])
      BY <2>5 DEF After
    <3> QED  BY <3>1, <2>2, <2>3, <2>4
  <2>6. Wiped => board \in {<< >>, B!Sentence("Danny"), B!Sentence("Peter")}
    BY <2>2, OthersAre DEF Wiped
  <2>7. After("Danny", "Peter") \/ After("Peter", "Danny") \/ Wiped
    BY <1>1 DEF OnBoard, B!Locked
  <2> QED  BY <2>5, <2>6, <2>7, OthersAre
<1> QED  BY <1>3, <1>4, <1>5

(***************************************************************************)
(* In every stage the invariant holds of the two writers and main, however *)
(* they are scheduled.                                                     *)
(***************************************************************************)
THEOREM BoardInvariance == B!Spec => []BoardInv
<1>1. B!Init => BoardInv
  BY InitInv
<1>2. BoardInv /\ [B!Next]_B!vars => BoardInv'
  BY NextInv
<1> QED  BY <1>1, <1>2, PTL DEF B!Spec

(***************************************************************************)
(* Where both writers use the lock (AddLockSolution.cpp and                *)
(* SafeAndSmartLock.cpp) their writes never overlap, and whoever gets the  *)
(* lock finds only whole sentences on the board.                           *)
(***************************************************************************)
THEOREM SentencesStayWhole == B!Spec => []SentencesWhole
BY BoardInvariance, InvImpliesWhole, PTL

(***************************************************************************)
(* What main prints: both sentences with the lock; Danny's, and Peter's    *)
(* after it or not at all, in the safe; and all eight words, each writer's *)
(* in order, without the lock if no two writes overlapped.                 *)
(***************************************************************************)
THEOREM MainPrintsWhatWasWritten == B!Spec => []PrintsWhatWasWritten
<1>1. BoardInv => PrintsWhatWasWritten
  BY DEF BoardInv
<1> QED  BY <1>1, BoardInvariance, PTL
================================================================================
