-------------------------- MODULE TAMarkingProofs --------------------------
(***************************************************************************)
(* What holds of TAMarking for every number of TAs, every list and every   *)
(* number of rounds; and what holds besides where all TAs are neighbours,  *)
(* NUM_TAS <= 3.                                                           *)
(***************************************************************************)
EXTENDS TAMarking, SequenceTheorems, TLAPS

-----------------------------------------------------------------------------
(* The two semaphores of a TA.                                             *)

(* The neighbour of a TA is another TA: the next one, or the first.        *)
LEMMA NeighbourIsNext ==
  ASSUME NEW t \in TAs
  PROVE  /\ Neighbour(t) = IF t = NUM_TAS - 1 THEN 0 ELSE t + 1
         /\ Neighbour(t) \in TAs
         /\ Neighbour(t) # t
<1>1. (t + 1) % NUM_TAS = IF t = NUM_TAS - 1 THEN 0 ELSE t + 1
  BY ConstantsAssumption, SMT DEF TAs
<1> QED  BY <1>1, ConstantsAssumption DEF Neighbour, TAs

(* Taken in either order they are the TA's own and its neighbour's.        *)
LEMMA OwnPair ==
  ASSUME NEW t \in TAs
  PROVE  /\ FirstSem(t) \in TAs /\ SecondSem(t) \in TAs
         /\ FirstSem(t) < SecondSem(t)
         /\ {FirstSem(t), SecondSem(t)} = {t, Neighbour(t)}
BY NeighbourIsNext, ConstantsAssumption DEF FirstSem, SecondSem, TAs

(* With at most three TAs any two of them share a semaphore.               *)
LEMMA SharedSemaphore ==
  ASSUME NUM_TAS <= 3, NEW t \in TAs, NEW u \in TAs
  PROVE  \E s \in {t, Neighbour(t)} : s \in {u, Neighbour(u)}
BY NeighbourIsNext, ConstantsAssumption DEF TAs

-----------------------------------------------------------------------------
(* Types.                                                                  *)

(* A TA has attempts left until its call gives up.                         *)
AttemptsLeft ==
  \A t \in TAs : pc[t] # "give_up" => retries[t] < MAX_RETRIES

(* The parent forks, then waits for, the children in their order.          *)
ParentInOrder ==
  /\ parent = "fork" => \A t \in TAs : t >= child => pc[t] = "unborn"
  /\ parent = "wait" => \A t \in TAs : t < child => pc[t] = "done"
  /\ parent = "cleaned_up" => AllDone

TypeInv == TypeOK /\ AttemptsLeft /\ ParentInOrder

(* Whatever the cursor, a read finds a student or no student.              *)
LEMMA StudentAtType ==
  ASSUME NEW line \in Nat, NEW pos \in Nat
  PROVE  StudentAt(line, pos) \in Reads
<1>1. pos % STUDENTS_PER_LINE \in 0 .. STUDENTS_PER_LINE - 1
      /\ pos \div STUDENTS_PER_LINE \in Nat
  BY ConstantsAssumption, SMT
<1> QED  BY <1>1, ConstantsAssumption DEF StudentAt, Students, Reads

LEMMA BackoffTimeType ==
  ASSUME NEW n \in 0 .. MAX_RETRIES - 1
  PROVE  BackoffTime(n) \in Nat
BY BackoffFits, ConstantsAssumption DEF BackoffTime

LEMMA TypeInit == Init => TypeInv
<1> SUFFICES ASSUME Init PROVE TypeInv
  OBVIOUS
<1>1. 0 \in 0 .. NUM_LINES - 1 /\ 0 \in TAs /\ 0 < MAX_RETRIES
  BY ConstantsAssumption DEF TAs
<1>2. NoStudent \in Reads /\ <<OldRecord>> \in Seq(Records)
  BY DEF Reads, Records
<1> QED
  BY <1>1, <1>2, ConstantsAssumption DEF Init, TypeInv, TypeOK, AttemptsLeft, ParentInOrder, PCs

LEMMA SemTaken ==
  ASSUME TypeOK, NEW s \in TAs, sem[s] > 0, sem' = [sem EXCEPT ![s] = @ - 1]
  PROVE  sem' \in [TAs -> Nat]
<1>1. sem[s] - 1 \in Nat
  BY DEF TypeOK
<1> QED  BY <1>1 DEF TypeOK

LEMMA SemPosted ==
  ASSUME TypeOK, NEW s \in TAs, sem' = [sem EXCEPT ![s] = @ + 1]
  PROVE  sem' \in [TAs -> Nat]
BY DEF TypeOK

(* A step of a TA keeps the types.                                         *)
LEMMA TAStepType ==
  ASSUME TypeInv, NEW t \in TAs, ta_process(t)
  PROVE  TypeOK'
<1> USE DEF TypeInv, PCs, CursorPCs
<1>1. CASE Start(t)
  <2>1. <<>> \in Seq(Records)
    BY EmptySeq
  <2> QED  BY <1>1, <2>1 DEF TypeOK, Start, Goto, LoopTest
<1>2. CASE TakeFirst(t)
  <2>1. sem' \in [TAs -> Nat]
    BY <1>2, OwnPair, SemTaken DEF TakeFirst
  <2> QED  BY <1>2, <2>1 DEF TypeOK, TakeFirst, Goto
<1>3. CASE MissFirst(t) \/ MissSecond(t)
  BY <1>3 DEF TypeOK, MissFirst, MissSecond, Goto
<1>4. CASE TakeSecond(t)
  <2>1. sem' \in [TAs -> Nat]
    BY <1>4, OwnPair, SemTaken DEF TakeSecond
  <2>2. retries' \in [TAs -> 0 .. MAX_RETRIES]
    BY <1>4, ConstantsAssumption DEF TypeOK, TakeSecond
  <2> QED  BY <1>4, <2>1, <2>2 DEF TypeOK, TakeSecond, Goto
<1>5. CASE UndoFirst(t)
  <2>1. sem' \in [TAs -> Nat]
    BY <1>5, OwnPair, SemPosted DEF UndoFirst
  <2> QED  BY <1>5, <2>1 DEF TypeOK, UndoFirst, Goto
<1>6. CASE Backoff(t)
  <2>1. retries[t] \in 0 .. MAX_RETRIES - 1
    <3>1. pc[t] = "backoff"
      BY <1>6 DEF Backoff, Goto
    <3>2. retries[t] \in 0 .. MAX_RETRIES /\ retries[t] < MAX_RETRIES
      BY <3>1 DEF TypeOK, AttemptsLeft
    <3> QED  BY <3>2, ConstantsAssumption
  <2>2. BackoffTime(retries[t]) \in Nat
    BY <2>1, BackoffTimeType
  <2>3. retries' \in [TAs -> 0 .. MAX_RETRIES]
    BY <1>6, <2>1, ConstantsAssumption DEF TypeOK, Backoff
  <2> QED  BY <1>6, <2>2, <2>3 DEF TypeOK, Backoff, Goto
<1>7. CASE GiveUp(t)
  <2>1. retries' \in [TAs -> 0 .. MAX_RETRIES]
    BY <1>7, ConstantsAssumption DEF TypeOK, GiveUp
  <2> QED  BY <1>7, <2>1 DEF TypeOK, GiveUp, Goto
<1>8. CASE ReadLine(t) \/ LoadLine(t)
  <2>1. current_line \in Nat
    BY ConstantsAssumption DEF TypeOK
  <2> QED  BY <1>8, <2>1 DEF TypeOK, ReadLine, LoadLine, Goto
<1>9. CASE ReadStudent(t)
  <2>1. StudentAt(reg[t], current_pos) \in Reads
    BY StudentAtType DEF TypeOK
  <2> QED  BY <1>9, <2>1 DEF TypeOK, ReadStudent, Goto
<1>10. CASE LoadPos(t)
  BY <1>10 DEF TypeOK, LoadPos, Goto
<1>11. CASE StorePos(t)
  <2>1. reg[t] + 1 \in Nat
    BY DEF TypeOK
  <2> QED  BY <1>11, <2>1 DEF TypeOK, StorePos, Goto
<1>12. CASE CheckPos(t)
  BY <1>12 DEF TypeOK, CheckPos, Goto
<1>13. CASE ResetPos(t)
  BY <1>13 DEF TypeOK, ResetPos, Goto
<1>14. CASE StoreLine(t)
  <2>1. reg[t] \in Nat
    BY DEF TypeOK
  <2>2. current_line' \in 0 .. NUM_LINES - 1
    BY <1>14, <2>1, ConstantsAssumption, SMT DEF StoreLine
  <2> QED  BY <1>14, <2>2 DEF TypeOK, StoreLine, Goto
<1>15. CASE PostSecond(t)
  <2>1. sem' \in [TAs -> Nat]
    BY <1>15, OwnPair, SemPosted DEF PostSecond
  <2> QED  BY <1>15, <2>1 DEF TypeOK, PostSecond, Goto
<1>16. CASE PostFirst(t)
  <2>1. sem' \in [TAs -> Nat]
    BY <1>16, OwnPair, SemPosted DEF PostFirst
  <2> QED  BY <1>16, <2>1 DEF TypeOK, PostFirst, Goto
<1>17. CASE WriteMark(t)
  <2>1. Append(file[t], student_num[t]) \in Seq(Records)
    BY AppendProperties DEF TypeOK, Records
  <2> QED  BY <1>17, <2>1 DEF TypeOK, WriteMark, Goto
<1>18. CASE CountMark(t)
  <2>1. NoStudent \in Reads
    BY DEF Reads
  <2>2. students_marked[t] + 1 \in Nat
    BY DEF TypeOK
  <2> QED  BY <1>18, <2>1, <2>2 DEF TypeOK, CountMark, Goto, LoopTest
<1> QED
  BY <1>1, <1>2, <1>3, <1>4, <1>5, <1>6, <1>7, <1>8, <1>9, <1>10, <1>11, <1>12,
     <1>13, <1>14, <1>15, <1>16, <1>17, <1>18
  DEF ta_process, Acquire, MoveCursor, Release, Mark

LEMMA TAStepAttempts ==
  ASSUME TypeInv, NEW t \in TAs, ta_process(t)
  PROVE  AttemptsLeft'
<1> USE DEF TypeInv, TypeOK, AttemptsLeft, Goto
<1>1. CASE Start(t)
  BY <1>1 DEF Start, LoopTest
<1>2. CASE TakeFirst(t) \/ MissFirst(t) \/ MissSecond(t) \/ UndoFirst(t)
  BY <1>2 DEF TakeFirst, MissFirst, MissSecond, UndoFirst
<1>3. CASE TakeSecond(t) \/ GiveUp(t)
  <2>1. CASE TakeSecond(t)
    BY <2>1, ConstantsAssumption DEF TakeSecond
  <2>2. CASE GiveUp(t)
    BY <2>2, ConstantsAssumption DEF GiveUp
  <2> QED  BY <1>3, <2>1, <2>2
<1>4. CASE Backoff(t)
  BY <1>4, ConstantsAssumption DEF Backoff
<1>5. CASE MoveCursor(t)
  BY <1>5 DEF MoveCursor, ReadLine, ReadStudent, LoadPos, StorePos, CheckPos,
              ResetPos, LoadLine, StoreLine
<1>6. CASE Release(t)
  BY <1>6 DEF Release, PostSecond, PostFirst
<1>7. CASE Mark(t)
  BY <1>7 DEF Mark, WriteMark, CountMark, LoopTest
<1> QED  BY <1>1, <1>2, <1>3, <1>4, <1>5, <1>6, <1>7 DEF ta_process, Acquire

LEMMA TAStepParent ==
  ASSUME TypeInv, NEW t \in TAs, ta_process(t)
  PROVE  ParentInOrder'
<1>1. /\ pc[t] \notin {"unborn", "done"}
      /\ \A u \in TAs \ {t} : pc'[u] = pc[u]
      /\ UNCHANGED <<parent, child>>
  BY DEF TypeInv, TypeOK, Goto, ta_process, Acquire, MoveCursor, Release, Mark,
         Start, TakeFirst, MissFirst, TakeSecond, MissSecond, UndoFirst, Backoff,
         GiveUp, ReadLine, ReadStudent, LoadPos, StorePos, CheckPos, ResetPos,
         LoadLine, StoreLine, PostSecond, PostFirst, WriteMark, CountMark
<1> QED  BY <1>1 DEF TypeInv, ParentInOrder, AllDone

LEMMA TypeStep == TypeInv /\ [Next]_vars => TypeInv'
<1> SUFFICES ASSUME TypeInv, [Next]_vars PROVE TypeInv'
  OBVIOUS
<1> USE DEF TypeInv
<1>1. child \in 0 .. NUM_TAS - 1
  BY DEF TypeOK, TAs
<1>2. CASE Fork
  <2>1. child' \in 0 .. NUM_TAS - 1
    BY <1>1, <1>2, ConstantsAssumption DEF Fork
  <2>2. TypeOK'
    BY <1>2, <2>1 DEF Fork, TypeOK, TAs, PCs
  <2>3. pc[child] = "unborn"
    BY <1>1, <1>2 DEF Fork, ParentInOrder, TAs
  <2>4. AttemptsLeft'
    BY <1>2, <2>3 DEF Fork, TypeOK, AttemptsLeft
  <2>5. ParentInOrder'
    <3>1. CASE child + 1 < NUM_TAS
      BY <1>1, <1>2, <3>1 DEF Fork, TypeOK, ParentInOrder, TAs
    <3>2. CASE ~(child + 1 < NUM_TAS)
      BY <1>1, <1>2, <3>2 DEF Fork, TypeOK, ParentInOrder, TAs
    <3> QED  BY <3>1, <3>2
  <2> QED  BY <2>2, <2>4, <2>5
<1>3. CASE ForkFails
  BY <1>3 DEF ForkFails, taVars, TypeOK, AttemptsLeft, ParentInOrder
<1>4. CASE WaitChild
  <2>1. child' \in 0 .. NUM_TAS - 1
    BY <1>1, <1>4, ConstantsAssumption DEF WaitChild
  <2>2. TypeOK'
    BY <1>4, <2>1 DEF WaitChild, taVars, TypeOK, TAs
  <2>3. AttemptsLeft'
    BY <1>4 DEF WaitChild, taVars, TypeOK, AttemptsLeft
  <2>4. ParentInOrder'
    <3>1. CASE child + 1 < NUM_TAS
      BY <1>1, <1>4, <3>1, ConstantsAssumption
         DEF WaitChild, taVars, ParentInOrder, AllDone, TAs
    <3>2. CASE ~(child + 1 < NUM_TAS)
      BY <1>1, <1>4, <3>2, ConstantsAssumption
         DEF WaitChild, taVars, ParentInOrder, AllDone, TAs
    <3> QED  BY <3>1, <3>2
  <2> QED  BY <2>2, <2>3, <2>4
<1>5. CASE \E t \in TAs : ta_process(t)
  BY <1>5, TAStepType, TAStepAttempts, TAStepParent
<1>6. CASE UNCHANGED vars
  BY <1>6 DEF vars, taVars, TypeOK, AttemptsLeft, ParentInOrder, AllDone
<1> QED  BY <1>2, <1>3, <1>4, <1>5, <1>6 DEF Next, Terminated

(* No run of the program leaves the types: in particular the line never    *)
(* leaves the list, whatever the races on the cursor.                      *)
THEOREM TypeCorrect == Spec => []TypeOK
<1>1. TypeInv => TypeOK
  BY DEF TypeInv
<1> QED  BY <1>1, TypeInit, TypeStep, PTL DEF Spec

(* The semaphores are closed and unlinked only after every TA has exited:  *)
(* waitpid is called once for each child, and for none too early.          *)
THEOREM CleanupIsLast == Spec => []CleanupAfterAll
<1>1. TypeInv => CleanupAfterAll
  BY DEF TypeInv, ParentInOrder, CleanupAfterAll
<1> QED  BY <1>1, TypeInit, TypeStep, PTL DEF Spec

-----------------------------------------------------------------------------
(* The semaphores.                                                         *)

(* What a TA holds depends on its own program counter only.                *)
LEMMA HoldsFrame ==
  ASSUME NEW u \in TAs, pc'[u] = pc[u]
  PROVE  Holds(u)' = Holds(u)
BY DEF Holds, InCursor, FirstSem, SecondSem, Neighbour

LEMMA HoldsInTAs ==
  ASSUME NEW t \in TAs
  PROVE  Holds(t) \subseteq TAs
BY OwnPair DEF Holds

LEMMA BalanceKept ==
  ASSUME SemaphoreBalance, UNCHANGED sem,
         \A u \in TAs : Holds(u)' = Holds(u)
  PROVE  SemaphoreBalance'
BY DEF SemaphoreBalance

(* A sem_trywait that succeeds.                                            *)
LEMMA BalanceTaken ==
  ASSUME TypeOK, SemaphoreBalance, NEW t \in TAs, NEW s \in TAs,
         sem[s] > 0, sem' = [sem EXCEPT ![s] = @ - 1],
         Holds(t)' = Holds(t) \cup {s},
         \A u \in TAs \ {t} : Holds(u)' = Holds(u)
  PROVE  SemaphoreBalance'
<1> SUFFICES ASSUME NEW r \in TAs
             PROVE  \/ sem'[r] = 1 /\ \A u \in TAs : r \notin Holds(u)'
                    \/ sem'[r] = 0 /\ \E u \in TAs :
                         r \in Holds(u)' /\ \A v \in TAs : r \in Holds(v)' => v = u
  BY DEF SemaphoreBalance
<1>1. CASE r = s
  <2>1. sem[s] = 1 /\ \A u \in TAs : s \notin Holds(u)
    BY DEF SemaphoreBalance
  <2>2. sem'[r] = 0
    BY <1>1, <2>1 DEF TypeOK
  <2> QED  BY <1>1, <2>1, <2>2
<1>2. CASE r # s
  <2>1. sem'[r] = sem[r]
    BY <1>2 DEF TypeOK
  <2>2. \A u \in TAs : r \in Holds(u)' <=> r \in Holds(u)
    BY <1>2
  <2> QED  BY <2>1, <2>2 DEF SemaphoreBalance
<1> QED  BY <1>1, <1>2

(* A sem_post of a semaphore that is held.                                 *)
LEMMA BalancePosted ==
  ASSUME TypeOK, SemaphoreBalance, NEW t \in TAs, NEW s \in Holds(t),
         sem' = [sem EXCEPT ![s] = @ + 1],
         Holds(t)' = Holds(t) \ {s},
         \A u \in TAs \ {t} : Holds(u)' = Holds(u)
  PROVE  SemaphoreBalance'
<1> SUFFICES ASSUME NEW r \in TAs
             PROVE  \/ sem'[r] = 1 /\ \A u \in TAs : r \notin Holds(u)'
                    \/ sem'[r] = 0 /\ \E u \in TAs :
                         r \in Holds(u)' /\ \A v \in TAs : r \in Holds(v)' => v = u
  BY DEF SemaphoreBalance
<1>1. s \in TAs
  BY HoldsInTAs
<1>2. CASE r = s
  <2>1. sem[s] = 0 /\ \A u \in TAs \ {t} : s \notin Holds(u)
    BY <1>1 DEF SemaphoreBalance
  <2>2. sem'[r] = 1
    BY <1>1, <1>2, <2>1 DEF TypeOK
  <2> QED  BY <1>2, <2>1, <2>2
<1>3. CASE r # s
  <2>1. sem'[r] = sem[r]
    BY <1>1, <1>3 DEF TypeOK
  <2>2. \A u \in TAs : r \in Holds(u)' <=> r \in Holds(u)
    BY <1>3
  <2> QED  BY <2>1, <2>2 DEF SemaphoreBalance
<1> QED  BY <1>2, <1>3

LEMMA BalanceInit == Init => SemaphoreBalance
BY DEF Init, SemaphoreBalance, Holds, InCursor, CursorPCs

LEMMA BalanceTAStep ==
  ASSUME TypeInv, SemaphoreBalance, NEW t \in TAs, ta_process(t)
  PROVE  SemaphoreBalance'
<1> USE DEF CursorPCs
<1>1. /\ FirstSem(t) \in TAs /\ SecondSem(t) \in TAs
      /\ FirstSem(t) # SecondSem(t)
      /\ FirstSem(t)' = FirstSem(t) /\ SecondSem(t)' = SecondSem(t)
  BY OwnPair DEF FirstSem, SecondSem, Neighbour, TAs
<1>2. TypeOK /\ pc \in [TAs -> PCs]
  BY DEF TypeInv, TypeOK
<1>3. ASSUME NEW from, NEW to, Goto(t, from, to)
      PROVE  /\ pc[t] = from /\ pc'[t] = to
             /\ \A u \in TAs \ {t} : Holds(u)' = Holds(u)
  <2>1. \A u \in TAs \ {t} : pc'[u] = pc[u]
    BY <1>2, <1>3 DEF Goto
  <2> QED  BY <1>2, <1>3, <2>1, HoldsFrame DEF Goto
<1>4. CASE TakeFirst(t)
  <2>1. Goto(t, "try_first", "try_second")
    BY <1>4 DEF TakeFirst
  <2>2. Holds(t) = {} /\ Holds(t)' = {FirstSem(t)}
    BY <1>1, <1>3, <2>1 DEF Holds, InCursor
  <2> QED  BY <1>1, <1>2, <1>3, <1>4, <2>1, <2>2, BalanceTaken DEF TakeFirst
<1>5. CASE TakeSecond(t)
  <2>1. Goto(t, "try_second", "read_line")
    BY <1>5 DEF TakeSecond
  <2>2. Holds(t) = {FirstSem(t)} /\ Holds(t)' = {FirstSem(t), SecondSem(t)}
    BY <1>1, <1>3, <2>1 DEF Holds, InCursor
  <2>3. Holds(t)' = Holds(t) \cup {SecondSem(t)}
    BY <2>2
  <2> QED  BY <1>1, <1>2, <1>3, <1>5, <2>1, <2>3, BalanceTaken DEF TakeSecond
<1>6. CASE UndoFirst(t)
  <2>1. Goto(t, "undo_first", "backoff")
    BY <1>6 DEF UndoFirst
  <2>2. Holds(t) = {FirstSem(t)} /\ Holds(t)' = {}
    BY <1>1, <1>3, <2>1 DEF Holds, InCursor
  <2>3. FirstSem(t) \in Holds(t) /\ Holds(t)' = Holds(t) \ {FirstSem(t)}
    BY <2>2
  <2> QED  BY <1>1, <1>2, <1>3, <1>6, <2>1, <2>3, BalancePosted DEF UndoFirst
<1>7. CASE PostSecond(t)
  <2>1. Goto(t, "post_second", "post_first")
    BY <1>7 DEF PostSecond
  <2>2. Holds(t) = {FirstSem(t), SecondSem(t)} /\ Holds(t)' = {FirstSem(t)}
    BY <1>1, <1>3, <2>1 DEF Holds, InCursor
  <2>3. SecondSem(t) \in Holds(t) /\ Holds(t)' = Holds(t) \ {SecondSem(t)}
    BY <1>1, <2>2
  <2> QED  BY <1>1, <1>2, <1>3, <1>7, <2>1, <2>3, BalancePosted DEF PostSecond
<1>8. CASE PostFirst(t)
  <2>1. Goto(t, "post_first", "write")
    BY <1>8 DEF PostFirst
  <2>2. Holds(t) = {FirstSem(t)} /\ Holds(t)' = {}
    BY <1>1, <1>3, <2>1 DEF Holds, InCursor
  <2>3. FirstSem(t) \in Holds(t) /\ Holds(t)' = Holds(t) \ {FirstSem(t)}
    BY <2>2
  <2> QED  BY <1>1, <1>2, <1>3, <1>8, <2>1, <2>3, BalancePosted DEF PostFirst
<1>9. ASSUME NEW from, NEW to, Goto(t, from, to), UNCHANGED sem,
             \/ {from, to} \subseteq PCs \ (CursorPCs \cup
                  {"try_second", "undo_first", "post_second", "post_first"})
             \/ {from, to} \subseteq {"try_second", "undo_first"}
             \/ {from, to} \subseteq CursorPCs \cup {"post_second"}
      PROVE  SemaphoreBalance'
  <2>1. Holds(t)' = Holds(t)
    BY <1>1, <1>3, <1>9 DEF Holds, InCursor
  <2> QED  BY <1>3, <1>9, <2>1, BalanceKept
<1>10. CASE Start(t) \/ MissFirst(t) \/ Backoff(t) \/ GiveUp(t) \/ Mark(t)
  BY <1>9, <1>10 DEF PCs, Start, MissFirst, Backoff, GiveUp, Mark, WriteMark,
                     CountMark, LoopTest
<1>11. CASE MissSecond(t)
  BY <1>9, <1>11 DEF MissSecond
<1>12. CASE MoveCursor(t)
  BY <1>9, <1>12 DEF MoveCursor, ReadLine, ReadStudent, LoadPos, StorePos,
                     CheckPos, ResetPos, LoadLine, StoreLine
<1> QED  BY <1>4, <1>5, <1>6, <1>7, <1>8, <1>10, <1>11, <1>12
         DEF ta_process, Acquire, Release

LEMMA BalanceStep == TypeInv /\ SemaphoreBalance /\ [Next]_vars => SemaphoreBalance'
<1> SUFFICES ASSUME TypeInv, SemaphoreBalance, [Next]_vars
             PROVE  SemaphoreBalance'
  OBVIOUS
<1>1. CASE Fork
  <2>1. child \in TAs /\ child >= child
    BY DEF TypeInv, TypeOK, TAs
  <2>2. PICK t \in TAs : t = child
    BY <2>1
  <2>3. pc[t] = "unborn" /\ pc' = [pc EXCEPT ![t] = "start"]
    BY <1>1, <2>1, <2>2 DEF TypeInv, ParentInOrder, Fork
  <2>4. Holds(t)' = Holds(t)
    BY <2>3 DEF TypeInv, TypeOK, Holds, InCursor, CursorPCs
  <2>5. \A u \in TAs \ {t} : pc'[u] = pc[u]
    BY <2>3 DEF TypeInv, TypeOK
  <2>6. \A u \in TAs : Holds(u)' = Holds(u)
    BY <2>4, <2>5, HoldsFrame
  <2> QED  BY <1>1, <2>6, BalanceKept DEF Fork
<1>2. CASE ForkFails \/ WaitChild \/ UNCHANGED vars
  <2>1. UNCHANGED <<sem, pc>>
    BY <1>2 DEF ForkFails, WaitChild, vars, taVars
  <2> QED  BY <2>1, HoldsFrame, BalanceKept
<1>3. CASE \E t \in TAs : ta_process(t)
  BY <1>3, BalanceTAStep
<1> QED  BY <1>1, <1>2, <1>3 DEF Next, Terminated

(* No path through acquire_semaphores_safely and the release loses a post  *)
(* or posts twice: a semaphore is 0 exactly when one TA holds it.          *)
THEOREM SemaphoresBalance == Spec => []SemaphoreBalance
BY TypeInit, TypeStep, BalanceInit, BalanceStep, PTL DEF Spec

(* A TA at the cursor holds its own semaphore and its neighbour's.         *)
LEMMA CursorHolds ==
  ASSUME NEW t \in TAs, InCursor(t)
  PROVE  Holds(t) = {t, Neighbour(t)}
BY OwnPair DEF Holds, InCursor, CursorPCs

(* Two TAs that hold the same semaphore are the same TA.                   *)
LEMMA OneHolder ==
  ASSUME SemaphoreBalance, NEW s \in TAs, NEW t \in TAs, NEW u \in TAs,
         s \in Holds(t), s \in Holds(u)
  PROVE  t = u
BY DEF SemaphoreBalance

(* Neighbouring TAs exclude each other at the cursor for every number of   *)
(* TAs: the semaphore they share is held by one of them at a time.         *)
THEOREM NeighboursExclude == Spec => []NeighbourExclusion
<1>1. SemaphoreBalance => NeighbourExclusion
  <2> SUFFICES ASSUME SemaphoreBalance, NEW t \in TAs,
                      InCursor(t), InCursor(Neighbour(t))
               PROVE  FALSE
    BY DEF NeighbourExclusion
  <2>1. Neighbour(t) \in TAs /\ Neighbour(t) # t
    BY NeighbourIsNext
  <2>2. Neighbour(t) \in Holds(t) /\ Neighbour(t) \in Holds(Neighbour(t))
    BY <2>1, CursorHolds
  <2> QED  BY <2>1, <2>2, OneHolder
<1> QED  BY <1>1, SemaphoresBalance, PTL

(* With at most three TAs two TAs at the cursor share a semaphore.         *)
LEMMA SharedExclusion ==
  ASSUME NUM_TAS <= 3, SemaphoreBalance
  PROVE  MutualExclusion
<1> SUFFICES ASSUME NEW t \in TAs, NEW u \in TAs, InCursor(t), InCursor(u)
             PROVE  t = u
  BY DEF MutualExclusion
<1>1. PICK s \in {t, Neighbour(t)} : s \in {u, Neighbour(u)}
  BY SharedSemaphore
<1>2. s \in TAs
  BY <1>1, NeighbourIsNext
<1> QED  BY <1>1, <1>2, CursorHolds, OneHolder

(* With three TAs or fewer the pair of semaphores protects the whole       *)
(* cursor; the program's five TAs are not covered, and a run refutes it    *)
(* for four.                                                               *)
THEOREM CursorExclusive == NUM_TAS <= 3 => (Spec => []MutualExclusion)
<1> SUFFICES ASSUME NUM_TAS <= 3 PROVE Spec => []MutualExclusion
  OBVIOUS
<1> QED  BY SharedExclusion, SemaphoresBalance, PTL

=============================================================================
