-------------------------- MODULE DispenserProofs --------------------------
(***************************************************************************)
(* Where all the TAs are neighbours of one another, NUM_TAS <= 3, the      *)
(* program hands out the list as the dispenser does, whatever the list;    *)
(* and when the number of TAs divides the list, every student is marked    *)
(* NUM_ROUNDS times.                                                       *)
(***************************************************************************)
EXTENDS TAMarkingProofs, FiniteSetTheorems

-----------------------------------------------------------------------------
(* What a step of one TA leaves alone.                                     *)
LEMMA OthersKeep ==
  ASSUME TypeOK, NEW t \in TAs, ta_process(t)
  PROVE  /\ UNCHANGED <<parent, child>>
         /\ \A u \in TAs \ {t} :
              /\ pc'[u] = pc[u] /\ reg'[u] = reg[u]
              /\ student_num'[u] = student_num[u]
              /\ file'[u] = file[u] /\ students_marked'[u] = students_marked[u]
<1> USE DEF TypeOK, Goto
<1>1. CASE Start(t) \/ Acquire(t)
  BY <1>1 DEF Start, Acquire, TakeFirst, MissFirst, TakeSecond, MissSecond, UndoFirst,
              Backoff, GiveUp
<1>2. CASE MoveCursor(t)
  BY <1>2 DEF MoveCursor, ReadLine, ReadStudent, LoadPos, StorePos, CheckPos, ResetPos,
              LoadLine, StoreLine
<1>3. CASE Release(t) \/ Mark(t)
  BY <1>3 DEF Release, Mark, PostSecond, PostFirst, WriteMark, CountMark
<1>. QED
  BY <1>1, <1>2, <1>3 DEF ta_process

(* The steps of a TA that are not at the cursor.                           *)
AwayFromCursor(t) ==
  Start(t) \/ Acquire(t) \/ Release(t) \/ Mark(t)

LEMMA AwayKeepsCursor ==
  ASSUME TypeOK, NEW t \in TAs, AwayFromCursor(t)
  PROVE  /\ UNCHANGED <<current_line, current_pos>>
         /\ pc[t] \notin CursorPCs
         /\ pc'[t] \in CursorPCs => pc'[t] = "read_line"
  BY DEF AwayFromCursor, Start, Acquire, TakeFirst, MissFirst, TakeSecond, MissSecond,
         UndoFirst, Backoff, GiveUp, Release, Mark, PostSecond, PostFirst, WriteMark,
         CountMark, LoopTest, TypeOK, Goto, CursorPCs

(* A step that is neither the parent's fork nor a TA's changes none of it. *)
LEMMA ParentStep ==
  ASSUME TypeInv, Fork \/ ForkFails \/ WaitChild \/ UNCHANGED vars
  PROVE  /\ UNCHANGED <<current_line, current_pos, reg, student_num, file, students_marked>>
         /\ \A t \in TAs : pc'[t] # pc[t] => (pc[t] = "unborn" /\ pc'[t] = "start")
<1>1. CASE Fork
  <2>1. child \in TAs /\ pc[child] = "unborn"
    BY <1>1 DEF TypeInv, TypeOK, ParentInOrder, Fork, TAs
  <2>2. PICK t \in TAs : t = child
    BY <2>1
  <2>3. pc \in [TAs -> PCs] /\ pc' = [pc EXCEPT ![t] = "start"] /\ pc[t] = "unborn"
    BY <1>1, <2>1, <2>2 DEF TypeInv, TypeOK, Fork
  <2>4. \A u \in TAs : pc'[u] # pc[u] => (pc[u] = "unborn" /\ pc'[u] = "start")
    BY <2>3
  <2>. QED
    BY <1>1, <2>4 DEF Fork
<1>2. CASE ForkFails \/ WaitChild \/ UNCHANGED vars
  BY <1>2 DEF ForkFails, WaitChild, vars, taVars
<1>. QED
  BY <1>1, <1>2

-----------------------------------------------------------------------------
(* The marks.                                                              *)

(* A TA in the loop has students left to mark.                             *)
StudentsLeft ==
  \A t \in TAs :
    /\ pc[t] \in {"unborn", "start"} => students_marked[t] = 0
    /\ pc[t] \notin {"unborn", "start", "done"} => students_marked[t] < target_students
    /\ pc[t] = "done" => students_marked[t] = target_students

(* A file has one record for each student counted, and the one at hand.    *)
FilesRecorded ==
  \A t \in TAs : pc[t] \notin {"unborn", "start"} =>
    Len(file[t]) = students_marked[t] + IF pc[t] = "count" THEN 1 ELSE 0

LEMMA TargetType == target_students \in Nat
<1>1. total_students \in Nat
  BY ConstantsAssumption DEF total_students
<1>2. total_students \div NUM_TAS \in Nat
  BY <1>1, ConstantsAssumption, SMT
<1>. QED
  BY <1>2, ConstantsAssumption DEF target_students

LEMMA MarksInit == Init => StudentsLeft /\ FilesRecorded
  BY DEF Init, StudentsLeft, FilesRecorded

LEMMA StudentsLeftStep ==
  ASSUME TypeInv, StudentsLeft, [Next]_vars
  PROVE  StudentsLeft'
<1>1. TypeOK /\ target_students \in Nat /\ target_students' = target_students
  BY TargetType DEF TypeInv, target_students, total_students
<1>2. CASE Fork \/ ForkFails \/ WaitChild \/ UNCHANGED vars
  BY <1>1, <1>2, ParentStep DEF StudentsLeft
<1>3. ASSUME NEW t \in TAs, ta_process(t) PROVE StudentsLeft'
  <2>1. /\ pc[t] \in {"unborn", "start"} => students_marked[t] = 0
        /\ pc[t] \notin {"unborn", "start", "done"} => students_marked[t] < target_students
        /\ students_marked[t] \in Nat
    BY <1>1 DEF StudentsLeft, TypeOK
  <2>2. /\ pc'[t] \notin {"unborn", "start"}
        /\ pc'[t] # "done" => students_marked'[t] < target_students
        /\ pc'[t] = "done" => students_marked'[t] = target_students
    <3>1. CASE Start(t)
      BY <1>1, <2>1, <3>1 DEF Start, TypeOK, Goto, LoopTest
    <3>2. CASE CountMark(t)
      BY <1>1, <2>1, <3>2 DEF CountMark, TypeOK, Goto, LoopTest
    <3>3. CASE Acquire(t)
      BY <1>1, <2>1, <3>3 DEF TypeOK, Goto, Acquire, TakeFirst, MissFirst, TakeSecond,
             MissSecond, UndoFirst, Backoff, GiveUp
    <3>4. CASE MoveCursor(t)
      BY <1>1, <2>1, <3>4 DEF TypeOK, Goto, MoveCursor, ReadLine, ReadStudent, LoadPos,
             StorePos, CheckPos, ResetPos, LoadLine, StoreLine
    <3>5. CASE Release(t) \/ WriteMark(t)
      BY <1>1, <2>1, <3>5 DEF TypeOK, Goto, Release, PostSecond, PostFirst, WriteMark
    <3>. QED
      BY <1>3, <3>1, <3>2, <3>3, <3>4, <3>5 DEF ta_process, Mark
  <2>. QED
    BY <1>1, <1>3, <2>2, OthersKeep DEF StudentsLeft
<1>. QED
  BY <1>2, <1>3 DEF Next, Terminated

LEMMA FilesRecordedStep ==
  ASSUME TypeInv, StudentsLeft, FilesRecorded, FailingFiles = {}, [Next]_vars
  PROVE  FilesRecorded'
<1>1. TypeOK
  BY DEF TypeInv
<1>2. CASE Fork \/ ForkFails \/ WaitChild \/ UNCHANGED vars
  BY <1>1, <1>2, ParentStep DEF FilesRecorded
<1>3. ASSUME NEW t \in TAs, ta_process(t) PROVE FilesRecorded'
  <2>1. /\ file[t] \in Seq(Records) /\ students_marked[t] \in Nat
        /\ student_num[t] \in Records
    BY <1>1 DEF TypeOK, Records
  <2>2. Len(file'[t]) = students_marked'[t] + IF pc'[t] = "count" THEN 1 ELSE 0
    <3>1. CASE Start(t)
      BY <1>1, <3>1 DEF Start, TypeOK, Goto, LoopTest, StudentsLeft
    <3>2. CASE WriteMark(t)
      <4>1. pc[t] = "write" /\ pc'[t] = "count" /\ students_marked' = students_marked
        BY <1>1, <3>2 DEF WriteMark, TypeOK, Goto
      <4>2. file'[t] = Append(file[t], student_num[t])
        BY <1>1, <3>2 DEF WriteMark, TypeOK
      <4>3. Len(file[t]) = students_marked[t]
        BY <2>1, <4>1 DEF FilesRecorded
      <4>. QED
        BY <2>1, <4>1, <4>2, <4>3, AppendProperties
    <3>3. CASE CountMark(t)
      <4>1. pc[t] = "count" /\ pc'[t] # "count" /\ file' = file
        BY <1>1, <3>3 DEF CountMark, TypeOK, Goto, LoopTest
      <4>2. students_marked'[t] = students_marked[t] + 1
        BY <1>1, <3>3 DEF CountMark, TypeOK
      <4>3. Len(file[t]) = students_marked[t] + 1
        BY <2>1, <4>1 DEF FilesRecorded
      <4>. QED
        BY <2>1, <4>1, <4>2, <4>3
    <3>4. CASE Acquire(t)
      BY <1>1, <2>1, <3>4 DEF FilesRecorded, TypeOK, Goto, Acquire, TakeFirst, MissFirst,
             TakeSecond, MissSecond, UndoFirst, Backoff, GiveUp
    <3>5. CASE MoveCursor(t)
      BY <1>1, <2>1, <3>5 DEF FilesRecorded, TypeOK, Goto, MoveCursor, ReadLine, ReadStudent,
             LoadPos, StorePos, CheckPos, ResetPos, LoadLine, StoreLine
    <3>6. CASE Release(t)
      BY <1>1, <2>1, <3>6 DEF FilesRecorded, TypeOK, Goto, Release, PostSecond, PostFirst
    <3>. QED
      BY <1>3, <3>1, <3>2, <3>3, <3>4, <3>5, <3>6 DEF ta_process, Mark
  <2>. QED
    BY <1>1, <1>3, <2>2, OthersKeep DEF FilesRecorded
<1>. QED
  BY <1>2, <1>3 DEF Next, Terminated

(* Without a failing fopen, every mark that is counted is in the TA's file *)
(* and nothing else is, however many TAs there are: each mark is written   *)
(* before it is counted, once.                                             *)
THEOREM EveryMarkRecorded == FailingFiles = {} => (Spec => []MarksRecorded)
<1> SUFFICES ASSUME FailingFiles = {} PROVE Spec => []MarksRecorded
  OBVIOUS
<1> DEFINE Inv == TypeInv /\ StudentsLeft /\ FilesRecorded
<1>1. Init => Inv
  BY TypeInit, MarksInit
<1>2. Inv /\ [Next]_vars => Inv'
  BY TypeStep, StudentsLeftStep, FilesRecordedStep
<1>3. Inv => MarksRecorded
  <2> SUFFICES ASSUME Inv, NEW t \in TAs, pc[t] \in {"try_first", "done"}
               PROVE  Len(file[t]) = students_marked[t]
    BY DEF MarksRecorded
  <2>1. students_marked[t] \in Nat
    BY DEF TypeInv, TypeOK
  <2>. QED
    BY <2>1 DEF FilesRecorded
<1>. QED
  BY <1>1, <1>2, <1>3, PTL DEF Spec

-----------------------------------------------------------------------------
(* The cursor, where one TA at a time is at it.                            *)

(* What a TA at the cursor may rely on.                                    *)
CursorAt(t) ==
  /\ pc[t] \in {"read_pos", "store_line"} => reg[t] = current_line
  /\ pc[t] = "store_pos" => reg[t] = current_pos
  /\ pc[t] = "check_pos" => current_pos <= STUDENTS_PER_LINE
  /\ pc[t] = "reset_pos" => current_pos = STUDENTS_PER_LINE
  /\ pc[t] \in {"load_line", "store_line"} => current_pos = 0

(* The position is on the line, but for the moment after its increment.    *)
OnLine ==
  (\A t \in TAs : pc[t] \notin {"check_pos", "reset_pos"})
    => current_pos < STUDENTS_PER_LINE

CursorInv == (\A t \in TAs : CursorAt(t)) /\ OnLine

LEMMA CursorInit == Init => CursorInv
  BY ConstantsAssumption DEF Init, CursorInv, CursorAt, OnLine

LEMMA CursorStep ==
  ASSUME TypeInv, MutualExclusion, CursorInv, [Next]_vars
  PROVE  CursorInv'
<1>1. TypeOK
  BY DEF TypeInv
<1>2. CASE Fork \/ ForkFails \/ WaitChild \/ UNCHANGED vars
  BY <1>1, <1>2, ParentStep DEF CursorInv, CursorAt, OnLine
<1>3. ASSUME NEW t \in TAs, AwayFromCursor(t) PROVE CursorInv'
  <2>1. ta_process(t)
    BY <1>3 DEF AwayFromCursor, ta_process
  <2>2. /\ UNCHANGED <<current_line, current_pos>>
        /\ pc[t] \notin CursorPCs
        /\ pc'[t] \in CursorPCs => pc'[t] = "read_line"
        /\ \A u \in TAs \ {t} : pc'[u] = pc[u] /\ reg'[u] = reg[u]
    BY <1>1, <1>3, <2>1, OthersKeep, AwayKeepsCursor
  <2>3. CursorAt(t)'
    BY <2>2 DEF CursorAt, CursorPCs
  <2>4. \A u \in TAs \ {t} : CursorAt(u)'
    BY <2>2 DEF CursorInv, CursorAt
  <2>5. OnLine'
    BY <2>2 DEF CursorInv, OnLine, CursorPCs
  <2>. QED
    BY <2>3, <2>4, <2>5 DEF CursorInv
<1>4. ASSUME NEW t \in TAs, MoveCursor(t) PROVE CursorInv'
  <2>1. ta_process(t)
    BY <1>4 DEF ta_process
  <2>2. pc[t] \in CursorPCs
    BY <1>4 DEF MoveCursor, ReadLine, ReadStudent, LoadPos, StorePos, CheckPos, ResetPos,
                LoadLine, StoreLine, Goto, CursorPCs
  <2>3. \A u \in TAs \ {t} : pc[u] \notin CursorPCs /\ pc'[u] = pc[u]
    BY <1>1, <2>1, <2>2, OthersKeep DEF MutualExclusion, InCursor
  <2>4. \A u \in TAs \ {t} : CursorAt(u)'
    BY <2>3 DEF CursorAt, CursorPCs
  <2>5. /\ current_line \in Nat /\ current_pos \in Nat /\ STUDENTS_PER_LINE \in Nat \ {0}
        /\ CursorAt(t)
        /\ pc[t] \notin {"check_pos", "reset_pos"} => current_pos < STUDENTS_PER_LINE
    <3>1. current_line \in Nat /\ current_pos \in Nat /\ STUDENTS_PER_LINE \in Nat \ {0}
      BY <1>1, ConstantsAssumption DEF TypeOK
    <3>2. CursorAt(t)
      BY DEF CursorInv
    <3>3. pc[t] \notin {"check_pos", "reset_pos"} => current_pos < STUDENTS_PER_LINE
      BY <2>3 DEF CursorInv, OnLine, CursorPCs
    <3>. QED
      BY <3>1, <3>2, <3>3
  <2>6. /\ CursorAt(t)'
        /\ pc'[t] \notin {"check_pos", "reset_pos"} => current_pos' < STUDENTS_PER_LINE
    <3>1. CASE ReadLine(t) \/ ReadStudent(t) \/ LoadPos(t) \/ CheckPos(t) \/ LoadLine(t)
      BY <1>1, <2>5, <3>1 DEF TypeOK, Goto, CursorAt, ReadLine, ReadStudent, LoadPos,
             CheckPos, LoadLine
    <3>2. CASE StorePos(t)
      BY <1>1, <2>5, <3>2 DEF TypeOK, Goto, CursorAt, StorePos
    <3>3. CASE ResetPos(t) \/ StoreLine(t)
      BY <1>1, <2>5, <3>3 DEF TypeOK, Goto, CursorAt, ResetPos, StoreLine
    <3>. QED
      BY <1>4, <3>1, <3>2, <3>3 DEF MoveCursor
  <2>. QED
    BY <2>3, <2>4, <2>6 DEF CursorInv, OnLine, CursorPCs
<1>. QED
  BY <1>2, <1>3, <1>4 DEF Next, Terminated, ta_process, AwayFromCursor

-----------------------------------------------------------------------------
(* The dispenser.                                                          *)

(* The cursor of the dispenser when no other TA than one whose counter is  *)
(* `at` is at the cursor.                                                  *)
View(at, line, pos) ==
  IF \/ at \in {"load_line", "store_line"}
     \/ at \in {"load_pos", "store_pos"} /\ pos + 1 >= STUDENTS_PER_LINE
     \/ pos >= STUDENTS_PER_LINE
  THEN <<(line + 1) % NUM_LINES, 0>>
  ELSE <<line, IF at \in {"load_pos", "store_pos"} THEN pos + 1 ELSE pos>>

LEMMA CursorIsView ==
  ASSUME NEW t \in TAs, \A u \in TAs \ {t} : pc[u] \notin CursorPCs
  PROVE  Cursor = View(pc[t], current_line, current_pos)
<1>1. /\ Someone({"load_line", "store_line"}) <=> pc[t] \in {"load_line", "store_line"}
      /\ Someone({"load_pos", "store_pos"}) <=> pc[t] \in {"load_pos", "store_pos"}
  BY DEF Someone, CursorPCs
<1>. QED
  BY <1>1 DEF Cursor, View

LEMMA CursorIsViewNext ==
  ASSUME NEW t \in TAs, \A u \in TAs \ {t} : pc'[u] \notin CursorPCs
  PROVE  Cursor' = View(pc'[t], current_line', current_pos')
<1>1. /\ Someone({"load_line", "store_line"})' <=> pc'[t] \in {"load_line", "store_line"}
      /\ Someone({"load_pos", "store_pos"})' <=> pc'[t] \in {"load_pos", "store_pos"}
  BY DEF Someone, CursorPCs
<1>. QED
  BY <1>1 DEF Cursor, View

DInv ==
  TypeInv /\ SemaphoreBalance /\ StudentsLeft /\ FilesRecorded /\ CursorInv

(* Nothing is handed out, and the cursor stays.                            *)
Stays == Cursor' = Cursor /\ \A t \in TAs : Handed(t)' = Handed(t)

(* Steps away from the cursor hand out nothing.                            *)
LEMMA ParentStays ==
  ASSUME TypeInv, Fork \/ ForkFails \/ WaitChild \/ UNCHANGED vars
  PROVE  Stays
<1>1. /\ UNCHANGED <<current_line, current_pos, file, student_num>>
      /\ \A t \in TAs : pc'[t] # pc[t] => (pc[t] = "unborn" /\ pc'[t] = "start")
  BY ParentStep
<1>2. \A t \in TAs : Handed(t)' = Handed(t)
  BY <1>1 DEF Handed, CursorPCs
<1>3. /\ Someone({"load_line", "store_line"})' <=> Someone({"load_line", "store_line"})
      /\ Someone({"load_pos", "store_pos"})' <=> Someone({"load_pos", "store_pos"})
  BY <1>1 DEF Someone
<1>4. Cursor' = Cursor
  BY <1>1, <1>3 DEF Cursor
<1>. QED
  BY <1>2, <1>4 DEF Stays

LEMMA AwayStays ==
  ASSUME DInv, FailingFiles = {}, NEW t \in TAs, AwayFromCursor(t)
  PROVE  Stays
<1>1. TypeOK /\ ta_process(t)
  BY DEF DInv, TypeInv, AwayFromCursor, ta_process
<1>2. /\ UNCHANGED <<current_line, current_pos>>
      /\ pc[t] \notin CursorPCs
      /\ pc'[t] \in CursorPCs => pc'[t] = "read_line"
      /\ \A u \in TAs \ {t} : /\ pc'[u] = pc[u] /\ file'[u] = file[u]
                             /\ student_num'[u] = student_num[u]
  BY <1>1, AwayKeepsCursor, OthersKeep
<1>3. /\ Someone({"load_line", "store_line"})' <=> Someone({"load_line", "store_line"})
      /\ Someone({"load_pos", "store_pos"})' <=> Someone({"load_pos", "store_pos"})
  BY <1>2 DEF Someone, CursorPCs
<1>4. Cursor' = Cursor
  BY <1>2, <1>3 DEF Cursor
<1>5. Handed(t)' = Handed(t)
  <2>1. CASE Start(t)
    BY <1>1, <2>1 DEF Start, LoopTest, TypeOK, Goto, Handed, CursorPCs
  <2>2. CASE Acquire(t)
    BY <1>1, <2>2 DEF TypeOK, Goto, Handed, CursorPCs, Acquire, TakeFirst, MissFirst,
           TakeSecond, MissSecond, UndoFirst, Backoff, GiveUp
  <2>3. CASE Release(t)
    BY <1>1, <2>3 DEF TypeOK, Goto, Handed, CursorPCs, Release, PostSecond, PostFirst
  <2>4. CASE WriteMark(t)
    BY <1>1, <2>4 DEF TypeOK, Goto, Handed, CursorPCs, WriteMark
  <2>5. CASE CountMark(t)
    BY <1>1, <2>5 DEF TypeOK, Goto, Handed, CursorPCs, CountMark, LoopTest
  <2>. QED
    BY <2>1, <2>2, <2>3, <2>4, <2>5 DEF AwayFromCursor, Mark
<1>6. \A u \in TAs : Handed(u)' = Handed(u)
  BY <1>2, <1>5 DEF Handed
<1>. QED
  BY <1>4, <1>6 DEF Stays

(* A step at the cursor hands out a student when it reads it.              *)
HandsOut(t) ==
  /\ Len(Handed(t)) < target_students
  /\ Handed(t)' = Append(Handed(t), Cursor)
  /\ \A u \in TAs \ {t} : Handed(u)' = Handed(u)
  /\ Cursor' = Dispenser!NextCell(Cursor)

LEMMA StudentOnLine ==
  ASSUME NEW line \in 0 .. NUM_LINES - 1, NEW pos \in 0 .. STUDENTS_PER_LINE - 1
  PROVE  StudentAt(line, pos) = <<line, pos>>
<1>1. NUM_LINES \in Nat /\ STUDENTS_PER_LINE \in Nat \ {0}
  BY ConstantsAssumption
<1>2. pos \div STUDENTS_PER_LINE = 0 /\ pos % STUDENTS_PER_LINE = pos
  BY <1>1, SMT
<1>. QED
  BY <1>1, <1>2 DEF StudentAt

LEMMA CursorMoves ==
  ASSUME DInv, NUM_TAS <= 3, NEW t \in TAs, MoveCursor(t)
  PROVE  Stays \/ HandsOut(t)
<1>1. TypeOK /\ ta_process(t) /\ MutualExclusion
  BY SharedExclusion DEF DInv, TypeInv, ta_process
<1>2. pc[t] \in CursorPCs
  BY DEF MoveCursor, ReadLine, ReadStudent, LoadPos, StorePos, CheckPos, ResetPos,
         LoadLine, StoreLine, Goto, CursorPCs
<1>3. \A u \in TAs \ {t} : /\ pc[u] \notin CursorPCs /\ pc'[u] = pc[u]
                          /\ file'[u] = file[u] /\ student_num'[u] = student_num[u]
  BY <1>1, <1>2, OthersKeep DEF MutualExclusion, InCursor
<1>4. \A u \in TAs \ {t} : Handed(u)' = Handed(u)
  BY <1>3 DEF Handed
<1>5. /\ Cursor = View(pc[t], current_line, current_pos)
      /\ Cursor' = View(pc'[t], current_line', current_pos')
  BY <1>3, CursorIsView, CursorIsViewNext
<1>6. /\ current_line \in 0 .. NUM_LINES - 1 /\ current_pos \in Nat
      /\ STUDENTS_PER_LINE \in Nat \ {0} /\ NUM_LINES \in Nat \ {0}
      /\ CursorAt(t)
      /\ pc[t] \notin {"check_pos", "reset_pos"} => current_pos < STUDENTS_PER_LINE
  <2>1. /\ current_line \in 0 .. NUM_LINES - 1 /\ current_pos \in Nat
        /\ STUDENTS_PER_LINE \in Nat \ {0} /\ NUM_LINES \in Nat \ {0}
    BY <1>1, ConstantsAssumption DEF TypeOK
  <2>2. CursorAt(t)
    BY DEF DInv, CursorInv
  <2>3. pc[t] \notin {"check_pos", "reset_pos"} => current_pos < STUDENTS_PER_LINE
    BY <1>3 DEF DInv, CursorInv, OnLine, CursorPCs
  <2>. QED
    BY <2>1, <2>2, <2>3
<1>7. CASE ReadStudent(t)
  <2>1. /\ pc[t] = "read_pos" /\ pc'[t] = "load_pos"
        /\ UNCHANGED <<current_line, current_pos, file>>
        /\ student_num'[t] = StudentAt(reg[t], current_pos)
    BY <1>1, <1>7 DEF ReadStudent, TypeOK, Goto
  <2>2. reg[t] = current_line /\ current_pos \in 0 .. STUDENTS_PER_LINE - 1
    BY <1>6, <2>1 DEF CursorAt
  <2>3. student_num'[t] = <<current_line, current_pos>>
    BY <1>6, <2>1, <2>2, StudentOnLine
  <2>4. Cursor = <<current_line, current_pos>>
    BY <1>5, <1>6, <2>1, <2>2 DEF View
  <2>5. Cursor' = Dispenser!NextCell(Cursor)
    BY <1>5, <1>6, <2>1, <2>2, <2>4 DEF View, Dispenser!NextCell
  <2>6. Handed(t) = file[t] /\ Handed(t)' = Append(file[t], Cursor)
    BY <2>1, <2>3, <2>4 DEF Handed, CursorPCs
  <2>7. Len(file[t]) < target_students
    <3>1. Len(file[t]) = students_marked[t] + 0 /\ students_marked[t] < target_students
      BY <2>1 DEF DInv, StudentsLeft, FilesRecorded
    <3>. QED
      BY <1>1, <3>1 DEF TypeOK
  <2>. QED
    BY <1>4, <2>5, <2>6, <2>7 DEF HandsOut
<1>8. CASE ~ReadStudent(t)
  <2>1. Handed(t)' = Handed(t)
    <3>1. /\ UNCHANGED <<file, student_num>>
          /\ pc[t] = "read_line" => pc'[t] = "read_pos"
          /\ pc[t] # "read_line" => pc[t] # "read_pos"
          /\ pc[t] # "read_line" => pc'[t] \in (CursorPCs \ {"read_line", "read_pos"}) \cup {"post_second"}
      BY <1>1, <1>8 DEF MoveCursor, ReadLine, LoadPos, StorePos, CheckPos, ResetPos,
             LoadLine, StoreLine, TypeOK, Goto, CursorPCs
    <3>. QED
      BY <1>2, <3>1 DEF Handed, CursorPCs
  <2>2. Cursor' = Cursor
    <3>1. CASE ReadLine(t) \/ LoadPos(t) \/ LoadLine(t)
      <4>1. /\ UNCHANGED <<current_line, current_pos>>
            /\ \/ pc[t] = "read_line" /\ pc'[t] = "read_pos"
               \/ pc[t] = "load_pos" /\ pc'[t] = "store_pos"
               \/ pc[t] = "load_line" /\ pc'[t] = "store_line"
        BY <1>1, <3>1 DEF ReadLine, LoadPos, LoadLine, TypeOK, Goto
      <4>. QED
        BY <1>5, <4>1 DEF View
    <3>2. CASE StorePos(t)
      <4>1. /\ pc[t] = "store_pos" /\ pc'[t] = "check_pos"
            /\ current_line' = current_line /\ current_pos' = reg[t] + 1
        BY <1>1, <3>2 DEF StorePos, TypeOK, Goto
      <4>2. current_pos' = current_pos + 1 /\ current_pos < STUDENTS_PER_LINE
        BY <1>6, <4>1 DEF CursorAt
      <4>. QED
        BY <1>5, <1>6, <4>1, <4>2 DEF View
    <3>3. CASE CheckPos(t)
      <4>1. /\ pc[t] = "check_pos" /\ pc'[t] \in {"reset_pos", "post_second"}
            /\ UNCHANGED <<current_line, current_pos>>
        BY <1>1, <3>3 DEF CheckPos, TypeOK, Goto
      <4>. QED
        BY <1>5, <4>1 DEF View
    <3>4. CASE ResetPos(t)
      <4>1. /\ pc[t] = "reset_pos" /\ pc'[t] = "load_line"
            /\ current_line' = current_line /\ current_pos = STUDENTS_PER_LINE
        BY <1>1, <1>6, <3>4 DEF ResetPos, TypeOK, Goto, CursorAt
      <4>. QED
        BY <1>5, <1>6, <4>1 DEF View
    <3>5. CASE StoreLine(t)
      <4>1. /\ pc[t] = "store_line" /\ pc'[t] = "post_second"
            /\ current_line' = (reg[t] + 1) % NUM_LINES /\ current_pos' = current_pos
            /\ reg[t] = current_line /\ current_pos = 0
        BY <1>1, <1>6, <3>5 DEF StoreLine, TypeOK, Goto, CursorAt
      <4>. QED
        BY <1>5, <1>6, <4>1 DEF View
    <3>. QED
      BY <1>8, <3>1, <3>2, <3>3, <3>4, <3>5 DEF MoveCursor
  <2>. QED
    BY <1>4, <2>1, <2>2 DEF Stays
<1>. QED
  BY <1>7, <1>8

LEMMA StepsOfDispenser ==
  ASSUME DInv, NUM_TAS <= 3, FailingFiles = {}, [Next]_vars
  PROVE  Stays \/ \E t \in TAs : HandsOut(t)
<1>1. TypeInv
  BY DEF DInv
<1>. QED
  BY <1>1, ParentStays, AwayStays, CursorMoves
     DEF Next, Terminated, ta_process, AwayFromCursor

LEMMA DInvInit == Init => DInv
  BY TypeInit, BalanceInit, MarksInit, CursorInit DEF DInv

LEMMA DInvStep ==
  ASSUME NUM_TAS <= 3, FailingFiles = {}, DInv, [Next]_vars
  PROVE  DInv'
<1>1. MutualExclusion
  BY SharedExclusion DEF DInv
<1>. QED
  BY <1>1, TypeStep, BalanceStep, StudentsLeftStep, FilesRecordedStep, CursorStep DEF DInv

(* With at most three TAs, and files that open, part2.c hands out the list *)
(* in order, one student to one TA, each TA its share: the reads and       *)
(* writes of the cursor, one by one, implement the hand-out in one step.   *)
THEOREM CursorImplementsDispenser ==
  NUM_TAS <= 3 /\ FailingFiles = {} => (Spec => ImplementsDispenser)
<1> SUFFICES ASSUME NUM_TAS <= 3, FailingFiles = {} PROVE Spec => ImplementsDispenser
  OBVIOUS
<1>1. Init => Dispenser!Init
  <2> SUFFICES ASSUME Init PROVE Dispenser!Init
    OBVIOUS
  <2>1. Cursor = <<0, 0>>
    BY ConstantsAssumption DEF Init, Cursor, Someone
  <2>2. \A t \in TAs : Handed(t) = <<>>
    BY DEF Init, Handed
  <2>. QED
    BY <2>1, <2>2 DEF Dispenser!Init
<1>2. DInv /\ [Next]_vars => [Dispenser!Next]_Dispenser!dvars
  <2> SUFFICES ASSUME DInv, [Next]_vars PROVE [Dispenser!Next]_Dispenser!dvars
    OBVIOUS
  <2>1. CASE Stays
    BY <2>1 DEF Stays, Dispenser!dvars
  <2>2. ASSUME NEW t \in TAs, HandsOut(t) PROVE Dispenser!Next
    <3>1. Dispenser!HandOut(t)
      BY <2>2 DEF HandsOut, Dispenser!HandOut
    <3>. QED
      BY <3>1 DEF Dispenser!Next
  <2>. QED
    BY <2>1, <2>2, StepsOfDispenser
<1>3. DInv /\ [Next]_vars => DInv'
  BY DInvStep
<1>. QED
  BY <1>1, <1>2, <1>3, DInvInit, PTL DEF Spec, ImplementsDispenser, Dispenser!Spec

-----------------------------------------------------------------------------
(* Rounds of the list.                                                     *)
LEMMA Monotone ==
  ASSUME NEW a \in Nat, NEW b \in Nat, NEW T \in Nat, a <= b
  PROVE  a * T <= b * T
<1>1. PICK d \in Nat : b = a + d
  <2>1. b - a \in Nat /\ b = a + (b - a)
    OBVIOUS
  <2>. QED
    BY <2>1
<1>2. b * T = a * T + d * T
  BY <1>1
<1>3. d * T \in Nat /\ a * T \in Nat
  OBVIOUS
<1>. QED
  BY <1>2, <1>3

LEMMA Multiples ==
  ASSUME NEW q \in Nat, NEW r \in Nat, NEW T \in Nat, NEW k \in Nat,
         k < T, q * T + k = r * T
  PROVE  q = r /\ k = 0
<1>1. q * T \in Nat /\ r * T \in Nat /\ (q + 1) * T = q * T + T /\ (r + 1) * T = r * T + T
  OBVIOUS
<1>2. ~(q < r)
  <2>1. SUFFICES ASSUME q < r PROVE FALSE
    OBVIOUS
  <2>2. q + 1 \in Nat /\ q + 1 <= r
    BY <2>1
  <2>3. (q + 1) * T <= r * T
    BY <2>2, Monotone
  <2>. QED
    BY <2>3, <1>1
<1>3. ~(r < q)
  <2>1. SUFFICES ASSUME r < q PROVE FALSE
    OBVIOUS
  <2>2. r + 1 \in Nat /\ r + 1 <= q
    BY <2>1
  <2>3. (r + 1) * T <= q * T
    BY <2>2, Monotone
  <2>. QED
    BY <2>3, <1>1
<1>4. q = r
  BY <1>2, <1>3
<1>. QED
  BY <1>1, <1>4

(* The number of a student in the order of the list, from 0.               *)
Number(s) == s[1] * STUDENTS_PER_LINE + s[2]

Earlier(s, c) ==
  \/ s[1] < c[1]
  \/ s[1] = c[1] /\ s[2] < c[2]

LastOfList(c) == c[1] = NUM_LINES - 1 /\ c[2] = STUDENTS_PER_LINE - 1

LEMMA ListType ==
  /\ NUM_LINES \in Nat /\ NUM_LINES >= 1
  /\ STUDENTS_PER_LINE \in Nat /\ STUDENTS_PER_LINE >= 1
  /\ total_students \in Nat
  BY ConstantsAssumption DEF total_students

LEMMA NumberType ==
  ASSUME NEW c \in Students
  PROVE  /\ c[1] \in 0 .. NUM_LINES - 1 /\ c[2] \in 0 .. STUDENTS_PER_LINE - 1
         /\ c = <<c[1], c[2]>>
         /\ Number(c) \in Nat /\ Number(c) < total_students
<1>1. c[1] \in 0 .. NUM_LINES - 1 /\ c[2] \in 0 .. STUDENTS_PER_LINE - 1 /\ c = <<c[1], c[2]>>
  BY DEF Students
<1>2. c[1] * STUDENTS_PER_LINE \in Nat /\ c[1] + 1 \in Nat /\ c[1] + 1 <= NUM_LINES /\ c[1] \in Nat
  BY <1>1, ListType
<1>3. (c[1] + 1) * STUDENTS_PER_LINE <= NUM_LINES * STUDENTS_PER_LINE
  BY <1>2, ListType, Monotone
<1>4. (c[1] + 1) * STUDENTS_PER_LINE = c[1] * STUDENTS_PER_LINE + STUDENTS_PER_LINE
  BY <1>2, ListType
<1>. QED
  BY <1>1, <1>2, <1>3, <1>4, ListType DEF Number, total_students

(* The cursor moves to the next number, or from the last to the first.     *)
LEMMA NextNumber ==
  ASSUME NEW c \in Students
  PROVE  /\ Dispenser!NextCell(c) \in Students
         /\ ~LastOfList(c) =>
              /\ Number(Dispenser!NextCell(c)) = Number(c) + 1
              /\ \A s \in Students : Earlier(s, Dispenser!NextCell(c)) <=> (Earlier(s, c) \/ s = c)
         /\ LastOfList(c) =>
              /\ Number(Dispenser!NextCell(c)) = 0 /\ Number(c) + 1 = total_students
              /\ \A s \in Students : ~Earlier(s, Dispenser!NextCell(c))
              /\ \A s \in Students : Earlier(s, c) \/ s = c
<1> DEFINE d == Dispenser!NextCell(c)
<1>1. /\ c[1] \in 0 .. NUM_LINES - 1 /\ c[2] \in 0 .. STUDENTS_PER_LINE - 1
      /\ c = <<c[1], c[2]>> /\ Number(c) \in Nat
  BY NumberType
<1>2. \A s \in Students : /\ s[1] \in 0 .. NUM_LINES - 1 /\ s[2] \in 0 .. STUDENTS_PER_LINE - 1
                          /\ s = <<s[1], s[2]>>
  BY NumberType
<1>3. CASE c[2] + 1 < STUDENTS_PER_LINE
  <2>1. d = <<c[1], c[2] + 1>> /\ ~LastOfList(c)
    BY <1>1, <1>3, ListType DEF Dispenser!NextCell, LastOfList
  <2>2. d \in Students /\ d[1] = c[1] /\ d[2] = c[2] + 1
    BY <1>1, <1>3, <2>1, ListType DEF Students
  <2>3. Number(d) = Number(c) + 1
    <3>1. c[1] * STUDENTS_PER_LINE \in Int
      BY <1>1, ListType
    <3>. QED
      BY <1>1, <2>2, <3>1 DEF Number
  <2>4. ASSUME NEW s \in Students PROVE Earlier(s, d) <=> (Earlier(s, c) \/ s = c)
    <3>1. s = c <=> (s[1] = c[1] /\ s[2] = c[2])
      BY <1>1, <1>2
    <3>2. Earlier(s, d) <=> (Earlier(s, c) \/ (s[1] = c[1] /\ s[2] = c[2]))
      BY <1>1, <1>2, <2>2, ListType DEF Earlier
    <3>. QED
      BY <3>1, <3>2
  <2>. QED
    BY <2>1, <2>2, <2>3, <2>4
<1>4. CASE ~(c[2] + 1 < STUDENTS_PER_LINE) /\ c[1] + 1 < NUM_LINES
  <2>1. c[2] = STUDENTS_PER_LINE - 1 /\ ~LastOfList(c)
    BY <1>1, <1>4, ListType DEF LastOfList
  <2>2. (c[1] + 1) % NUM_LINES = c[1] + 1
    BY <1>1, <1>4, ListType, SMT
  <2>3. d = <<c[1] + 1, 0>>
    BY <1>4, <2>2 DEF Dispenser!NextCell
  <2>4. d \in Students /\ d[1] = c[1] + 1 /\ d[2] = 0
    BY <1>1, <1>4, <2>3, ListType DEF Students
  <2>5. Number(d) = Number(c) + 1
    <3>1. c[1] * STUDENTS_PER_LINE \in Int
      BY <1>1, ListType
    <3>2. (c[1] + 1) * STUDENTS_PER_LINE = c[1] * STUDENTS_PER_LINE + STUDENTS_PER_LINE
      BY <1>1, ListType
    <3>. QED
      BY <1>1, <2>1, <2>4, <3>1, <3>2, ListType DEF Number
  <2>6. ASSUME NEW s \in Students PROVE Earlier(s, d) <=> (Earlier(s, c) \/ s = c)
    <3>1. s = c <=> (s[1] = c[1] /\ s[2] = c[2])
      BY <1>1, <1>2
    <3>2. Earlier(s, d) <=> (Earlier(s, c) \/ (s[1] = c[1] /\ s[2] = c[2]))
      BY <1>1, <1>2, <2>1, <2>4, ListType DEF Earlier
    <3>. QED
      BY <3>1, <3>2
  <2>. QED
    BY <2>1, <2>4, <2>5, <2>6
<1>5. CASE ~(c[2] + 1 < STUDENTS_PER_LINE) /\ ~(c[1] + 1 < NUM_LINES)
  <2>1. c[2] = STUDENTS_PER_LINE - 1 /\ c[1] = NUM_LINES - 1 /\ LastOfList(c)
    BY <1>1, <1>5, ListType DEF LastOfList
  <2>2. (c[1] + 1) % NUM_LINES = 0
    <3>1. c[1] + 1 = NUM_LINES
      BY <2>1, ListType
    <3>2. NUM_LINES % NUM_LINES = 0
      BY ListType, SMT
    <3>. QED
      BY <3>1, <3>2
  <2>3. d = <<0, 0>>
    BY <1>5, <2>2 DEF Dispenser!NextCell
  <2>4. d \in Students /\ d[1] = 0 /\ d[2] = 0
    BY <2>3, ListType DEF Students
  <2>5. Number(d) = 0
    BY <2>4, ListType DEF Number
  <2>6. Number(c) + 1 = total_students
    <3>1. (NUM_LINES - 1) * STUDENTS_PER_LINE = NUM_LINES * STUDENTS_PER_LINE - STUDENTS_PER_LINE
      BY ListType
    <3>2. NUM_LINES * STUDENTS_PER_LINE \in Int
      BY ListType
    <3>. QED
      BY <2>1, <3>1, <3>2, ListType DEF Number, total_students
  <2>7. \A s \in Students : ~Earlier(s, d)
    BY <1>2, <2>4, ListType DEF Earlier
  <2>8. ASSUME NEW s \in Students PROVE Earlier(s, c) \/ s = c
    <3>1. s = c <=> (s[1] = c[1] /\ s[2] = c[2])
      BY <1>1, <1>2
    <3>2. Earlier(s, c) \/ (s[1] = c[1] /\ s[2] = c[2])
      BY <1>1, <1>2, <2>1, ListType DEF Earlier
    <3>. QED
      BY <3>1, <3>2
  <2>. QED
    BY <2>1, <2>4, <2>5, <2>6, <2>7, <2>8
<1>. QED
  BY <1>3, <1>4, <1>5

(* The places in what the TAs were handed where student s stands.          *)
Given(s) ==
  {m \in TAs \X (Nat \ {0}) : m[2] <= Len(Handed(m[1])) /\ Handed(m[1])[m[2]] = s}

HandedOut ==
  Len(Handed(0)) + Len(Handed(1)) + IF NUM_TAS = 3 THEN Len(Handed(2)) ELSE 0

(* After q rounds of the list, and the students before the cursor.         *)
AfterRounds(q) ==
  /\ HandedOut = q * total_students + Number(Cursor)
  /\ \A s \in Students :
       /\ IsFiniteSet(Given(s))
       /\ Cardinality(Given(s)) = q + IF Earlier(s, Cursor) THEN 1 ELSE 0

RoundsInv == Cursor \in Students /\ \E q \in Nat : AfterRounds(q)

LEMMA HandedType ==
  ASSUME TypeOK, NEW t \in TAs
  PROVE  Handed(t) \in Seq(Records) /\ Len(Handed(t)) \in Nat
<1>1. file[t] \in Seq(Records) /\ student_num[t] \in Records
  BY DEF TypeOK, Records
<1>2. <<>> \in Seq(Records) /\ Append(file[t], student_num[t]) \in Seq(Records)
  BY <1>1, AppendProperties, EmptySeq
<1>3. Handed(t) \in Seq(Records)
  BY <1>1, <1>2 DEF Handed
<1>. QED
  BY <1>3, LenProperties

LEMMA ThreeTAs ==
  ASSUME NUM_TAS <= 3
  PROVE  /\ NUM_TAS = 2 \/ NUM_TAS = 3
         /\ 0 \in TAs /\ 1 \in TAs
         /\ NUM_TAS = 3 => 2 \in TAs
         /\ NUM_TAS = 2 => \A t \in TAs : t = 0 \/ t = 1
         /\ NUM_TAS = 3 => \A t \in TAs : t = 0 \/ t = 1 \/ t = 2
  BY ConstantsAssumption DEF TAs

LEMMA RoundsInit ==
  ASSUME Init, NUM_TAS <= 3
  PROVE  RoundsInv
<1>1. Cursor = <<0, 0>>
  BY ConstantsAssumption DEF Init, Cursor, Someone
<1>2. \A t \in TAs : Handed(t) = <<>>
  BY DEF Init, Handed
<1>3. <<0, 0>> \in Students
  BY ListType DEF Students
<1>4. Number(Cursor) = 0
  BY <1>1, ListType DEF Number
<1>5. \A s \in Students : Given(s) = {}
  BY <1>2 DEF Given
<1>6. \A s \in Students : ~Earlier(s, Cursor)
  BY <1>1, NumberType DEF Earlier
<1>7. HandedOut = 0
  <2>1. \A t \in TAs : Len(Handed(t)) = 0
    BY <1>2
  <2>2. Len(Handed(0)) = 0 /\ Len(Handed(1)) = 0
    BY <2>1, ThreeTAs
  <2>3. (IF NUM_TAS = 3 THEN Len(Handed(2)) ELSE 0) = 0
    BY <2>1, ThreeTAs
  <2>4. HandedOut = 0 + 0 + 0
    BY <2>2, <2>3 DEF HandedOut
  <2>. QED
    BY <2>4
<1>8. 0 * total_students = 0
  BY ListType
<1>9. AfterRounds(0)
  <2>1. IsFiniteSet({}) /\ Cardinality({}) = 0
    BY FS_EmptySet
  <2>. QED
    BY <2>1, <1>4, <1>5, <1>6, <1>7, <1>8 DEF AfterRounds
<1>. QED
  BY <1>1, <1>3, <1>9 DEF RoundsInv

LEMMA RoundsStay ==
  ASSUME RoundsInv, Stays, NUM_TAS <= 3
  PROVE  RoundsInv'
<1>1. Cursor' = Cursor /\ \A t \in TAs : Handed(t)' = Handed(t)
  BY DEF Stays
<1>2. \A s : Given(s)' = Given(s)
  BY <1>1 DEF Given
<1>3. HandedOut' = HandedOut
  BY <1>1, ThreeTAs DEF HandedOut
<1>4. PICK q \in Nat : AfterRounds(q)
  BY DEF RoundsInv
<1>5. AfterRounds(q)'
  BY <1>1, <1>2, <1>3, <1>4 DEF AfterRounds, Number, Earlier, total_students
<1>. QED
  BY <1>1, <1>5 DEF RoundsInv, Students

LEMMA RoundsHandOut ==
  ASSUME TypeOK, RoundsInv, NUM_TAS <= 3, NEW t \in TAs, HandsOut(t)
  PROVE  RoundsInv'
<1> DEFINE place == <<t, Len(Handed(t)) + 1>>
<1>. PICK c \in Students : c = Cursor
  BY DEF RoundsInv
<1>1. /\ Handed(t)' = Append(Handed(t), c)
      /\ \A u \in TAs \ {t} : Handed(u)' = Handed(u)
      /\ Cursor' = Dispenser!NextCell(c)
      /\ Cursor' \in Students
  BY NextNumber DEF HandsOut
<1>2. \A u \in TAs : Handed(u) \in Seq(Records) /\ Len(Handed(u)) \in Nat
  BY HandedType
<1>3. /\ Len(Handed(t)') = Len(Handed(t)) + 1
      /\ \A j \in 1 .. Len(Handed(t)) : Handed(t)'[j] = Handed(t)[j]
      /\ Handed(t)'[Len(Handed(t)) + 1] = c
  <2>1. c \in Records
    BY <1>1 DEF Records, Reads
  <2>. QED
    BY <1>1, <1>2, <2>1, AppendProperties
<1>4. PICK q \in Nat : AfterRounds(q)
  BY DEF RoundsInv
<1>5. HandedOut' = HandedOut + 1
  <2>1. \A u \in TAs \ {t} : Len(Handed(u)') = Len(Handed(u))
    BY <1>1
  <2>2. CASE NUM_TAS = 2
    <3>1. HandedOut = Len(Handed(0)) + Len(Handed(1)) + 0
      BY <2>2 DEF HandedOut
    <3>2. HandedOut' = Len(Handed(0)') + Len(Handed(1)') + 0
      BY <2>2 DEF HandedOut
    <3>. QED
      BY <1>2, <1>3, <2>1, <2>2, <3>1, <3>2, ThreeTAs
  <2>3. CASE NUM_TAS = 3
    <3>1. HandedOut = Len(Handed(0)) + Len(Handed(1)) + Len(Handed(2))
      BY <2>3 DEF HandedOut
    <3>2. HandedOut' = Len(Handed(0)') + Len(Handed(1)') + Len(Handed(2)')
      BY <2>3 DEF HandedOut
    <3>3. 0 \in TAs /\ 1 \in TAs /\ 2 \in TAs
      BY <2>3, ThreeTAs
    <3>4. CASE t = 0
      BY <1>2, <1>3, <2>1, <3>1, <3>2, <3>3, <3>4
    <3>5. CASE t = 1
      BY <1>2, <1>3, <2>1, <3>1, <3>2, <3>3, <3>5
    <3>6. CASE t = 2
      BY <1>2, <1>3, <2>1, <3>1, <3>2, <3>3, <3>6
    <3>. QED
      BY <2>3, <3>4, <3>5, <3>6, ThreeTAs
  <2>. QED
    BY <2>2, <2>3, ThreeTAs
<1>6. place \notin Given(c) /\ Given(c)' = Given(c) \cup {place}
  <2>1. place \in TAs \X (Nat \ {0})
    BY <1>2
  <2>2. place \notin Given(c)
    BY <1>2 DEF Given
  <2>3. ASSUME NEW m \in TAs \X (Nat \ {0})
        PROVE  m \in Given(c)' <=> (m \in Given(c) \/ m = place)
    <3>1. m[1] \in TAs /\ m[2] \in Nat \ {0} /\ m = <<m[1], m[2]>>
      OBVIOUS
    <3>2. CASE m[1] # t
      BY <1>1, <3>1, <3>2 DEF Given
    <3>3. CASE m[1] = t /\ m[2] <= Len(Handed(t))
      BY <1>2, <1>3, <3>1, <3>3 DEF Given
    <3>4. CASE m[1] = t /\ m[2] = Len(Handed(t)) + 1
      BY <1>2, <1>3, <3>1, <3>4 DEF Given
    <3>5. CASE m[1] = t /\ m[2] > Len(Handed(t)) + 1
      BY <1>2, <1>3, <3>1, <3>5 DEF Given
    <3>. QED
      BY <1>2, <3>1, <3>2, <3>3, <3>4, <3>5
  <2>4. Given(c) \subseteq TAs \X (Nat \ {0}) /\ Given(c)' \subseteq TAs \X (Nat \ {0})
    BY DEF Given
  <2>. QED
    BY <2>1, <2>2, <2>3, <2>4
<1>7. ASSUME NEW s \in Students, s # c PROVE Given(s)' = Given(s)
  <2>1. ASSUME NEW m \in TAs \X (Nat \ {0})
        PROVE  m \in Given(s)' <=> m \in Given(s)
    <3>1. m[1] \in TAs /\ m[2] \in Nat \ {0}
      OBVIOUS
    <3>2. CASE m[1] # t
      BY <1>1, <3>1, <3>2 DEF Given
    <3>3. CASE m[1] = t /\ m[2] <= Len(Handed(t))
      BY <1>2, <1>3, <3>1, <3>3 DEF Given
    <3>4. CASE m[1] = t /\ m[2] = Len(Handed(t)) + 1
      BY <1>2, <1>3, <1>7, <3>1, <3>4 DEF Given
    <3>5. CASE m[1] = t /\ m[2] > Len(Handed(t)) + 1
      BY <1>2, <1>3, <3>1, <3>5 DEF Given
    <3>. QED
      BY <1>2, <3>1, <3>2, <3>3, <3>4, <3>5
  <2>2. Given(s) \subseteq TAs \X (Nat \ {0}) /\ Given(s)' \subseteq TAs \X (Nat \ {0})
    BY DEF Given
  <2>. QED
    BY <2>1, <2>2
<1>8. ASSUME NEW s \in Students
      PROVE  /\ IsFiniteSet(Given(s)')
             /\ Cardinality(Given(s)') =
                  q + (IF Earlier(s, c) THEN 1 ELSE 0) + (IF s = c THEN 1 ELSE 0)
  <2>1. /\ IsFiniteSet(Given(s))
        /\ Cardinality(Given(s)) = q + IF Earlier(s, c) THEN 1 ELSE 0
    BY <1>4 DEF AfterRounds
  <2>2. CASE s = c
    <3>1. /\ IsFiniteSet(Given(s) \cup {place})
          /\ Cardinality(Given(s) \cup {place}) = Cardinality(Given(s)) + 1
      BY <1>6, <2>1, <2>2, FS_AddElement
    <3>. QED
      BY <1>6, <2>1, <2>2, <3>1
  <2>3. CASE s # c
    BY <1>7, <2>1, <2>3
  <2>. QED
    BY <2>2, <2>3
<1>9. /\ HandedOut = q * total_students + Number(c) /\ Number(c) \in Nat
      /\ q * total_students \in Nat /\ total_students \in Nat
      /\ (q + 1) * total_students = q * total_students + total_students
  BY <1>1, <1>4, NumberType, ListType DEF AfterRounds
<1>10. \A s \in Students : ~(Earlier(s, c) /\ s = c)
  BY NumberType DEF Earlier
<1>11. CASE ~LastOfList(c)
  <2>1. /\ Number(Cursor') = Number(c) + 1
        /\ \A s \in Students : Earlier(s, Cursor') <=> (Earlier(s, c) \/ s = c)
    BY <1>1, <1>11, NextNumber
  <2>2. \A s \in Students : Cardinality(Given(s)') = q + IF Earlier(s, Cursor') THEN 1 ELSE 0
    BY <1>8, <1>10, <2>1
  <2>3. HandedOut' = q * total_students + Number(Cursor')
    BY <1>5, <1>9, <2>1
  <2>4. AfterRounds(q)'
    BY <1>8, <2>2, <2>3 DEF AfterRounds, Number, Earlier, total_students
  <2>. QED
    BY <1>1, <2>4 DEF RoundsInv, Students
<1>12. CASE LastOfList(c)
  <2>1. /\ Number(Cursor') = 0 /\ Number(c) + 1 = total_students
        /\ \A s \in Students : ~Earlier(s, Cursor') /\ (Earlier(s, c) \/ s = c)
    BY <1>1, <1>12, NextNumber
  <2>2. \A s \in Students : Cardinality(Given(s)') = (q + 1) + IF Earlier(s, Cursor') THEN 1 ELSE 0
    BY <1>8, <1>10, <2>1
  <2>3. HandedOut' = (q + 1) * total_students + Number(Cursor')
    BY <1>5, <1>9, <2>1
  <2>4. AfterRounds(q + 1)'
    BY <1>8, <2>2, <2>3 DEF AfterRounds, Number, Earlier, total_students
  <2>5. q + 1 \in Nat
    OBVIOUS
  <2>. QED
    BY <1>1, <2>4, <2>5 DEF RoundsInv, Students
<1>. QED
  BY <1>11, <1>12

(* A share of each round for each TA is every round of the list.           *)
LEMMA SharesAddUp ==
  ASSUME NUM_TAS <= 3, total_students % NUM_TAS = 0
  PROVE  NUM_TAS * target_students = NUM_ROUNDS * total_students
<1> DEFINE d == total_students \div NUM_TAS
<1>1. d \in Nat /\ NUM_TAS * d = total_students /\ NUM_ROUNDS \in Nat
  BY ThreeTAs, ListType, ConstantsAssumption, SMT
<1>2. target_students = d * NUM_ROUNDS
  BY DEF target_students
<1>3. CASE NUM_TAS = 2
  <2>1. 2 * (d * NUM_ROUNDS) = NUM_ROUNDS * (2 * d)
    <3> HIDE DEF d
    <3>. QED BY <1>1
  <2>. QED
    BY <1>1, <1>2, <1>3, <2>1
<1>4. CASE NUM_TAS = 3
  <2>1. 3 * (d * NUM_ROUNDS) = NUM_ROUNDS * (3 * d)
    <3> HIDE DEF d
    <3>. QED BY <1>1
  <2>. QED
    BY <1>1, <1>2, <1>4, <2>1
<1>. QED
  BY <1>3, <1>4, ThreeTAs

LEMMA RoundsAtEnd ==
  ASSUME DInv, RoundsInv, NUM_TAS <= 3, total_students % NUM_TAS = 0
  PROVE  RoundsComplete
<1> SUFFICES ASSUME AllDone, NEW s \in Students PROVE MarksOf(s) = NUM_ROUNDS
  BY DEF RoundsComplete
<1>1. TypeOK /\ target_students \in Nat /\ NUM_ROUNDS \in Nat
  BY TargetType, ConstantsAssumption DEF DInv, TypeInv
<1>2. \A t \in TAs : /\ Handed(t) = file[t] /\ Len(file[t]) = target_students
                     /\ file[t] \in Seq(Records)
  <2> SUFFICES ASSUME NEW t \in TAs
               PROVE  /\ Handed(t) = file[t] /\ Len(file[t]) = target_students
                      /\ file[t] \in Seq(Records)
    OBVIOUS
  <2>1. pc[t] = "done"
    BY DEF AllDone
  <2>2. Handed(t) = file[t]
    BY <2>1 DEF Handed, CursorPCs
  <2>3. Len(file[t]) = students_marked[t] + 0 /\ students_marked[t] = target_students
    BY <2>1 DEF DInv, StudentsLeft, FilesRecorded
  <2>. QED
    BY <1>1, <2>2, <2>3 DEF TypeOK
<1>3. PICK q \in Nat : AfterRounds(q)
  BY DEF RoundsInv
<1>4. HandedOut = NUM_TAS * target_students
  <2>1. \A t \in TAs : Len(Handed(t)) = target_students
    BY <1>2
  <2>2. CASE NUM_TAS = 2
    <3>1. HandedOut = Len(Handed(0)) + Len(Handed(1)) + 0
      BY <2>2 DEF HandedOut
    <3>. QED
      BY <1>1, <2>1, <2>2, <3>1, ThreeTAs
  <2>3. CASE NUM_TAS = 3
    <3>1. HandedOut = Len(Handed(0)) + Len(Handed(1)) + Len(Handed(2))
      BY <2>3 DEF HandedOut
    <3>. QED
      BY <1>1, <2>1, <2>3, <3>1, ThreeTAs
  <2>. QED
    BY <2>2, <2>3, ThreeTAs
<1>5. q * total_students + Number(Cursor) = NUM_ROUNDS * total_students
  BY <1>3, <1>4, SharesAddUp DEF AfterRounds
<1>6. Cursor \in Students /\ Number(Cursor) \in Nat /\ Number(Cursor) < total_students
  BY NumberType DEF RoundsInv
<1>7. q = NUM_ROUNDS /\ Number(Cursor) = 0
  BY <1>1, <1>5, <1>6, ListType, Multiples
<1>8. Cursor[1] = 0 /\ Cursor[2] = 0
  <2>1. Cursor[1] \in Nat /\ Cursor[2] \in Nat
    BY <1>6, NumberType, ListType
  <2>2. Cursor[1] * STUDENTS_PER_LINE \in Nat
    BY <2>1, ListType
  <2>3. Cursor[2] = 0 /\ Cursor[1] * STUDENTS_PER_LINE = 0
    BY <1>7, <2>1, <2>2 DEF Number
  <2>4. Cursor[1] * 1 <= Cursor[1] * STUDENTS_PER_LINE
    <3>1. 1 * Cursor[1] <= STUDENTS_PER_LINE * Cursor[1]
      BY <2>1, ListType, Monotone
    <3>2. STUDENTS_PER_LINE * Cursor[1] = Cursor[1] * STUDENTS_PER_LINE
      BY <2>1, ListType
    <3>. QED
      BY <2>1, <3>1, <3>2
  <2>. QED
    BY <2>1, <2>3, <2>4
<1>9. ~Earlier(s, Cursor)
  BY <1>8, NumberType DEF Earlier
<1>10. Cardinality(Given(s)) = NUM_ROUNDS
  BY <1>1, <1>3, <1>7, <1>9 DEF AfterRounds
<1>11. {m \in TAs \X (1 .. target_students + 1) :
          m[2] \in DOMAIN file[m[1]] /\ file[m[1]][m[2]] = s} = Given(s)
  <2>1. \A t \in TAs : DOMAIN file[t] = 1 .. target_students
    BY <1>2, LenProperties
  <2>. QED
    BY <1>1, <1>2, <2>1 DEF Given
<1>. QED
  BY <1>10, <1>11 DEF MarksOf

(* With at most three TAs that share the list evenly, and files that open, *)
(* part2.c marks every student exactly NUM_ROUNDS times, whatever the      *)
(* length of the list; for the program's five TAs a run shows that it does *)
(* not.                                                                    *)
THEOREM EveryStudentEveryRound ==
  NUM_TAS <= 3 /\ FailingFiles = {} /\ total_students % NUM_TAS = 0
    => (Spec => []RoundsComplete)
<1> SUFFICES ASSUME NUM_TAS <= 3, FailingFiles = {}, total_students % NUM_TAS = 0
             PROVE  Spec => []RoundsComplete
  OBVIOUS
<1>1. Init => RoundsInv
  BY RoundsInit
<1>2. DInv /\ RoundsInv /\ [Next]_vars => RoundsInv'
  <2>1. DInv => TypeOK
    BY DEF DInv, TypeInv
  <2>. QED
    BY <2>1, StepsOfDispenser, RoundsStay, RoundsHandOut
<1>3. DInv /\ [Next]_vars => DInv'
  BY DInvStep
<1>4. DInv /\ RoundsInv => RoundsComplete
  BY RoundsAtEnd
<1>. QED
  BY <1>1, <1>2, <1>3, <1>4, DInvInit, PTL DEF Spec

=============================================================================
