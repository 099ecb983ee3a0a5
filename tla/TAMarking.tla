----------------------------- MODULE TAMarking -----------------------------
(***************************************************************************)
(* Assignment3/part2/part2.c: NUM_TAS teaching assistants (forked          *)
(* processes) share a student list and a cursor (current_line,             *)
(* current_pos) in an anonymous shared mapping.  Before it reads and moves *)
(* the cursor, TA t takes its own semaphore and its neighbour's, the lower *)
(* number first, both with sem_trywait.                                    *)
(*                                                                         *)
(* Every access to the shared cursor is a step of its own: the accesses    *)
(* are plain int loads and stores, and the semaphores of two TAs that are  *)
(* not neighbours do not exclude each other.                               *)
(***************************************************************************)
EXTENDS Integers, Sequences, FiniteSets

CONSTANTS
  NUM_TAS,            \* forked teaching assistants, and semaphores
  NUM_LINES,          \* lines of the student list
  STUDENTS_PER_LINE,  \* students on a line
  NUM_ROUNDS,         \* rounds of the list
  MAX_RETRIES,        \* attempts of one acquire_semaphores_safely call
  MIN_BACKOFF_TIME,   \* first bound of the random sleep after a failure
  MAX_BACKOFF_TIME,   \* largest bound of that sleep
  INT_MAX,            \* largest int
  FailingFiles        \* the TAs for which fopen of the mark file may fail

ASSUME ConstantsAssumption ==
  /\ NUM_TAS \in Nat /\ NUM_TAS >= 2        \* with one TA both semaphores are the same
  /\ NUM_LINES \in Nat \ {0}
  /\ STUDENTS_PER_LINE \in Nat \ {0}
  /\ NUM_ROUNDS \in Nat
  /\ MAX_RETRIES \in Nat \ {0}
  /\ MIN_BACKOFF_TIME \in Nat \ {0}
  /\ MAX_BACKOFF_TIME \in Nat \ {0}
  /\ INT_MAX \in Nat
  /\ FailingFiles \subseteq 0 .. NUM_TAS - 1

(* MIN_BACKOFF_TIME * (1 << retries) is an int: it never overflows.        *)
ASSUME BackoffFits ==
  \A n \in 0 .. MAX_RETRIES - 1 : MIN_BACKOFF_TIME * 2 ^ n \in 0 .. INT_MAX

VARIABLES
  sem,               \* value of each named semaphore
  current_line,      \* the shared cursor: line ...
  current_pos,       \* ... and position on the line
  students_marked,   \* per TA: students counted so far (shared, written by its owner)
  file,              \* per TA: the students recorded in TA<t+1>.txt
  pc,                \* per TA: the next step
  reg,               \* per TA: the register that carries a loaded cursor field
  student_num,       \* per TA: the student read from the list
  retries,           \* per TA: failed attempts of the current call
  backoff_time,      \* per TA: last sleep bound since it last held both semaphores, 0 if none
  parent,            \* the parent: what it does next ...
  child              \* ... and for which child

taVars == <<pc, reg, student_num, retries, backoff_time>>
vars == <<sem, current_line, current_pos, students_marked, file, taVars, parent, child>>

TAs == 0 .. NUM_TAS - 1

(***************************************************************************)
(* A student is the cell <<line, position>> of student_list.  The array is *)
(* row-major, so a position past the end of a line reads a later line;     *)
(* past the last line it reads the fields behind the array: no student.    *)
(***************************************************************************)
Students == (0 .. NUM_LINES - 1) \X (0 .. STUDENTS_PER_LINE - 1)

NoStudent == <<-1, -1>>

(* A line that an earlier run left in a TA's file.                         *)
OldRecord == <<-2, -2>>

Reads   == Students \cup {NoStudent}
Records == Reads \cup {OldRecord}

StudentAt(line, pos) ==
  LET row == line + pos \div STUDENTS_PER_LINE
  IN  IF row < NUM_LINES THEN <<row, pos % STUDENTS_PER_LINE>> ELSE NoStudent

total_students == NUM_LINES * STUDENTS_PER_LINE

target_students == (total_students \div NUM_TAS) * NUM_ROUNDS

(***************************************************************************)
(* The two semaphores of a TA, in the order in which they are taken.       *)
(***************************************************************************)
Neighbour(t) == (t + 1) % NUM_TAS
FirstSem(t)  == IF t > Neighbour(t) THEN Neighbour(t) ELSE t
SecondSem(t) == IF t > Neighbour(t) THEN t ELSE Neighbour(t)

BackoffTime(n) ==
  LET doubled == MIN_BACKOFF_TIME * 2 ^ n
  IN  IF doubled > MAX_BACKOFF_TIME THEN MAX_BACKOFF_TIME ELSE doubled

(* Mutant: <= for <.                                                       *)
LoopTestOneMore(marked) == IF marked <= target_students THEN "try_first" ELSE "done"

(* The test of the marking loop, made with the given count.                *)
LoopTest(marked) == IF marked < target_students THEN "try_first" ELSE "done"

Goto(t, from, to) == pc[t] = from /\ pc' = [pc EXCEPT ![t] = to]

-----------------------------------------------------------------------------

Init ==
  /\ sem = [s \in TAs |-> 1]
  /\ current_line = 0
  /\ current_pos = 0
  /\ students_marked = [t \in TAs |-> 0]
  /\ file = [t \in TAs |-> <<OldRecord>>]
  /\ pc = [t \in TAs |-> "unborn"]
  /\ reg = [t \in TAs |-> 0]
  /\ student_num = [t \in TAs |-> NoStudent]
  /\ retries = [t \in TAs |-> 0]
  /\ backoff_time = [t \in TAs |-> 0]
  /\ parent = "fork"
  /\ child = 0

(***************************************************************************)
(* The parent: forks the children in order, waits for each, cleans up.  A  *)
(* failed fork makes it exit at once and leave the children it has.        *)
(***************************************************************************)
Fork ==
  /\ parent = "fork"
  /\ pc' = [pc EXCEPT ![child] = "start"]
  /\ IF child + 1 < NUM_TAS
     THEN child' = child + 1 /\ UNCHANGED parent
     ELSE child' = 0 /\ parent' = "wait"
  /\ UNCHANGED <<sem, current_line, current_pos, students_marked, file,
                 reg, student_num, retries, backoff_time>>

ForkFails ==
  /\ parent = "fork"
  /\ parent' = "failed"
  /\ UNCHANGED <<sem, current_line, current_pos, students_marked, file, taVars, child>>

(* Mutant: the loop of waitpid stops one child early.                      *)
WaitChildOneShort ==
  /\ parent = "wait" /\ pc[child] = "done"
  /\ IF child + 2 < NUM_TAS
     THEN child' = child + 1 /\ UNCHANGED parent
     ELSE parent' = "cleaned_up" /\ UNCHANGED child
  /\ UNCHANGED <<sem, current_line, current_pos, students_marked, file, taVars>>

WaitChild ==
  /\ parent = "wait" /\ pc[child] = "done"
  /\ IF child + 1 < NUM_TAS
     THEN child' = child + 1 /\ UNCHANGED parent
     ELSE parent' = "cleaned_up" /\ UNCHANGED child
  /\ UNCHANGED <<sem, current_line, current_pos, students_marked, file, taVars>>

(* Mutant: the file of an earlier run is kept.                             *)
StartKeepsFile(t) ==
  /\ Goto(t, "start", LoopTest(students_marked[t]))
  /\ UNCHANGED <<sem, current_line, current_pos, students_marked, file,
                 reg, student_num, retries, backoff_time, parent, child>>

(***************************************************************************)
(* A TA truncates its file (or fails to) and enters the loop.              *)
(***************************************************************************)
Start(t) ==
  /\ Goto(t, "start", LoopTest(students_marked[t]))
  /\ \/ file' = [file EXCEPT ![t] = <<>>]
     \/ t \in FailingFiles /\ UNCHANGED file
  /\ UNCHANGED <<sem, current_line, current_pos, students_marked,
                 reg, student_num, retries, backoff_time, parent, child>>

(***************************************************************************)
(* acquire_semaphores_safely.                                              *)
(***************************************************************************)
TakeFirst(t) ==
  /\ sem[FirstSem(t)] > 0
  /\ Goto(t, "try_first", "try_second")
  /\ sem' = [sem EXCEPT ![FirstSem(t)] = @ - 1]
  /\ UNCHANGED <<current_line, current_pos, students_marked, file,
                 reg, student_num, retries, backoff_time, parent, child>>

MissFirst(t) ==
  /\ sem[FirstSem(t)] = 0
  /\ Goto(t, "try_first", "backoff")
  /\ UNCHANGED <<sem, current_line, current_pos, students_marked, file,
                 reg, student_num, retries, backoff_time, parent, child>>

TakeSecond(t) ==
  /\ sem[SecondSem(t)] > 0
  /\ Goto(t, "try_second", "read_line")
  /\ sem' = [sem EXCEPT ![SecondSem(t)] = @ - 1]
  /\ retries' = [retries EXCEPT ![t] = 0]
  /\ backoff_time' = [backoff_time EXCEPT ![t] = 0]
  /\ UNCHANGED <<current_line, current_pos, students_marked, file,
                 reg, student_num, parent, child>>

(* Mutant: the result of the second sem_trywait is not looked at.          *)
MissSecondUnseen(t) ==
  /\ sem[SecondSem(t)] = 0
  /\ Goto(t, "try_second", "read_line")
  /\ UNCHANGED <<sem, current_line, current_pos, students_marked, file,
                 reg, student_num, retries, backoff_time, parent, child>>

MissSecond(t) ==
  /\ sem[SecondSem(t)] = 0
  /\ Goto(t, "try_second", "undo_first")
  /\ UNCHANGED <<sem, current_line, current_pos, students_marked, file,
                 reg, student_num, retries, backoff_time, parent, child>>

(* Mutants: the first semaphore is kept; the other one is posted.          *)
UndoFirstForgotten(t) ==
  /\ Goto(t, "undo_first", "backoff")
  /\ UNCHANGED <<sem, current_line, current_pos, students_marked, file,
                 reg, student_num, retries, backoff_time, parent, child>>

UndoSecond(t) ==
  /\ Goto(t, "undo_first", "backoff")
  /\ sem' = [sem EXCEPT ![SecondSem(t)] = @ + 1]
  /\ UNCHANGED <<current_line, current_pos, students_marked, file,
                 reg, student_num, retries, backoff_time, parent, child>>

UndoFirst(t) ==
  /\ Goto(t, "undo_first", "backoff")
  /\ sem' = [sem EXCEPT ![FirstSem(t)] = @ + 1]
  /\ UNCHANGED <<current_line, current_pos, students_marked, file,
                 reg, student_num, retries, backoff_time, parent, child>>

(* The random sleep, bounded by backoff_time; the call gives up after      *)
(* MAX_RETRIES attempts.                                                   *)
Backoff(t) ==
  /\ Goto(t, "backoff", IF retries[t] + 1 < MAX_RETRIES THEN "try_first" ELSE "give_up")
  /\ backoff_time' = [backoff_time EXCEPT ![t] = BackoffTime(retries[t])]
  /\ retries' = [retries EXCEPT ![t] = @ + 1]
  /\ UNCHANGED <<sem, current_line, current_pos, students_marked, file,
                 reg, student_num, parent, child>>

(* The caller sleeps and calls again, with a fresh retry counter.          *)
GiveUp(t) ==
  /\ Goto(t, "give_up", "try_first")
  /\ retries' = [retries EXCEPT ![t] = 0]
  /\ UNCHANGED <<sem, current_line, current_pos, students_marked, file,
                 reg, student_num, backoff_time, parent, child>>

(***************************************************************************)
(* With both semaphores: read student_list[current_line][current_pos],     *)
(* then advance the cursor, one shared access per step.                    *)
(***************************************************************************)
ReadLine(t) ==
  /\ Goto(t, "read_line", "read_pos")
  /\ reg' = [reg EXCEPT ![t] = current_line]
  /\ UNCHANGED <<sem, current_line, current_pos, students_marked, file,
                 student_num, retries, backoff_time, parent, child>>

ReadStudent(t) ==
  /\ Goto(t, "read_pos", "load_pos")
  /\ student_num' = [student_num EXCEPT ![t] = StudentAt(reg[t], current_pos)]
  /\ UNCHANGED <<sem, current_line, current_pos, students_marked, file,
                 reg, retries, backoff_time, parent, child>>

LoadPos(t) ==
  /\ Goto(t, "load_pos", "store_pos")
  /\ reg' = [reg EXCEPT ![t] = current_pos]
  /\ UNCHANGED <<sem, current_line, current_pos, students_marked, file,
                 student_num, retries, backoff_time, parent, child>>

StorePos(t) ==
  /\ Goto(t, "store_pos", "check_pos")
  /\ current_pos' = reg[t] + 1
  /\ UNCHANGED <<sem, current_line, students_marked, file,
                 reg, student_num, retries, backoff_time, parent, child>>

(* Mutant: > for >=.                                                       *)
CheckPosOneLate(t) ==
  /\ Goto(t, "check_pos",
          IF current_pos > STUDENTS_PER_LINE THEN "reset_pos" ELSE "post_second")
  /\ UNCHANGED <<sem, current_line, current_pos, students_marked, file,
                 reg, student_num, retries, backoff_time, parent, child>>

CheckPos(t) ==
  /\ Goto(t, "check_pos",
          IF current_pos >= STUDENTS_PER_LINE THEN "reset_pos" ELSE "post_second")
  /\ UNCHANGED <<sem, current_line, current_pos, students_marked, file,
                 reg, student_num, retries, backoff_time, parent, child>>

ResetPos(t) ==
  /\ Goto(t, "reset_pos", "load_line")
  /\ current_pos' = 0
  /\ UNCHANGED <<sem, current_line, students_marked, file,
                 reg, student_num, retries, backoff_time, parent, child>>

LoadLine(t) ==
  /\ Goto(t, "load_line", "store_line")
  /\ reg' = [reg EXCEPT ![t] = current_line]
  /\ UNCHANGED <<sem, current_line, current_pos, students_marked, file,
                 student_num, retries, backoff_time, parent, child>>

(* Mutant: the line does not wrap around.                                  *)
StoreLineNoWrap(t) ==
  /\ Goto(t, "store_line", "post_second")
  /\ current_line' = reg[t] + 1
  /\ UNCHANGED <<sem, current_pos, students_marked, file,
                 reg, student_num, retries, backoff_time, parent, child>>

StoreLine(t) ==
  /\ Goto(t, "store_line", "post_second")
  /\ current_line' = (reg[t] + 1) % NUM_LINES
  /\ UNCHANGED <<sem, current_pos, students_marked, file,
                 reg, student_num, retries, backoff_time, parent, child>>

(* Mutant: the pair is not ordered before it is released.                  *)
PostNeighbour(t) ==
  /\ Goto(t, "post_second", "post_first")
  /\ sem' = [sem EXCEPT ![Neighbour(t)] = @ + 1]
  /\ reg' = [reg EXCEPT ![t] = 0]
  /\ UNCHANGED <<current_line, current_pos, students_marked, file,
                 student_num, retries, backoff_time, parent, child>>

(* The semaphores are released in the reverse order; reg is dead here.     *)
PostSecond(t) ==
  /\ Goto(t, "post_second", "post_first")
  /\ sem' = [sem EXCEPT ![SecondSem(t)] = @ + 1]
  /\ reg' = [reg EXCEPT ![t] = 0]
  /\ UNCHANGED <<current_line, current_pos, students_marked, file,
                 student_num, retries, backoff_time, parent, child>>

(* Mutant: only one of the two semaphores is released.                     *)
PostFirstForgotten(t) ==
  /\ Goto(t, "post_first", "write")
  /\ UNCHANGED <<sem, current_line, current_pos, students_marked, file,
                 reg, student_num, retries, backoff_time, parent, child>>

PostFirst(t) ==
  /\ Goto(t, "post_first", "write")
  /\ sem' = [sem EXCEPT ![FirstSem(t)] = @ + 1]
  /\ UNCHANGED <<current_line, current_pos, students_marked, file,
                 reg, student_num, retries, backoff_time, parent, child>>

(***************************************************************************)
(* Outside the semaphores: record the mark, then count it.  A file that    *)
(* cannot be opened is passed over without a word.                         *)
(***************************************************************************)
WriteMark(t) ==
  /\ Goto(t, "write", "count")
  /\ \/ file' = [file EXCEPT ![t] = Append(@, student_num[t])]
     \/ t \in FailingFiles /\ UNCHANGED file
  /\ UNCHANGED <<sem, current_line, current_pos, students_marked,
                 reg, student_num, retries, backoff_time, parent, child>>

CountMark(t) ==
  /\ Goto(t, "count", LoopTest(students_marked[t] + 1))
  /\ students_marked' = [students_marked EXCEPT ![t] = @ + 1]
  /\ student_num' = [student_num EXCEPT ![t] = NoStudent]
  /\ UNCHANGED <<sem, current_line, current_pos, file, reg, retries, backoff_time, parent, child>>

-----------------------------------------------------------------------------

Acquire(t) ==
  \/ TakeFirst(t) \/ MissFirst(t) \/ TakeSecond(t) \/ MissSecond(t)
  \/ UndoFirst(t) \/ Backoff(t) \/ GiveUp(t)

MoveCursor(t) ==
  \/ ReadLine(t) \/ ReadStudent(t) \/ LoadPos(t) \/ StorePos(t)
  \/ CheckPos(t) \/ ResetPos(t) \/ LoadLine(t) \/ StoreLine(t)

Release(t) == PostSecond(t) \/ PostFirst(t)

Mark(t) == WriteMark(t) \/ CountMark(t)

ta_process(t) == Start(t) \/ Acquire(t) \/ MoveCursor(t) \/ Release(t) \/ Mark(t)

Finished ==
  /\ parent \in {"cleaned_up", "failed"}
  /\ \A t \in TAs : pc[t] \in {"unborn", "done"}

(* The whole program has ended: nothing happens any more.                  *)
Terminated == Finished /\ UNCHANGED vars

Next == Fork \/ ForkFails \/ WaitChild \/ (\E t \in TAs : ta_process(t)) \/ Terminated

(***************************************************************************)
(* The operating system gives every runnable process the processor again   *)
(* and again, and every sleep ends; no TA is promised a free semaphore.    *)
(***************************************************************************)
Fairness ==
  /\ WF_vars(Fork \/ ForkFails \/ WaitChild)
  /\ \A t \in TAs : WF_vars(ta_process(t))

Spec == Init /\ [][Next]_vars /\ Fairness

-----------------------------------------------------------------------------
(***************************************************************************)
(* Properties.                                                             *)
(***************************************************************************)

CursorPCs == {"read_line", "read_pos", "load_pos", "store_pos", "check_pos",
              "reset_pos", "load_line", "store_line"}

PCs == {"unborn", "start", "try_first", "try_second", "undo_first", "backoff",
        "give_up", "post_second", "post_first", "write", "count", "done"} \cup CursorPCs

InCursor(t) == pc[t] \in CursorPCs

(* The semaphores TA t has taken and not yet posted.                       *)
Holds(t) ==
  IF pc[t] \in {"try_second", "undo_first", "post_first"} THEN {FirstSem(t)}
  ELSE IF InCursor(t) \/ pc[t] = "post_second" THEN {FirstSem(t), SecondSem(t)}
  ELSE {}

(* Every variable has its type; the line never leaves the list.            *)
TypeOK ==
  /\ sem \in [TAs -> Nat]
  /\ current_line \in 0 .. NUM_LINES - 1
  /\ current_pos \in Nat
  /\ students_marked \in [TAs -> Nat]
  /\ file \in [TAs -> Seq(Records)]
  /\ pc \in [TAs -> PCs]
  /\ reg \in [TAs -> Nat]
  /\ student_num \in [TAs -> Reads]
  /\ retries \in [TAs -> 0 .. MAX_RETRIES]
  /\ backoff_time \in [TAs -> Nat]
  /\ parent \in {"fork", "wait", "cleaned_up", "failed"}
  /\ child \in TAs

(* A semaphore's value and the program counters agree: it is 0 exactly     *)
(* when one TA is between its sem_trywait and its sem_post, so no post is  *)
(* lost or doubled on any path through acquire_semaphores_safely.          *)
SemaphoreBalance ==
  \A s \in TAs :
    \/ sem[s] = 1 /\ \A t \in TAs : s \notin Holds(t)
    \/ sem[s] = 0 /\ \E t \in TAs : /\ s \in Holds(t)
                                   /\ \A u \in TAs : s \in Holds(u) => u = t

(* Two neighbours are never at the shared cursor together, whatever the    *)
(* number of TAs: this is what the two semaphores do guarantee.            *)
NeighbourExclusion ==
  \A t, u \in TAs : u = Neighbour(t) => ~(InCursor(t) /\ InCursor(u))

(* At most one TA is between the read of the cursor and its last update:   *)
(* the critical section the cursor needs.                                  *)
MutualExclusion ==
  \A t, u \in TAs : InCursor(t) /\ InCursor(u) => t = u

AllDone == \A t \in TAs : pc[t] = "done"

MarksOf(s) ==
  Cardinality({m \in TAs \X (1 .. target_students + 1) :
                 m[2] \in DOMAIN file[m[1]] /\ file[m[1]][m[2]] = s})

(* When every TA has finished, the list has been gone through NUM_ROUNDS   *)
(* times: every student has NUM_ROUNDS marks in the TAs' files.            *)
RoundsComplete ==
  AllDone => \A s \in Students : MarksOf(s) = NUM_ROUNDS

(* A TA's file holds one record for every student it counted, and nothing  *)
(* of an earlier run (TA<n>.txt is truncated first, then appended to).     *)
MarksRecorded ==
  \A t \in TAs : pc[t] \in {"try_first", "done"} => Len(file[t]) = students_marked[t]

(* The parent removes the semaphores only when no TA can use them.         *)
CleanupAfterAll ==
  parent = "cleaned_up" => AllDone

(* No livelock: although every semaphore is only tried, never waited for,  *)
(* all the TAs that were forked finish, and so does the parent.            *)
AllFinish == <>Finished

(***************************************************************************)
(* The dispenser seen through the program.  A student is handed out when   *)
(* it is read; the cursor moves at that moment, although the program       *)
(* updates its two fields later.                                           *)
(***************************************************************************)
Someone(pcs) == \E t \in TAs : pc[t] \in pcs

Handed(t) ==
  IF pc[t] \in {"unborn", "start"} THEN <<>>
  ELSE IF pc[t] \in (CursorPCs \ {"read_line", "read_pos"})
                       \cup {"post_second", "post_first", "write"}
  THEN Append(file[t], student_num[t])
  ELSE file[t]

Cursor ==
  LET next_line == <<(current_line + 1) % NUM_LINES, 0>>
  IN  IF \/ Someone({"load_line", "store_line"})
         \/ Someone({"load_pos", "store_pos"}) /\ current_pos + 1 >= STUDENTS_PER_LINE
         \/ current_pos >= STUDENTS_PER_LINE
      THEN next_line
      ELSE <<current_line, IF Someone({"load_pos", "store_pos"})
                           THEN current_pos + 1 ELSE current_pos>>

Dispenser == INSTANCE StudentDispenser WITH
  cursor <- Cursor, handed <- [t \in TAs |-> Handed(t)]

(* Where all the TAs are neighbours of one another, the program hands out  *)
(* the list in order, every cell once per round, as the dispenser does.    *)
ImplementsDispenser == Dispenser!Spec

=============================================================================
