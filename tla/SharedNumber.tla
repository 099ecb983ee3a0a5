--------------------------- MODULE SharedNumber ---------------------------
(***************************************************************************)
(* Assignment2/part2/main.c: process 1 puts random numbers into a shared   *)
(* segment and process 2 looks at them, each under one System V semaphore, *)
(* until the number is 0.  Every read of a field that the other process    *)
(* writes is a step of its own.                                            *)
(***************************************************************************)
EXTENDS Integers

CONSTANTS
  Numbers,      \* what rand() % 11 may give
  ACTIVATION    \* a smaller number activates process 2

ASSUME NumbersAssumption == Numbers \subseteq Nat /\ 0 \in Numbers /\ ACTIVATION \in Nat

VARIABLES
  sem,               \* value of the semaphore
  random_number,     \* the shared segment
  process2_active,
  p1,                \* next step of process 1, the parent
  p2,                \* next step of process 2, the child
  shown              \* the value that process 2 has printed since it took the semaphore

vars == <<sem, random_number, process2_active, p1, p2, shown>>

Init ==
  /\ sem = 1
  /\ random_number = -1
  /\ process2_active = 0
  /\ p1 = "fork" /\ p2 = "unborn"
  /\ shown = -1

(* fork: when it fails the parent plays process 1 alone.                   *)
Fork ==
  /\ p1 = "fork"
  /\ p1' = "wait"
  /\ p2' \in {"wait", "unborn"}
  /\ UNCHANGED <<sem, random_number, process2_active, shown>>

-----------------------------------------------------------------------------
(* process1                                                                *)
Wait1 ==
  /\ p1 = "wait" /\ sem > 0
  /\ sem' = sem - 1
  /\ p1' = "generate"
  /\ UNCHANGED <<random_number, process2_active, p2, shown>>

Generate ==
  /\ p1 = "generate"
  /\ random_number' \in Numbers
  /\ p1' = "activate"
  /\ UNCHANGED <<sem, process2_active, p2, shown>>

Activate ==
  /\ p1 = "activate"
  /\ process2_active' = IF random_number < ACTIVATION THEN 1 ELSE process2_active
  /\ p1' = "signal"
  /\ UNCHANGED <<sem, random_number, p2, shown>>

Signal1 ==
  /\ p1 = "signal"
  /\ sem' = sem + 1
  /\ p1' = "check"
  /\ UNCHANGED <<random_number, process2_active, p2, shown>>

(* The number is looked at again, without the semaphore.                   *)
Check ==
  /\ p1 = "check"
  /\ p1' = IF random_number = 0 THEN "reap" ELSE "wait"
  /\ UNCHANGED <<sem, random_number, process2_active, p2, shown>>

(* Mutant: the parent does not wait for its child.                         *)
ReapNobody ==
  /\ p1 = "reap"
  /\ p1' = "remove"
  /\ UNCHANGED <<sem, random_number, process2_active, p2, shown>>

(* wait returns when the child has exited, or at once if there is none.    *)
Reap ==
  /\ p1 = "reap" /\ p2 \in {"exited", "unborn"}
  /\ p1' = "remove"
  /\ UNCHANGED <<sem, random_number, process2_active, p2, shown>>

(* shmdt, shmctl and semctl: when p1 is "done", both are removed.          *)
Remove ==
  /\ p1 = "remove"
  /\ p1' = "done"
  /\ UNCHANGED <<sem, random_number, process2_active, p2, shown>>

process1 ==
  Fork \/ Wait1 \/ Generate \/ Activate \/ Signal1 \/ Check \/ Reap \/ Remove

-----------------------------------------------------------------------------
(* process2                                                                *)

(* Mutant: process 2 goes on as if it had the semaphore.                   *)
Wait2Ignored ==
  /\ p2 = "wait"
  /\ p2' = "look"
  /\ UNCHANGED <<sem, random_number, process2_active, p1, shown>>

Wait2 ==
  /\ p2 = "wait" /\ sem > 0
  /\ sem' = sem - 1
  /\ p2' = "look"
  /\ UNCHANGED <<random_number, process2_active, p1, shown>>

(* It looks whether it is active: one print or the other.                  *)
Look ==
  /\ p2 = "look"
  /\ p2' = IF process2_active = 0 THEN "show" ELSE "show_active"
  /\ UNCHANGED <<sem, random_number, process2_active, p1, shown>>

(* It prints the number, and if it is active goes on to say what it is.    *)
Show ==
  /\ p2 \in {"show", "show_active"}
  /\ shown' = random_number
  /\ p2' = IF p2 = "show" THEN "test" ELSE "classify"
  /\ UNCHANGED <<sem, random_number, process2_active, p1>>

Classify ==
  /\ p2 = "classify"
  /\ p2' = "test"
  /\ UNCHANGED <<sem, random_number, process2_active, p1, shown>>

(* Mutants: any number that activates it ends process 2; process 2 goes on *)
(* after a 0.                                                              *)
TestLow ==
  /\ p2 = "test"
  /\ p2' = IF random_number < ACTIVATION THEN "signal_and_exit" ELSE "signal"
  /\ UNCHANGED <<sem, random_number, process2_active, p1, shown>>

Signal2Always ==
  /\ p2 \in {"signal", "signal_and_exit"}
  /\ sem' = sem + 1
  /\ p2' = "wait"
  /\ shown' = -1
  /\ UNCHANGED <<random_number, process2_active, p1>>

Test ==
  /\ p2 = "test"
  /\ p2' = IF random_number = 0 THEN "signal_and_exit" ELSE "signal"
  /\ UNCHANGED <<sem, random_number, process2_active, p1, shown>>

Signal2 ==
  /\ p2 \in {"signal", "signal_and_exit"}
  /\ sem' = sem + 1
  /\ p2' = IF p2 = "signal" THEN "wait" ELSE "exited"
  /\ shown' = -1
  /\ UNCHANGED <<random_number, process2_active, p1>>

process2 == Wait2 \/ Look \/ Show \/ Classify \/ Test \/ Signal2

-----------------------------------------------------------------------------
Finished == p1 = "done" /\ p2 \in {"exited", "unborn"}

Terminated == Finished /\ UNCHANGED vars

Next == process1 \/ process2 \/ Terminated

(* Both processes are given the processor again and again; no order among  *)
(* those that wait for the semaphore is assumed.                           *)
Spec == Init /\ [][Next]_vars /\ WF_vars(process1) /\ WF_vars(process2)

-----------------------------------------------------------------------------
Inside1 == p1 \in {"generate", "activate", "signal"}
Inside2 ==
  p2 \in {"look", "show", "show_active", "classify", "test", "signal", "signal_and_exit"}

(* Every variable has its type.                                            *)
TypeOK ==
  /\ sem \in {0, 1}
  /\ random_number \in Numbers \cup {-1}
  /\ process2_active \in {0, 1}
  /\ p1 \in {"fork", "wait", "generate", "activate", "signal", "check",
             "reap", "remove", "done"}
  /\ p2 \in {"unborn", "wait", "look", "show", "show_active", "classify", "test",
             "signal", "signal_and_exit", "exited"}
  /\ shown \in Numbers \cup {-1}

(* The value that process 2 prints, the one it calls high or low, and the  *)
(* one it tests for 0 are the same, although each is a read of its own.    *)
OneValuePerVisit ==
  p2 \in {"classify", "test", "signal", "signal_and_exit"} => shown = random_number

(* The two processes end on the same number: process 2 leaves only when    *)
(* process 1 will not generate another one.                                *)
EndTogether ==
  p2 \in {"signal_and_exit", "exited"} =>
    random_number = 0 /\ p1 \notin {"fork", "wait", "generate"}

(* Process 2 never uses a semaphore or a segment that has been removed.    *)
RemovedAfterUse == p1 = "done" => p2 \in {"exited", "unborn"}

(* A 0 ends both processes.                                                *)
ZeroEnds == random_number = 0 ~> Finished

=============================================================================
