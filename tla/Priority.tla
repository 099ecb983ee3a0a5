------------------------------ MODULE Priority ------------------------------
(***************************************************************************)
(* Assignment3/src/priority.c: run_priority, the external-priority         *)
(* scheduler.  A process that arrives or is preempted is inserted by its   *)
(* pid; the running process gives way when the head of the ready queue has *)
(* a smaller `priority`, its line in the input.                            *)
(***************************************************************************)
EXTENDS Scheduler

(* Mutant: the process is put at the head.                                 *)
InsertAtHead(queue, p) == <<p>> \o queue

(* enqueue_process_priority: before the first process whose pid is not     *)
(* smaller.                                                                *)
InsertByPid(queue, p) ==
  LET k == CHOOSE k \in 1 .. Len(queue) + 1 :
             /\ \A j \in 1 .. k - 1 : job[queue[j]].pid < job[p].pid
             /\ k <= Len(queue) => job[queue[k]].pid >= job[p].pid
  IN  InsertAt(queue, k, p)

(* load_processes numbers the processes in the order of their lines.       *)
priority(p) == p

HeadGoesFirst(p) ==
  ready_queue # <<>> /\ priority(Head(ready_queue)) < priority(p)

(* Mutant: the process stays on the processor when it is put back.         *)
GiveWayAndRun(p) ==
  \/ /\ HeadGoesFirst(p) /\ Execute(p, "advance")
     /\ ~RequestsIO(p) /\ Left(p) # 0
     /\ ready_queue' = InsertByPid(ready_queue, p)
     /\ state' = [state EXCEPT ![p] = "READY"]
     /\ UNCHANGED <<last_io_time, completion_time, memory, blocked_queue, running_process>>
  \/ ~HeadGoesFirst(p) /\ KeepRunning(p, "advance")

(* The process runs on, unless the head of the queue goes first.           *)
RunOrGiveWay(p) ==
  \/ HeadGoesFirst(p) /\ Preempt(p, InsertByPid(ready_queue, p), "advance")
  \/ ~HeadGoesFirst(p) /\ KeepRunning(p, "advance")

(***************************************************************************)
(* The used time is taken modulo io_frequency with no test for 0, unlike   *)
(* in the two other schedulers.  The division traps, or yields a quotient  *)
(* of 0 and so never asks for I/O, as the processor has it.                *)
(***************************************************************************)
Crash(p) ==
  /\ job[p].io_frequency = 0
  /\ Execute(p, "crashed")
  /\ UNCHANGED <<state, last_io_time, completion_time, memory,
                 ready_queue, blocked_queue, running_process>>

Crashed == pc = "crashed" /\ UNCHANGED svars

NextPriority ==
  \/ \E p \in Procs : Admit(p, InsertByPid(ready_queue, p))
  \/ Arrivals
  \/ Wake \/ StillBlocked \/ IODone("select")
  \/ Dispatch("execute") \/ NoDispatch("execute")
  \/ \E p \in Procs : \/ Block(p, "advance")
                      \/ Complete(p, "advance")
                      \/ RunOrGiveWay(p)
                      \/ Crash(p)
  \/ Idle("advance")
  \/ Advance
  \/ Terminated \/ Crashed

=============================================================================
