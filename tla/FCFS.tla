-------------------------------- MODULE FCFS --------------------------------
(***************************************************************************)
(* Assignment3/src/fcfs.c: run_fcfs.  Arrivals join the tail of the ready  *)
(* queue, the head runs until it asks for I/O or terminates.               *)
(***************************************************************************)
EXTENDS Scheduler

NextFCFS ==
  \/ \E p \in Procs : Admit(p, Append(ready_queue, p))
  \/ Arrivals
  \/ Wake \/ StillBlocked \/ IODone("select")
  \/ Dispatch("execute") \/ NoDispatch("execute")
  \/ \E p \in Procs : \/ Block(p, "advance")
                      \/ Complete(p, "advance")
                      \/ KeepRunning(p, "advance")
  \/ Idle("advance")
  \/ Advance
  \/ Terminated

=============================================================================
