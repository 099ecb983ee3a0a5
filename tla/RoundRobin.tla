----------------------------- MODULE RoundRobin -----------------------------
(***************************************************************************)
(* Assignment3/src/round_robin.c: run_round_robin.  The running process    *)
(* executes before a new one is selected, so a process runs for the first  *)
(* time in the tick after its dispatch; after RR_QUANTUM units it goes to  *)
(* the tail of the ready queue.                                            *)
(***************************************************************************)
EXTENDS Scheduler

CONSTANT RR_QUANTUM   \* units a process may run before it loses the processor

VARIABLE time_in_quantum   \* units the running process has run

InitRR == Init /\ time_in_quantum = 0

(* The arrivals and the I/O completions, which leave the quantum alone.    *)
BeforeExecution ==
  /\ \/ \E p \in Procs : Admit(p, Append(ready_queue, p))
     \/ Arrivals
     \/ Wake \/ StillBlocked \/ IODone("execute")
  /\ UNCHANGED time_in_quantum

BlockRR(p) == Block(p, "select") /\ time_in_quantum' = 0

CompleteRR(p) == Complete(p, "select") /\ time_in_quantum' = 0

(* Mutants: the unit just executed is not counted; or counted twice.       *)
QuantumExpiresLate == time_in_quantum >= RR_QUANTUM
QuantumExpiresEarly == time_in_quantum + 2 >= RR_QUANTUM

QuantumExpires == time_in_quantum + 1 >= RR_QUANTUM

(* Mutant: the expired process is not put back into the queue.             *)
ExpireAndLose(p) ==
  /\ QuantumExpires
  /\ Preempt(p, ready_queue, "select")
  /\ time_in_quantum' = 0

Expire(p) ==
  /\ QuantumExpires
  /\ Preempt(p, Append(ready_queue, p), "select")
  /\ time_in_quantum' = 0

KeepRunningRR(p) ==
  /\ ~QuantumExpires
  /\ KeepRunning(p, "select")
  /\ time_in_quantum' = time_in_quantum + 1

ExecuteRR == \E p \in Procs : BlockRR(p) \/ CompleteRR(p) \/ Expire(p) \/ KeepRunningRR(p)

IdleRR == Idle("select") /\ UNCHANGED time_in_quantum

Select ==
  \/ Dispatch("advance") /\ time_in_quantum' = 0
  \/ NoDispatch("advance") /\ UNCHANGED time_in_quantum

AfterExecution == (Advance \/ Terminated) /\ UNCHANGED time_in_quantum

NextRR == BeforeExecution \/ ExecuteRR \/ IdleRR \/ Select \/ AfterExecution

=============================================================================
