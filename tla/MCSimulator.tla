---------------------------- MODULE MCSimulator ----------------------------
(***************************************************************************)
(* Instances of Simulator for TLC; the inputs are in SchedulerInputs.  Two *)
(* history variables: for each process, the ticks it has been in the ready *)
(* queue since it entered it, and the units it has run since it was last   *)
(* dispatched.                                                             *)
(***************************************************************************)
EXTENDS Simulator, SchedulerInputs

VARIABLES waited, used

mcvars == <<vars, waited, used>>

(* The longest a process may wait under round robin, one quantum for every *)
(* other process; `waited` counts to one more.                             *)
WaitLimit == (Len(job) - 1) * RR_QUANTUM

InitMC ==
  /\ InitSimulator
  /\ waited = [p \in Procs |-> 0]
  /\ used = [p \in Procs |-> 0]

NextMC ==
  /\ NextSimulator
  /\ IF TYPE = "RR"
     THEN /\ waited' = [p \in Procs |->
                          IF state'[p] # "READY" THEN 0
                          ELSE IF pc = "advance" /\ waited[p] <= WaitLimit THEN waited[p] + 1
                          ELSE waited[p]]
          /\ used' = [p \in Procs |->
                        IF state[p] = "READY" THEN 0
                        ELSE IF pc = "execute" /\ p = running_process THEN used[p] + 1
                        ELSE used[p]]
     ELSE UNCHANGED <<waited, used>>

SpecMC == InitMC /\ [][NextMC]_mcvars /\ WF_mcvars(NextMC)

(* round_robin.c: no starvation.  A process that queues up is on the       *)
(* processor again after at most one quantum for every other process.      *)
BoundedWaiting ==
  \A p \in Procs : waited[p] <= WaitLimit

(* round_robin.c: a process that is put back by the scheduler has had a    *)
(* whole quantum of its own; nobody's quantum is charged to somebody else. *)
WholeQuantum ==
  [][TYPE = "RR" => \A p \in Procs :
       state[p] = "RUNNING" /\ state'[p] = "READY" => used'[p] = RR_QUANTUM]_mcvars

=============================================================================
