----------------------------- MODULE Simulator -----------------------------
(***************************************************************************)
(* Assignment3/src/main.c: the program runs one of the three schedulers,   *)
(* TYPE, on one input.  The properties of the whole program are here.      *)
(***************************************************************************)
EXTENDS FCFS, RoundRobin, Priority

CONSTANT
  Types   \* the schedulers that may be asked for: "FCFS", "RR", "EP"

ASSUME SimulatorAssumption ==
  /\ Types \subseteq {"FCFS", "RR", "EP"}
  /\ RR_QUANTUM \in Nat \ {0}

VARIABLE TYPE   \* the scheduler asked for

vars == <<svars, TYPE, time_in_quantum>>

InitSimulator ==
  /\ TYPE \in Types
  /\ InitRR

NextSimulator ==
  /\ \/ TYPE = "FCFS" /\ NextFCFS /\ UNCHANGED time_in_quantum
     \/ TYPE = "RR" /\ NextRR
     \/ TYPE = "EP" /\ NextPriority /\ UNCHANGED time_in_quantum
  /\ UNCHANGED TYPE

Spec == InitSimulator /\ [][NextSimulator]_vars /\ WF_vars(NextSimulator)

-----------------------------------------------------------------------------

(* fcfs.c: a process that arrived earlier, or on an earlier line, and was  *)
(* admitted runs before a later one does; nobody overtakes a process on    *)
(* its first way through the ready queue.                                  *)
FirstComeFirstServed ==
  TYPE = "FCFS" =>
    \A p, q \in Procs :
      /\ \/ job[p].arrival_time < job[q].arrival_time
         \/ job[p].arrival_time = job[q].arrival_time /\ p < q
      /\ state[p] # "NEW"
      /\ remaining_cpu_time[q] # job[q].total_cpu_time
      => remaining_cpu_time[p] # job[p].total_cpu_time \/ state[p] = "RUNNING"

(* priority.c: a process that gives way does so to one of higher priority; *)
(* when pids grow with the lines of the input, the queue it is put back    *)
(* into starts with that one.                                              *)
GivesWayToHigher ==
  [][TYPE = "EP" => \A p \in Procs :
       state[p] = "RUNNING" /\ state'[p] = "READY" =>
         ready_queue' # <<>> /\ priority(Head(ready_queue')) < priority(p)]_vars

(* priority.c: the process that is dispatched has the highest priority of  *)
(* all that are ready.                                                     *)
HighestDispatched ==
  [][TYPE = "EP" => \A p \in Procs :
       state[p] = "READY" /\ state'[p] = "RUNNING" =>
         \A q \in ToSet(ready_queue') : priority(p) < priority(q)]_vars

LC == INSTANCE ProcessLifecycle WITH owner <- Owner, preemptive <- TYPE # "FCFS"

(* Seen through the states of the processes and the owners of the          *)
(* partitions, each scheduler is the five-state model, and run_fcfs the    *)
(* one without preemption.                                                 *)
ImplementsLifecycle == LC!Spec

=============================================================================
