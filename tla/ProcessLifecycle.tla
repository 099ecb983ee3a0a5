-------------------------- MODULE ProcessLifecycle --------------------------
(***************************************************************************)
(* What the schedulers of Assignment3/src promise to a process, with no    *)
(* queues and no clock: the five-state model with one processor and fixed  *)
(* memory partitions.  A process that is admitted owns one partition, the  *)
(* best fit at that moment, until it terminates.                           *)
(***************************************************************************)
EXTENDS Integers, Sequences

CONSTANT sizes  \* sizes of the memory partitions

VARIABLES
  job,          \* the processes of the input, a sequence that never changes
  preemptive,   \* may a running process be put back? never changes either
  state,        \* per process: its state
  owner         \* per partition: the process in it, 0 if it is free

lvars == <<job, preemptive, state, owner>>

fixed == <<job, preemptive>>

Procs == 1 .. Len(job)
Partitions == 1 .. Len(sizes)

Init ==
  /\ preemptive \in BOOLEAN
  /\ state = [p \in Procs |-> "NEW"]
  /\ owner = [m \in Partitions |-> 0]

Move(p, from, to) == state[p] = from /\ state' = [state EXCEPT ![p] = to]

Fits(p, m) == owner[m] = 0 /\ sizes[m] >= job[p].memory_size

Admit(p, m) ==
  /\ Move(p, "NEW", "READY")
  /\ Fits(p, m)
  /\ \A n \in Partitions : Fits(p, n) => sizes[m] <= sizes[n]
  /\ owner' = [owner EXCEPT ![m] = p]
  /\ UNCHANGED fixed

Dispatch(p) ==
  /\ \A q \in Procs : state[q] # "RUNNING"
  /\ Move(p, "READY", "RUNNING")
  /\ UNCHANGED <<fixed, owner>>

Preempt(p) ==
  /\ preemptive
  /\ Move(p, "RUNNING", "READY")
  /\ UNCHANGED <<fixed, owner>>

Block(p) == Move(p, "RUNNING", "WAITING") /\ UNCHANGED <<fixed, owner>>

Wake(p) == Move(p, "WAITING", "READY") /\ UNCHANGED <<fixed, owner>>

Exit(p) ==
  /\ Move(p, "RUNNING", "TERMINATED")
  /\ \E m \in Partitions : owner[m] = p /\ owner' = [owner EXCEPT ![m] = 0]
  /\ UNCHANGED fixed

Next ==
  \E p \in Procs :
    \/ \E m \in Partitions : Admit(p, m)
    \/ Dispatch(p) \/ Preempt(p) \/ Block(p) \/ Wake(p) \/ Exit(p)

Spec == Init /\ [][Next]_lvars

=============================================================================
