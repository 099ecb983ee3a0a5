----------------------------- MODULE Scheduler -----------------------------
(***************************************************************************)
(* Assignment3/src/scheduler.c and the parts that run_fcfs,                *)
(* run_round_robin and run_priority have in common: the process table, the *)
(* memory partitions, the ready and the blocked queue, and the phases of   *)
(* one clock tick.  One iteration of a loop over the table or over a queue *)
(* is one step; `pc` is the phase of the tick and `i` the loop's index.    *)
(* Arrays start at 1 here.                                                 *)
(***************************************************************************)
EXTENDS Integers, Sequences, SequencesExt

CONSTANTS
  Workloads,   \* the input files considered: sequences of processes
  sizes,       \* sizes of the memory partitions
  UINT         \* number of values of an unsigned int

uint == 0 .. UINT - 1

(* The lines of an input file.  A pid of UINT - 1 would be the int -1.     *)
Lines ==
  [pid : 0 .. UINT - 2, memory_size : Nat, arrival_time : uint,
   total_cpu_time : uint, io_frequency : uint, io_duration : uint]

ASSUME SchedulerAssumption ==
  /\ UINT \in Nat \ {0}
  /\ sizes \in Seq(0 .. 127)   \* the search for a partition starts from 128
  /\ Workloads \subseteq Seq(Lines)

VARIABLES
  job,                 \* pcb_table: the fields read from the input, never written again
  current_time,        \* the clock
  state,               \* pcb_table: state ...
  remaining_cpu_time,  \* ... and the other fields of each process
  last_io_time,
  partition_number,    \* the process's partition, 0 for none
  completion_time,
  first_run_time,
  occupied_by,         \* memory_partitions: pid of the process in each, or FREE
  ready_queue,
  blocked_queue,
  running_process,     \* the process on the processor, or NULL
  pc,                  \* phase of the tick
  i,                   \* index of the loop in that phase
  looked_at,           \* find_memory_partition: partitions looked at so far,
  best_fit,            \* the best of them, 0 for none,
  smallest_suitable    \* and its size

memory == <<occupied_by, partition_number>>
times == <<last_io_time, completion_time, first_run_time>>
search == <<looked_at, best_fit, smallest_suitable>>
svars == <<job, current_time, state, remaining_cpu_time, times, memory,
           ready_queue, blocked_queue, running_process, pc, i, search>>

NULL == 0
FREE == -1

Procs == 1 .. Len(job)
Partitions == 1 .. Len(sizes)

(* Mutant: the sum does not wrap around.                                   *)
PlusNoWrap(a, b) == a + b

(* Arithmetic of unsigned int.                                             *)
Plus(a, b) == (a + b) % UINT
Minus(a, b) == (a - b) % UINT

(* The conversion of unsigned int to int.                                  *)
AsInt(n) == IF 2 * n < UINT THEN n ELSE n - UINT

(***************************************************************************)
(* load_processes and init_memory_partitions.                              *)
(***************************************************************************)
Init ==
  /\ job \in Workloads
  /\ current_time = 0
  /\ state = [p \in Procs |-> "NEW"]
  /\ remaining_cpu_time = [p \in Procs |-> job[p].total_cpu_time]
  /\ last_io_time = [p \in Procs |-> 0]
  /\ partition_number = [p \in Procs |-> 0]
  /\ completion_time = [p \in Procs |-> 0]
  /\ first_run_time = [p \in Procs |-> 0]
  /\ occupied_by = [m \in Partitions |-> FREE]
  /\ ready_queue = <<>>
  /\ blocked_queue = <<>>
  /\ running_process = NULL
  /\ pc = "arrivals"
  /\ i = 1
  /\ looked_at = 0
  /\ best_fit = 0
  /\ smallest_suitable = 128

-----------------------------------------------------------------------------
ArrivesNow(p) == job[p].arrival_time = current_time /\ state[p] = "NEW"

(***************************************************************************)
(* The loop over the table for new arrivals, and in it that of             *)
(* find_memory_partition over the partitions.                              *)
(***************************************************************************)
find_memory_partition(p) ==
  /\ pc = "arrivals" /\ i = p
  /\ ArrivesNow(p)
  /\ pc' = "search"
  /\ looked_at' = 0 /\ best_fit' = 0 /\ smallest_suitable' = 128
  /\ UNCHANGED <<job, current_time, state, remaining_cpu_time, times, memory,
                 ready_queue, blocked_queue, running_process, i>>

(* Mutant: the partition's owner is not looked at.                         *)
BetterOrTaken(m, size) == sizes[m] >= size /\ sizes[m] < smallest_suitable

Better(m, size) ==
  occupied_by[m] = FREE /\ sizes[m] >= size /\ sizes[m] < smallest_suitable

LookAt(m) ==
  /\ pc = "search" /\ looked_at = m - 1
  /\ looked_at' = m
  /\ \/ /\ Better(m, job[i].memory_size)
        /\ best_fit' = m /\ smallest_suitable' = sizes[m]
     \/ ~Better(m, job[i].memory_size) /\ UNCHANGED <<best_fit, smallest_suitable>>
  /\ UNCHANGED <<job, current_time, state, remaining_cpu_time, times, memory,
                 ready_queue, blocked_queue, running_process, pc, i>>

Found == pc = "search" /\ looked_at = Len(sizes)

(* `queue` is the ready queue after the enqueue of the scheduler at hand.  *)
Admit(p, queue) ==
  /\ Found /\ i = p /\ best_fit # 0
  /\ occupied_by' = [occupied_by EXCEPT ![best_fit] = AsInt(job[p].pid)]
  /\ partition_number' = [partition_number EXCEPT ![p] = best_fit]
  /\ ready_queue' = queue
  /\ state' = [state EXCEPT ![p] = "READY"]
  /\ pc' = "arrivals" /\ i' = i + 1
  /\ UNCHANGED <<job, current_time, remaining_cpu_time, times,
                 blocked_queue, running_process, search>>

PassOver(p) ==
  /\ i = p
  /\ \/ pc = "arrivals" /\ ~ArrivesNow(p)
     \/ Found /\ best_fit = 0
  /\ pc' = "arrivals" /\ i' = i + 1
  /\ UNCHANGED <<job, current_time, state, remaining_cpu_time, times, memory,
                 ready_queue, blocked_queue, running_process, search>>

ArrivalsDone ==
  /\ pc = "arrivals" /\ i > Len(job)
  /\ pc' = "io" /\ i' = 1
  /\ UNCHANGED <<job, current_time, state, remaining_cpu_time, times, memory,
                 ready_queue, blocked_queue, running_process, search>>

(* What all schedulers do alike until the arrivals have been looked at.    *)
Arrivals ==
  \/ \E p \in Procs : find_memory_partition(p) \/ PassOver(p)
  \/ \E m \in Partitions : LookAt(m)
  \/ ArrivalsDone

(***************************************************************************)
(* handle_io_completion: the loop over the blocked queue.  The element     *)
(* that leaves it closes up the queue, and the index stays.                *)
(***************************************************************************)
IOElapsed(p) == Minus(current_time, last_io_time[p]) >= job[p].io_duration

(* Mutants: the index moves on although the queue has closed up; the queue *)
(* is not closed up.                                                       *)
WakeAndSkip ==
  /\ pc = "io" /\ i <= Len(blocked_queue)
  /\ IOElapsed(blocked_queue[i])
  /\ state' = [state EXCEPT ![blocked_queue[i]] = "READY"]
  /\ ready_queue' = Append(ready_queue, blocked_queue[i])
  /\ blocked_queue' = RemoveAt(blocked_queue, i)
  /\ i' = i + 1
  /\ UNCHANGED <<job, current_time, remaining_cpu_time, times, memory,
                 running_process, pc, search>>

WakeAndLeave ==
  /\ pc = "io" /\ i <= Len(blocked_queue)
  /\ IOElapsed(blocked_queue[i])
  /\ state' = [state EXCEPT ![blocked_queue[i]] = "READY"]
  /\ ready_queue' = Append(ready_queue, blocked_queue[i])
  /\ i' = i + 1
  /\ UNCHANGED <<job, current_time, remaining_cpu_time, times, memory,
                 blocked_queue, running_process, pc, search>>

Wake ==
  /\ pc = "io" /\ i <= Len(blocked_queue)
  /\ IOElapsed(blocked_queue[i])
  /\ state' = [state EXCEPT ![blocked_queue[i]] = "READY"]
  /\ ready_queue' = Append(ready_queue, blocked_queue[i])
  /\ blocked_queue' = RemoveAt(blocked_queue, i)
  /\ UNCHANGED <<job, current_time, remaining_cpu_time, times, memory,
                 running_process, pc, i, search>>

StillBlocked ==
  /\ pc = "io" /\ i <= Len(blocked_queue)
  /\ ~IOElapsed(blocked_queue[i])
  /\ i' = i + 1
  /\ UNCHANGED <<job, current_time, state, remaining_cpu_time, times, memory,
                 ready_queue, blocked_queue, running_process, pc, search>>

IODone(next) ==
  /\ pc = "io" /\ i > Len(blocked_queue)
  /\ pc' = next /\ i' = 1
  /\ UNCHANGED <<job, current_time, state, remaining_cpu_time, times, memory,
                 ready_queue, blocked_queue, running_process, search>>

(***************************************************************************)
(* A new process is selected if there is none: dequeue_process.            *)
(***************************************************************************)
CanDispatch == running_process = NULL /\ ready_queue # <<>>

(* Mutant: the queue is served from its tail.                              *)
DispatchLast(next) ==
  /\ pc = "select" /\ CanDispatch
  /\ LET p == Last(ready_queue)
     IN  /\ running_process' = p
         /\ state' = [state EXCEPT ![p] = "RUNNING"]
         /\ first_run_time' = [first_run_time EXCEPT ![p] = IF @ = 0 THEN current_time ELSE @]
  /\ ready_queue' = Front(ready_queue)
  /\ pc' = next
  /\ UNCHANGED <<job, current_time, remaining_cpu_time, last_io_time, completion_time,
                 memory, blocked_queue, i, search>>

(* Mutant: first_run_time is that of the latest dispatch.                  *)
DispatchAnew(next) ==
  /\ pc = "select" /\ CanDispatch
  /\ LET p == Head(ready_queue)
     IN  /\ running_process' = p
         /\ state' = [state EXCEPT ![p] = "RUNNING"]
         /\ first_run_time' = [first_run_time EXCEPT ![p] = current_time]
  /\ ready_queue' = Tail(ready_queue)
  /\ pc' = next
  /\ UNCHANGED <<job, current_time, remaining_cpu_time, last_io_time, completion_time,
                 memory, blocked_queue, i, search>>

Dispatch(next) ==
  /\ pc = "select" /\ CanDispatch
  /\ LET p == Head(ready_queue)
     IN  /\ running_process' = p
         /\ state' = [state EXCEPT ![p] = "RUNNING"]
         /\ first_run_time' = [first_run_time EXCEPT ![p] = IF @ = 0 THEN current_time ELSE @]
  /\ ready_queue' = Tail(ready_queue)
  /\ pc' = next
  /\ UNCHANGED <<job, current_time, remaining_cpu_time, last_io_time, completion_time,
                 memory, blocked_queue, i, search>>

NoDispatch(next) ==
  /\ pc = "select" /\ ~CanDispatch
  /\ pc' = next
  /\ UNCHANGED <<job, current_time, state, remaining_cpu_time, times, memory,
                 ready_queue, blocked_queue, running_process, i, search>>

(***************************************************************************)
(* One unit of the running process, and what comes of it.                  *)
(***************************************************************************)
Left(p) == Minus(remaining_cpu_time[p], 1)
Used(p) == Minus(job[p].total_cpu_time, Left(p))

RequestsIO(p) ==
  job[p].io_frequency > 0 /\ Used(p) % job[p].io_frequency = 0 /\ Left(p) > 0

Execute(p, next) ==
  /\ pc = "execute" /\ running_process = p /\ p # NULL
  /\ remaining_cpu_time' = [remaining_cpu_time EXCEPT ![p] = Left(p)]
  /\ pc' = next
  /\ UNCHANGED <<job, current_time, first_run_time, i, search>>

Block(p, next) ==
  /\ Execute(p, next)
  /\ RequestsIO(p)
  /\ last_io_time' = [last_io_time EXCEPT ![p] = current_time]
  /\ blocked_queue' = Append(blocked_queue, p)
  /\ state' = [state EXCEPT ![p] = "WAITING"]
  /\ running_process' = NULL
  /\ UNCHANGED <<completion_time, memory, ready_queue>>

(* Mutant: the partition is not freed.                                     *)
CompleteKeepsMemory(p, next) ==
  /\ Execute(p, next)
  /\ ~RequestsIO(p) /\ Left(p) = 0
  /\ state' = [state EXCEPT ![p] = "TERMINATED"]
  /\ completion_time' = [completion_time EXCEPT ![p] = Plus(current_time, 1)]
  /\ running_process' = NULL
  /\ UNCHANGED <<last_io_time, memory, ready_queue, blocked_queue>>

(* handle_process_completion.                                              *)
Complete(p, next) ==
  /\ Execute(p, next)
  /\ ~RequestsIO(p) /\ Left(p) = 0
  /\ occupied_by' = [occupied_by EXCEPT ![partition_number[p]] = FREE]
  /\ state' = [state EXCEPT ![p] = "TERMINATED"]
  /\ completion_time' = [completion_time EXCEPT ![p] = Plus(current_time, 1)]
  /\ running_process' = NULL
  /\ UNCHANGED <<last_io_time, partition_number, ready_queue, blocked_queue>>

(* The process keeps the processor.                                        *)
KeepRunning(p, next) ==
  /\ Execute(p, next)
  /\ ~RequestsIO(p) /\ Left(p) # 0
  /\ UNCHANGED <<state, last_io_time, completion_time, memory,
                 ready_queue, blocked_queue, running_process>>

(* The process loses the processor; `queue` is the ready queue with it.    *)
Preempt(p, queue, next) ==
  /\ Execute(p, next)
  /\ ~RequestsIO(p) /\ Left(p) # 0
  /\ ready_queue' = queue
  /\ state' = [state EXCEPT ![p] = "READY"]
  /\ running_process' = NULL
  /\ UNCHANGED <<last_io_time, completion_time, memory, blocked_queue>>

Idle(next) ==
  /\ pc = "execute" /\ running_process = NULL
  /\ pc' = next
  /\ UNCHANGED <<job, current_time, state, remaining_cpu_time, times, memory,
                 ready_queue, blocked_queue, running_process, i, search>>

(* Mutant: a process that is still NEW never counts.                       *)
check_admitted_processes_done(now) ==
  \A p \in Procs : state[p] \in {"TERMINATED", "NEW"}

(***************************************************************************)
(* The clock moves on; check_all_processes_done passes over a process that *)
(* has not arrived yet.                                                    *)
(***************************************************************************)
check_all_processes_done(now) ==
  \A p \in Procs : \/ state[p] = "TERMINATED"
                   \/ state[p] = "NEW" /\ job[p].arrival_time > now

Advance ==
  /\ pc = "advance"
  /\ current_time' = Plus(current_time, 1)
  /\ pc' = IF check_all_processes_done(Plus(current_time, 1)) THEN "done" ELSE "arrivals"
  /\ i' = 1
  /\ UNCHANGED <<job, state, remaining_cpu_time, times, memory,
                 ready_queue, blocked_queue, running_process, search>>

(* calculate_metrics is all that follows: it changes nothing.              *)
Terminated == pc = "done" /\ UNCHANGED svars

-----------------------------------------------------------------------------
(* calculate_metrics, per process.                                         *)
turnaround_time(p) == Minus(completion_time[p], job[p].arrival_time)
wait_time(p) == Minus(turnaround_time(p), job[p].total_cpu_time)
response_time(p) == Minus(first_run_time[p], job[p].arrival_time)

-----------------------------------------------------------------------------
(***************************************************************************)
(* Properties of every scheduler.                                          *)
(***************************************************************************)
ProcessStates == {"NEW", "READY", "RUNNING", "WAITING", "TERMINATED"}

Live(p) == state[p] \in {"READY", "RUNNING", "WAITING"}

(* Every variable has its type.                                            *)
TypeOK ==
  /\ job \in Workloads
  /\ current_time \in uint
  /\ state \in [Procs -> ProcessStates]
  /\ remaining_cpu_time \in [Procs -> uint]
  /\ last_io_time \in [Procs -> uint]
  /\ partition_number \in [Procs -> Partitions \cup {0}]
  /\ completion_time \in [Procs -> uint]
  /\ first_run_time \in [Procs -> uint]
  /\ DOMAIN occupied_by = Partitions
  /\ \A m \in Partitions : occupied_by[m] \in Int
  /\ ready_queue \in Seq(Procs)
  /\ blocked_queue \in Seq(Procs)
  /\ running_process \in Procs \cup {NULL}
  /\ pc \in {"arrivals", "search", "io", "select", "execute", "advance", "done", "crashed"}
  /\ i \in Nat \ {0}
  /\ looked_at \in 0 .. Len(sizes)
  /\ best_fit \in 0 .. Len(sizes)
  /\ smallest_suitable \in 0 .. 128

(* The free partitions that are large enough.                              *)
Fitting(size) == {m \in Partitions : occupied_by[m] = FREE /\ sizes[m] >= size}

(* find_memory_partition returns the best fit: no partition only when none *)
(* fits, else the smallest that does, the first of equal ones.             *)
FindsBestFit ==
  Found =>
    LET fitting == Fitting(job[i].memory_size)
    IN  IF fitting = {} THEN best_fit = 0
        ELSE /\ best_fit \in fitting
             /\ \A m \in fitting : \/ sizes[best_fit] < sizes[m]
                                   \/ sizes[best_fit] = sizes[m] /\ best_fit <= m

(* A process is in exactly the place its state says: once in the ready     *)
(* queue, once in the blocked queue, or on the processor.                  *)
OnePlace ==
  /\ IsInjective(ready_queue) /\ IsInjective(blocked_queue)
  /\ \A p \in Procs :
       /\ state[p] = "READY" <=> p \in ToSet(ready_queue)
       /\ state[p] = "WAITING" <=> p \in ToSet(blocked_queue)
       /\ state[p] = "RUNNING" <=> p = running_process

(* The partitions and the live processes are in one-to-one correspondence: *)
(* each live process has its own, large enough, and a partition that no    *)
(* live process has is free.                                               *)
OwnPartition ==
  /\ \A p \in Procs : Live(p) =>
       /\ partition_number[p] \in Partitions
       /\ occupied_by[partition_number[p]] = AsInt(job[p].pid)
       /\ sizes[partition_number[p]] >= job[p].memory_size
       /\ \A q \in Procs \ {p} : Live(q) => partition_number[q] # partition_number[p]
  /\ \A m \in Partitions :
       occupied_by[m] # FREE => \E p \in Procs : Live(p) /\ partition_number[p] = m

(* When the scheduler goes on from handle_io_completion, no process whose  *)
(* I/O has taken its time is left in the blocked queue.                    *)
NoOverdueIO ==
  pc \in {"select", "execute"} =>
    \A p \in ToSet(blocked_queue) : last_io_time[p] # current_time => ~IOElapsed(p)

(* The metrics of a process that has terminated: no unsigned subtraction   *)
(* of calculate_metrics wraps around, of the three that each process has   *)
(* there; it was dispatched before it completed, which was no later than   *)
(* the end of this tick, and waited no less in all than for that dispatch. *)
(* The last is not said of an arrival at time 0, whose first_run_time may  *)
(* be that of a later dispatch (FirstRunKept).                             *)
MetricsSound ==
  \A p \in Procs : state[p] = "TERMINATED" =>
    /\ remaining_cpu_time[p] = 0
    /\ completion_time[p] <= current_time + 1
    /\ turnaround_time(p) = completion_time[p] - job[p].arrival_time
    /\ wait_time(p) = turnaround_time(p) - job[p].total_cpu_time
    /\ response_time(p) = first_run_time[p] - job[p].arrival_time
    /\ response_time(p) < turnaround_time(p)
    /\ job[p].arrival_time > 0 => response_time(p) <= wait_time(p)

(* The response time of calculate_metrics counts to the first dispatch:    *)
(* first_run_time does not change once the process has run.                *)
FirstRunKept ==
  [][\A p \in Procs : remaining_cpu_time[p] # job[p].total_cpu_time =>
       first_run_time'[p] = first_run_time[p]]_svars

(* A process that arrived is not left out while there is room for it: when *)
(* the arrivals of a tick have been looked at, no process of an earlier    *)
(* tick is NEW and would fit a free partition.                             *)
NotForgotten ==
  pc = "io" => \A p \in Procs :
    state[p] = "NEW" /\ job[p].arrival_time < current_time =>
      Fitting(job[p].memory_size) = {}

(* When the loop ends, every process of the input has terminated.          *)
AllServed == pc = "done" => \A p \in Procs : state[p] = "TERMINATED"

(* The simulation ends, or stops at a division by zero.                    *)
Ends == <>(pc \in {"done", "crashed"})

(* The owner of each partition in the five-state model.                    *)
Owner ==
  [m \in Partitions |->
     IF \E p \in Procs : Live(p) /\ partition_number[p] = m /\ occupied_by[m] = AsInt(job[p].pid)
     THEN CHOOSE p \in Procs :
            Live(p) /\ partition_number[p] = m /\ occupied_by[m] = AsInt(job[p].pid)
     ELSE 0]

=============================================================================
