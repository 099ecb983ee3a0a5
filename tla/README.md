# SYSC 4001 assignments: a verification project

TLA+ models of the programs of this repository, the TLC runs that check them on
small instances, and the theorems about them that TLAPS checks for every value
of the constants. The repository holds five programs that keep state, and they
do not interact; all five are modelled.

## 1. Inventory

| Program | State | Operations | What is hard |
|---|---|---|---|
| TA marking, `Assignment3/part2/part2.c` | shared `current_line`, `current_pos`, `students_marked[]`; five named semaphores; one mark file per TA | parent: fork, wait, clean up; TA: acquire two semaphores (try, undo, back off), read and move the cursor, release, write the mark, count it | processes interleave on plain shared ints; retry without waiting; fork and fopen may fail |
| Scheduler simulator, `Assignment3/src` (`scheduler.c`, `fcfs.c`, `round_robin.c`, `priority.c`, `main.c`) | process table, memory partitions, ready and blocked queue, running process, clock, quantum counter | per tick: arrivals, I/O completion, selection, one unit of execution, clock and end test; at the end: metrics | long legal sequences; queues closed up while walked; sentinel values; unsigned arithmetic; an end test with a gap |
| Shared number, `Assignment2/part2/main.c` | shared `random_number`, `process2_active`; one System V semaphore | process 1: generate, activate, release, look again; process 2: print, classify, test; parent: fork, wait, remove | several reads per visit, a read after the release, termination of both |
| fork/exec simulator, `Assignment2/interrupts.cpp` | PCB table, partitions, vector table, clock | FORK, EXEC (with nested programs), CPU, SYSCALL | `min_element` with an order that is none, the last PCB stands for the current one, recursion |
| Interrupt simulator, `Assignment1/Part2/interrupts.cpp` | clock, metrics, open system calls | CPU, SYSCALL, END_IO | negative durations, table indices, response times |

What makes each correct:

* **TA marking**: the cursor is a critical section; every student is handed out
  once per round, in order; semaphores are neither lost nor doubled on any path;
  every TA finishes although semaphores are only tried; the parent cleans up last;
  every counted mark is in a file.
* **Schedulers**: a process is in one place (a queue, the processor, or none); the
  live processes and the occupied partitions correspond one to one; nobody is
  forgotten; each policy holds (order of arrival, quantum, priority); all processes
  terminate and the metrics of those that do are sound.
* **Shared number**: a visit sees one number; both processes end on the same 0; the
  resources outlive their users.
* **fork/exec simulator**: EXEC takes the smallest free partition that fits; a partition
  is shared by copies only; every line of the trace and of the programs it executes has
  its turn in order, and the clock is the sum of what they take.
* **Interrupt simulator**: the printed totals agree with one another and with the clock;
  an END_IO answers the last open SYSCALL of its number, and its response time is what the
  activities in between take; the address loaded is the one listed for the vector; the clock
  goes back only when an activity is shorter than its fixed steps.

Not modelled, for good: `Assignment3/src/all.c` (a paste of the other files that does
not compile), the timing loops in `Assignment1/Part2/tests`, the copies under `A3_Submission`, binaries, logs and reports.
Formatting and logging are left out of every model.

The hazards of the code, each at its line with the properties that watch it, are in
`PROJECT.json`.

## 2. Modules

```
StudentDispenser   <- TAMarking <- MCTAMarking             (TLC)
                               <- TAMarkingProofs <- DispenserProofs  (TLAPS)
Scheduler          <- FCFS, RoundRobin, Priority           (the three policies)
FCFS, RoundRobin, Priority, ProcessLifecycle
                   <- Simulator <- MCSimulator             (TLC; inputs: SchedulerInputs)
                                <- SimulatorProofs         (TLAPS, with QueueTheorems)
MCSimulator, SimulatorProofs
                   <- SchedulingProofs                     (TLAPS)
SharedNumber       <- MCSharedNumber  (TLC), SharedNumberProofs  (TLAPS)
ForkExec           <- MCForkExec      (TLC) <- ForkExecProofs    (TLAPS, with QueueTheorems)
Interrupts         <- MCInterrupts    (TLC), InterruptsProofs    (TLAPS, with QueueTheorems)
```

### TAMarking

One process counter per TA, and one for the parent. Every access to the shared
cursor is a step: `current_pos++` is `LoadPos` and `StorePos`, the wrap to the next
line is `CheckPos`, `ResetPos`, `LoadLine`, `StoreLine`. A student is the cell
`<<line, position>>`; a position past the end of a line reads a later line, as the
row-major array does. A `sem_trywait` is `TakeFirst` or `MissFirst` (`TakeSecond`,
`MissSecond`), by the value of the semaphore. `backoff_time` is the bound of the
random sleep; the sleep itself is the time between two steps. `file[t]` is the
sequence of students in `TA<t+1>.txt`, which holds a line of an earlier run at the
start. The `fopen` of the TAs in `FailingFiles` may fail, each time or not, and
`ForkFails` is always possible.

`StudentDispenser` is what the cursor promises: each request gets the next cell, in
one step. `ImplementsDispenser` maps to it by counting a student as handed out when
it is read and the cursor as moved at that moment.

### Scheduler, FCFS, RoundRobin, Priority, Simulator

`Scheduler` has what the three run functions share, with one step per loop
iteration: a tick goes through the phases `arrivals`, `io`, `select`, `execute`,
`advance` (round robin executes before it selects, as its source does). `job` holds
the input; `Workloads` is the set of inputs of a run. All arithmetic is modulo
`UINT`. Where the three differ, the actions take a parameter: the queue after the
enqueue, and the next phase. An arrival starts the loop of `find_memory_partition`: one
`LookAt` per partition, and the process is admitted or passed over when the search has
`Found` its result.
`Priority` has the division by `io_frequency` 0 as a choice: the process stops
(`Crash`), or the quotient is 0 and no I/O is asked for, by processor.

`Simulator` is `main.c`: it extends the three policies, and `TYPE`, the second
argument of the program, says which one runs; `calculate_metrics`, which changes
nothing, is a set of operators on the last state, of which `MetricsSound` speaks. The checks of
the number of arguments, of the scheduler's name and of the log files end the program before
it has a state and are left out.

`ProcessLifecycle` is the abstract specification of all three: the five-state model
with one processor and best-fit partitions, no queue and no clock, with or without
preemption.

The model was compared with the compiled program on random inputs: the sequences of
logged transitions and partition tables were the same.

### SharedNumber

Two process counters; each semaphore operation and each read of a field that the other
process writes is a step, so process 2 looks at `process2_active` (`Look`) and at the number
three times (`Show`, `Classify`, `Test`). The child may fail to be forked, and
then the parent plays process 1 alone. `wait` returns when the child has exited or
when there is none.

### ForkExec

`calls` is the stack of `process_trace` and `execute_program`, `line` the next line of
each file on it; both functions treat a line in the same way, so the actions serve
both. `simulate_exec` is `Lookup`, one `Compare` per comparison of `std::min_element`,
and `Load`, which pushes the program. `Less` is the comparison of the source: it is not
an order, since a partition that does not suit is less than itself. A program that is
not listed is read past the end of `external_files`: any size in `AnySize`, or a stop
(`Crash`). A duration may be negative, as `stoi` accepts it, and its thirds are rounded towards
zero (`Third`). Left out are a PCB's state and remaining time, which nothing reads, numbers that
do not parse, and sums beyond an `int`.

The model was compared with the compiled program on 300 random inputs, up to three programs
deep: the final process tables and clocks were the same.

### Interrupts

`main` reads the trace and the vector file line by line (`readTrace`, `readVectorTable`),
and the loop of `simulateInterrupts` takes one step per line it would log, or per activity
where it logs one line or none; the two random numbers of an interrupt are chosen where they
are drawn (`contextDist`). The clock and the metrics move together in `Spend`, except
for the two checks of an END_IO, which the code adds to the total later. The vector table is
indexed without a check: past its ends, `LoadAddress` reads any of `AnyAddress`, or the
program stops (`Crash`). A number that `stoi` does not parse ends the run in the
middle of the trace (`Throw`); a file that does not open, a number on the command line that
does not parse and five arguments end it before (`Fail`, `readVectorTableDone`). An activity
is its type, its number and its duration; lines that do not parse are kinds of their own. Two
things are left out: sums beyond an `int`, and a `min_context_time` larger than
`max_context_time`. `main` does not refuse the latter, but `uniform_int_distribution` is
undefined for it, so nothing could be said of the run (`Readable`).

The model was compared with the compiled program on 150 random inputs: the metrics, the sum of
the response times, the last address loaded and the way the program ended were the same.

## 3. Runs

| Run | Instance | Checks |
|---|---|---|
| `ta_exclusive` | 3 TAs, 2 lines of 3, 2 attempts | `TypeOK`, `MutualExclusion`, `RoundsComplete`, `MarksRecorded`, `ImplementsDispenser`, `AllFinish` |
| `ta_neighbours` | 4 TAs, 1 line of 4, a file that may not open | `SemaphoreBalance`, `NeighbourExclusion`, `CleanupAfterAll` |
| `ta_rounds` | 4 TAs | violation, see section 5 |
| `sim_served` | each scheduler, every three processes of `AlwaysFit`, quantum 2 | `FirstComeFirstServed`, `BoundedWaiting`, `WholeQuantum`, `GivesWayToHigher`, `MetricsSound`, `NoOverdueIO`, `AllServed`, `ImplementsLifecycle`, `Ends` |
| `sim_any` | each scheduler, every three processes of `Competing`, clock of 16 values | `TypeOK`, `OnePlace`, `OwnPartition`, `FindsBestFit` |
| `shared_number` | all eleven numbers | `TypeOK`, `OneValuePerVisit`, `EndTogether`, `RemovedAfterUse`, `ZeroEnds` |
| `fork_exec` | every trace of three lines, programs that execute one another | `TypeOK`, `FindsBestFit`, `ProcessesInPlace`, `AsWritten`, `Ends` |
| `interrupts` | every trace of up to four activities of chosen kinds, three vector files, argument counts 3 to 7 | `TypeOK`, `MetricsAddUp`, `ResponsesMatched`, `LoadsListedVector`, `TimeBounded`, `ResponsesBounded`, `ClockForward`, `Ends` |
| `fork_full` | a program of 5 Mb, six times | violation, see section 5 |
| `ep_highest`, `ep_first_run`, `fcfs_forgotten` | the inputs of `tests/t5` and `tests/t4` | violations, see section 5 |

`FirstComeFirstServed` speaks of runs of FCFS only, `BoundedWaiting` and `WholeQuantum`
of round robin, `GivesWayToHigher` of the priority scheduler; the others of all three. A
run of the priority scheduler on an `io_frequency` of 0 may stop at the division by zero,
which `Ends` counts as an end and `ImplementsLifecycle` as a stop.

**Bounds.**

* *TA marking.* The semaphores of the TAs form a ring. In a ring of three any two TAs
  share a semaphore; four is the smallest ring in which two do not, so three and four
  TAs show both cases, and five (the program) differ from four only in having more
  pairs that do not. One line of as many students as TAs gives each TA one round trip
  through the loop; `ta_exclusive` gives two, and a line end that is not the list's end.
  `MAX_RETRIES` is 1 in `ta_neighbours` as in the source, and 2 in `ta_exclusive` so that
  the inner loop goes round. The students are fewer than the program's 80, the rounds are
  one: a cell is handed out again after a round as it was in the first.
* *Schedulers.* The partitions are the program's; in `sim_any` one of them has another size, so
  that two are equal and a process of 2 Mb must get the first (`TiedSizes`). Three processes are enough for every
  pair of places (queue head and tail, blocked, running) and for one to overtake
  another; 1 to 3 units with I/O after each or each second unit, over at once or
  longer than a unit, make processes block together and wake in one tick. In `Competing`
  two processes want the largest partition, one may fit none, one may come after a gap,
  and units may be 0. `UINT` is 32 where no input reaches the wrap (`sim_served` ends
  long before), and 16 in `sim_any`, where it is reached: a process that is
  never admitted keeps the clock running until it wraps around.
* *History variables.* `MCSimulator` adds `waited`, the ticks of a process in the ready
  queue, and `used`, its units since its dispatch; `waited` counts up to
  `WaitLimit + 1`, enough to see the limit passed.
* *fork/exec.* Six partitions, in `fork_full` those of the program; in `fork_exec` the fifth is
  as large as the fourth, for the ties of the comparison. A SYSCALL of 7 and one of -7 lose
  a part of their duration to the rounding in either direction. Two programs that compete for a partition,
  two that do not, one that fits none, one that is listed twice and one that is not listed;
  nesting of depth two, and up to nine EXECs for five partitions, so the table fills. No
  program executes itself, directly or through another: the code would recurse without end.
* *Interrupts.* Four activities of three kinds: a number opened twice, answered twice, and
  answered across another number. Three activities of five kinds: those shorter than their
  fixed steps, of a little more, and CPU time between. Two lines of every kind, with negative
  durations and numbers past both ends of the table, and vector files with a line that is no
  address before or after the first. Switches take 1 or 2 units, or the default 1 to 3, so the
  parts of an ISR meet every remainder of the division by 5, of either sign.

**Deadlock** is checked in every run; a finished program stutters in `Terminated`.

## 4. Fairness

* `TAMarking`: weak fairness of the parent and of each TA: the operating system runs
  every runnable process, and every sleep ends. Nothing is assumed about who gets a
  semaphore; a TA that fails takes its back-off steps. That all finish is due to the
  order of acquisition and to each TA stopping after `target_students`.
* `SharedNumber`: weak fairness of each process. No fairness among the waiters of the
  semaphore is needed for `ZeroEnds`: after the last number process 1 does not ask again.
  Nothing says that a 0 is ever generated.
* Schedulers, `ForkExec` and `Interrupts`: sequential code, weak fairness of the next step.

## 5. Disagreements between the code and what is said of it

* `ta_rounds`: two TAs that are not neighbours move the cursor together; students are
  marked twice or never, against `reportPartD.txt:15` ("Repeat until it has gone through
  the list 3 times"). The instance has four TAs; so has the program with its five.
* `ep_highest`: `handle_io_completion` appends to the queue that the priority scheduler
  keeps sorted; `tests/t5/execution_log_priority.txt` shows it at time 15.
* `ep_first_run`: a first run at time 0 is overwritten; the average response time logged
  by `tests/t5` (5.50 for 3.75) is the result.
* `fcfs_forgotten`: a process that found no partition on arrival is not looked at again
  when one is freed; the input of `tests/t4/tempCodeRunnerFile.sh` has two such processes.

* `fork_full`: when no free partition is large enough, `min_element` still returns one: the
  last, which `init` occupies. The comment calls it "a suitable memory partition", the log
  "marked as occupied". The compiled program does the same.

More are visible in the models and have no run of their own. With `MAX_RETRIES` 1
every call of `acquire_semaphores_safely` starts at the first bound of the back-off
(`GiveUp` sets `retries` to 0), against `reportPartE.txt:35` ("exponentially
increases after each try"). A gap between two
arrivals with nothing left to run ends the simulation (`check_all_processes_done` passes
over processes that are still to come): `AllServed` is false for such inputs, and is checked and
proved for those without a gap; `sim_any` has inputs with one, on which it checks the queues and
the partitions. A mark whose file cannot be opened is lost and the
student counted (`WriteMark` of a TA in `FailingFiles`): `MarksRecorded` is false then, and is
checked and proved for the case that every file opens. After a failed fork the parent ends at
once: nobody waits for the TAs or removes the semaphores.

Three concern `Assignment1/Part2`. An END_IO counts as an I/O operation only when its number is
that of a SYSCALL that is still open (`Answer`); in `simulations/isr/trace_1.txt` the END_IOs have
the numbers 20, 22 and 18 and the SYSCALLs 7, 12 and 5, so the program logs
"Number of I/O Operations: 0" and a response time of 0. Five arguments are refused
(`readVectorTableDone`), although `Assignment1/README.md:25-26` calls each of the two context
times optional. And "Average Syscall Time" divides by all ISRs, those of END_IOs included.

## 6. Proofs

**TAMarkingProofs** (any number of TAs from 2, any list, any retry limit).
`TypeCorrect`, `CleanupIsLast`, `SemaphoresBalance`, `NeighboursExclude` and
`CursorExclusive`. The invariants of the runs are not inductive. Types need that a TA
in the middle of an attempt has attempts left (`AttemptsLeft`), for `retries` to stay
in range; the clean-up needs that the children before the one the parent waits for are
done (`ParentInOrder`). `SemaphoreBalance` is inductive with these: a post comes from a
place where the semaphore is held, so it is 0, and by the balance nobody else holds it.
Exclusion follows without another induction: TA t and its neighbour share the
neighbour's own semaphore (`NeighbourIsNext`, `OwnPair`), which at most one holds;
with at most three TAs any two share one (`SharedSemaphore`). Assumptions:
`ConstantsAssumption` and `BackoffFits`.

**DispenserProofs** (any list and retry limit). `EveryMarkRecorded` for any number of TAs;
`CursorImplementsDispenser` and `EveryStudentEveryRound` for at most three, all three when every
output file can be opened (`FailingFiles = {}`), and the last when the number of TAs divides the
list. What a TA at the cursor has fetched of the shared line and position is still so when it
stores them (`CursorInv`), since exclusion, proved before, keeps the others away. An advance of the cursor
that a TA is in the middle of is seen as done (`View`), so a step either leaves the cursor so
seen (`Stays`) or hands out the student it is at (`HandsOut`), which is what `StudentDispenser` does. For the rounds the invariant counts (`RoundsInv`): when q rounds and
`Number(Cursor)` students have been handed out, each student has been marked q or q + 1 times.
When all are done the TAs have marked a multiple of the list, so nobody is a round ahead.
The hypotheses are not for convenience: run `ta_rounds` shows that more than three TAs do not exclude
one another. Assumptions: those of TAMarkingProofs.

**SimulatorProofs** (any inputs, partitions smaller than 128, any quantum, any width of
unsigned int). `SimulatorTypeCorrect`, `EveryProcessInOnePlace`, `EveryPartitionOwned`,
`SearchFindsBestFit`, `NobodyOverdue` and `SchedulersImplementLifecycle`, for the three
schedulers at once, and `PreemptedByHigher`. `EveryScheduler` shows that a step of any of them is one of a list of
steps that differ only in the queue they leave; `StepKinds` sorts that list by what it does
to states and memory: nothing, or it admits, moves or ends one process, as the five-state
model does. Everything else is proved from these four kinds. The inductive invariant has, besides
the properties, the best partition of those looked at (`SearchSoFar`) and the part of the
blocked queue that the I/O loop has passed (`IOSoFar`). `OnePlace` and `OwnPartition` need each
other: a process that ends gives its partition back, which is its own because it is live, and it
is live because it is the one on the processor. The refinement needs that the abstract owner of
a partition, a `CHOOSE`, is the live process that has it (`OwnerIsOK`). `PreemptedByHigher` has
the hypothesis that pids grow with the lines of the input (`PidsGrow`): run_priority compares
lines but inserts by pid, and without it the process that gives way may be put back before the
one it gives way to. `QueueTheorems` has the facts about queues, with an element removed or
inserted, that the library does not. Assumptions: `SchedulerAssumption`,
`SimulatorAssumption`.

**SchedulingProofs** (as SimulatorProofs, and the history variables of `MCSimulator`): what the
schedulers promise over many ticks.

* `QuantumIsWhole` and `NobodyStarves`, of round robin. `used` is the quantum counter
  while a process runs, except between `execute` and `select` of one tick (`QuantumInv`). For the
  wait, the process at place k of the ready queue has k - 1 quanta before it and what is left of the
  one that runs: `Room` adds these to what it has waited and keeps the sum under the limit. It
  is inductive because the queue is shorter than the table, which is a pigeonhole argument on
  `OnePlace` (`QueueShort`).
* `NobodyOvertakes`, of FCFS. Processes are admitted in the order of their arrivals
  (`AdmittedInOrder`) and those behind one that has not run have not run either (`FreshFirst`):
  a process that comes back from its I/O joins the queue at the end, so it does not break this.
* `MetricsMakeSense`, of all three: the turnaround, wait and response times of a process that has
  terminated are differences that do not wrap around. For the first two, the units it has run fit
  in the time since its arrival (`RanByNow`), with the unit of this tick counted before the clock
  moves on (`Ticked`). For the third, it was not dispatched before its arrival, and what it has run
  fits in the time since that dispatch (`FirstRunInv`); so the response time is also no
  more than the wait. That last part is not said of an arrival at 0: its `first_run_time` may be overwritten
  by a later dispatch (run `ep_first_run`), after it has run.
* `EveryProcessServed`, of all three: the loop never stands still while somebody is to come.

The last three compare times with times in the past, and have the hypothesis `[]ClockInRange`: the clock, an
unsigned int, does not reach its last value. Without it they are false: a process for which
there was no room at its arrival (run `fcfs_forgotten`) is looked at again when the
clock has gone round, with an arrival time that is then a lap old. The inputs of `sim_served` end
long before. `EveryProcessServed` also has `NoGaps`: every process arrives at 0, or not after the
moment some earlier one could end at the soonest. `check_all_processes_done` passes over
processes that are still to come, so an input with a gap ends there (see section 5); inputs
that fill the time meet it, those of `sim_served` among them.

**InterruptsProofs** (any trace, vector file and range of switch times). `InterruptsTypeCorrect`,
`TotalsAgree`, `EveryResponseMatched`, `ActivitiesTakeTheirTime`, `ResponsesTakeTheirTime`,
`VectorIsListed`, `ClockGoesForward`. The properties speak of the moments between activities; the
invariant says what holds inside one: which totals an interrupt has added to already and which
it has not (`Totals`), that it is at an activity of its kind (`Where`), that the switch drawn
is in range (`Switched`), and, while the vector file is read, what the table holds (`Vectors`).
`ClockGoesForward` needs `Where` and `Switched`: only then is a handling time known not to be
negative. For the two properties about time, `Reached` is the clock without what the activity at hand
has `Spent` of its own time so far; it stays the same within an activity, whatever the rounding, and
`Timed` bounds it, and its distance from the start of every open SYSCALL, by what the activities
`Takes`. The durations up to an activity are a recursive function (`timeUpTo`); that it exists
(`TimeUpToExists`) is proved by induction over a set of numbers (`UpTo` of `QueueTheorems`, from a
least counterexample), since the library's induction takes an operator. Assumption: `InterruptsAssumption`.

**SharedNumberProofs** (any range of numbers with 0, any threshold).
`NumberTypeCorrect`, `VisitSeesOneValue`, `BothEndTogether`, `ResourcesOutliveUse`, from one invariant: the
semaphore is 0 exactly when one process is inside (`Exclusion`), process 1 generates
nothing after a 0 (`LastNumber`), and a reaped child is gone (`ChildsLife`).

**ForkExecProofs** (any input, any partitions). `TypeCorrect`, `MinElementIsBestFit`,
`ProcessesStayInPlace`. The scan keeps, of the partitions looked at, the best that suits
or, if none does, the last one looked at (`SearchSoFar`): that is what makes the result
right although the comparison is no order. `Load` needs that the line at hand is still
the EXEC (`AtExec`), for the program's name; and `ProcessesInPlace` is inductive with
`SearchSoFar`, since a partition other than the last is taken only when it is free, and
then no process is in it.

`EveryLineInOrder` says that at the end the lines executed are those that the trace stands for,
each EXEC followed by what its program's file stands for, and that the clock shows what they
cost (`AsWritten`). `expand` is a recursive function over files and lines, and so first of all needs a
value: within a file by induction from its last line (`FileExpands`), and over the files
from those that execute none (`FilesExpand`). The invariant, `LeftToRun`, gives every call on the stack what is
left of its file followed by what is left to its caller; the lines executed so far and what is left
to the innermost call always make up what the trace stands for. `ClockRuns` is the same for the costs, with the
first part of an EXEC charged before its search. The hypothesis is `Terminates`: no program executes
itself, directly or through another. On such an input the code recurses until the stack is
exhausted, and `expand` has no meaning; the inputs of the runs meet it. Assumption: `ForkExecAssumption`.

**Only model-checked**: the liveness properties (`AllFinish`, `Ends`, `ZeroEnds`), since liveness
under fairness is out of the prover's reach. Every other property of a passing run is proved.

## 7. Plan

1. *Done*: all five programs with their runs; proofs for each; the refinement of the five-state
   model by the three schedulers, proved.
2. *Done*: the refinement of the dispenser by the TAs and the rounds, proved for at most three TAs.
3. *Done*: what the schedulers promise over many ticks, the times of the interrupt
   simulator, and what the fork/exec simulator executes, proved.
4. An abstract specification of EXEC (load into the best fit or fail) that `ForkExec`
   implements while a partition suits.
