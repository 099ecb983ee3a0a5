-------------------------- MODULE SchedulingProofs --------------------------
(***************************************************************************)
(* What the three schedulers promise over many ticks, for every input:     *)
(* the quantum and the waiting time of round robin, the order of FCFS, and *)
(* the metrics that are printed at the end.  What relates the clock to     *)
(* times in the past needs that the clock, an unsigned int, has not gone   *)
(* round.                                                                  *)
(***************************************************************************)
EXTENDS MCSimulator, SimulatorProofs, FiniteSetTheorems

-----------------------------------------------------------------------------
(***************************************************************************)
(* One unit of processor time, counted modulo UINT.                        *)
(***************************************************************************)
(* The clock has not reached the last unsigned int.                        *)
ClockInRange == current_time < UINT - 1

(* The units a process has run.                                            *)
Ran(p) == Minus(job[p].total_cpu_time, remaining_cpu_time[p])

(* A number between -UINT and 2 * UINT, reduced.                           *)
LEMMA Reduced ==
  ASSUME NEW a \in Int
  PROVE  /\ 0 <= a /\ a < UINT => a % UINT = a
         /\ -UINT <= a /\ a < 0 => a % UINT = a + UINT
         /\ UINT <= a /\ a < 2 * UINT => a % UINT = a - UINT
<1>1. UINT \in Nat \ {0}
  BY SchedulerAssumption
<1>. QED
  BY <1>1, SMT

LEMMA OneUnitMore ==
  ASSUME NEW a \in uint, NEW b \in uint
  PROVE  /\ Minus(a, b) \in uint /\ Minus(b, 1) \in uint
         /\ Minus(a, b) < UINT - 1 => Minus(a, Minus(b, 1)) = Minus(a, b) + 1
         /\ Minus(a, b) = UINT - 1 => Minus(a, Minus(b, 1)) = 0
         /\ Minus(a, b) = 0 <=> a = b
         /\ Minus(a, 0) = a
<1>1. UINT \in Nat \ {0} /\ uint = 0 .. UINT - 1
  BY SchedulerAssumption DEF uint
<1>2. Minus(a, b) = IF a >= b THEN a - b ELSE a - b + UINT
  BY <1>1, Reduced DEF Minus
<1>3. Minus(b, 1) = IF b >= 1 THEN b - 1 ELSE UINT - 1
  BY <1>1, Reduced DEF Minus
<1>4. Minus(a, 0) = a
  BY <1>1, Reduced DEF Minus
<1> DEFINE c == Minus(b, 1)
<1>5. c \in uint
  BY <1>1, <1>3
<1>6. Minus(a, c) = IF a >= c THEN a - c ELSE a - c + UINT
  BY <1>1, <1>5, Reduced DEF Minus
<1>. HIDE DEF c
<1>7. c = IF b >= 1 THEN b - 1 ELSE UINT - 1
  BY <1>3 DEF c
<1>8. /\ Minus(a, b) < UINT - 1 => Minus(a, c) = Minus(a, b) + 1
      /\ Minus(a, b) = UINT - 1 => Minus(a, c) = 0
  BY <1>1, <1>2, <1>6, <1>7
<1>9. /\ Minus(a, b) \in uint /\ Minus(a, b) = 0 <=> a = b
  BY <1>1, <1>2
<1>. QED
  BY <1>1, <1>2, <1>4, <1>5, <1>8, <1>9 DEF c

-----------------------------------------------------------------------------
(***************************************************************************)
(* A tick: the running process has its unit before the clock moves on, and *)
(* once only.                                                              *)
(***************************************************************************)
Ticked ==
  IF pc \in {"advance", "crashed"} \/ (TYPE = "RR" /\ pc = "select") THEN 1 ELSE 0

Phase ==
  \/ pc \in {"arrivals", "search", "io", "advance"}
  \/ pc = "select" /\ (TYPE = "RR" => pc' = "advance")
  \/ pc = "execute" /\ (pc' \in {"advance", "crashed"} \/ (TYPE = "RR" /\ pc' = "select"))
  \/ pc \notin {"execute", "advance"} /\ pc' = pc

LEMMA PhaseOrder == ASSUME NextSimulator PROVE Phase
<1>1. Arrivals => pc \in {"arrivals", "search"}
  BY DEF Arrivals, find_memory_partition, PassOver, Found, LookAt, ArrivalsDone
<1>2. \A p, queue : Admit(p, queue) => pc = "search"
  BY DEF Admit, Found
<1>3. Wake \/ StillBlocked => pc = "io"
  BY DEF Wake, StillBlocked
<1>4. \A next : IODone(next) => pc = "io"
  BY DEF IODone
<1>5. \A next : Dispatch(next) \/ NoDispatch(next) => pc = "select" /\ pc' = next
  BY DEF Dispatch, NoDispatch
<1>6. \A next, p : \/ Block(p, next) \/ Complete(p, next) \/ KeepRunning(p, next)
                   \/ \E queue : Preempt(p, queue, next)
                   => pc = "execute" /\ pc' = next
  BY DEF Block, Complete, KeepRunning, Preempt, Execute
<1>7. \A next : Idle(next) => pc = "execute" /\ pc' = next
  BY DEF Idle
<1>8. Advance => pc = "advance"
  BY DEF Advance
<1>9. Terminated \/ Crashed => pc \notin {"execute", "advance"} /\ pc' = pc
  BY DEF Terminated, Crashed, svars
<1>10. \A p : Crash(p) => pc = "execute" /\ pc' = "crashed"
  BY DEF Crash, Execute
<1>11. CASE TYPE = "FCFS" /\ NextFCFS
  BY <1>1, <1>2, <1>3, <1>4, <1>5, <1>6, <1>7, <1>8, <1>9, <1>11 DEF NextFCFS, Phase
<1>12. CASE TYPE = "RR" /\ NextRR
  <2>1. CASE BeforeExecution
    BY <2>1, <1>1, <1>2, <1>3, <1>4 DEF BeforeExecution, Phase
  <2>2. CASE ExecuteRR
    BY <2>2, <1>6, <1>12 DEF ExecuteRR, BlockRR, CompleteRR, Expire, KeepRunningRR, Phase
  <2>3. CASE IdleRR
    BY <2>3, <1>7, <1>12 DEF IdleRR, Phase
  <2>4. CASE Select
    BY <2>4, <1>5 DEF Select, Phase
  <2>5. CASE AfterExecution
    BY <2>5, <1>8, <1>9 DEF AfterExecution, Phase
  <2>. QED
    BY <1>12, <2>1, <2>2, <2>3, <2>4, <2>5 DEF NextRR
<1>13. CASE TYPE = "EP" /\ NextPriority
  BY <1>1, <1>2, <1>3, <1>4, <1>5, <1>6, <1>7, <1>8, <1>9, <1>10, <1>13
     DEF NextPriority, RunOrGiveWay, Phase
<1>. QED
  BY <1>11, <1>12, <1>13 DEF NextSimulator

LEMMA TickedOnce ==
  ASSUME NextSimulator
  PROVE  /\ Ticked \in {0, 1} /\ Ticked' \in {0, 1}
         /\ pc = "execute" => Ticked = 0 /\ Ticked' = 1
         /\ pc = "advance" => Ticked = 1
         /\ pc # "advance" \/ pc' = pc => Ticked <= Ticked'
<1>1. Phase /\ TYPE' = TYPE
  BY PhaseOrder DEF NextSimulator
<1>. QED
  BY <1>1 DEF Phase, Ticked

(* What a step does to the clock, the states, the units left and the times *)
(* of the first dispatch and the completion.                               *)
Same == UNCHANGED <<job, current_time, remaining_cpu_time, completion_time>>

Queued(p) ==
  /\ \/ state[p] = "NEW" /\ job[p].arrival_time = current_time
     \/ state[p] = "WAITING"
  /\ state' = [state EXCEPT ![p] = "READY"]
  /\ UNCHANGED first_run_time

PutToRun(p) ==
  /\ state[p] = "READY"
  /\ state' = [state EXCEPT ![p] = "RUNNING"]
  /\ first_run_time' =
       [first_run_time EXCEPT ![p] = IF first_run_time[p] = 0 THEN current_time ELSE @]

Moved(p) == Same /\ pc # "advance" /\ (Queued(p) \/ PutToRun(p))

RanOn(p, s) ==
  /\ pc = "execute" /\ state[p] = "RUNNING"
  /\ remaining_cpu_time' = [remaining_cpu_time EXCEPT ![p] = Left(p)]
  /\ state' = [state EXCEPT ![p] = s]
  /\ UNCHANGED <<job, current_time, first_run_time>>
  /\ \/ s = "TERMINATED" /\ Left(p) = 0
        /\ completion_time' = [completion_time EXCEPT ![p] = Plus(current_time, 1)]
     \/ s \in {"READY", "RUNNING"} /\ UNCHANGED completion_time
     \/ s = "WAITING" /\ RequestsIO(p) /\ UNCHANGED completion_time

(* A process that is searched for arrives now.                             *)
SearchNow == pc = "search" => i \in Procs /\ job[i].arrival_time = current_time

LEMMA TickKinds ==
  ASSUME IInv, SearchNow, NextSimulator
  PROVE  \/ Same /\ UNCHANGED <<state, first_run_time>> /\ (pc # "advance" \/ pc' = pc)
         \/ \E p \in Procs : Moved(p)
         \/ \E p \in Procs, s \in ProcessStates : RanOn(p, s)
         \/ Advance
<1> DEFINE Goal == \/ /\ Same /\ UNCHANGED <<state, first_run_time>>
                      /\ pc # "advance" \/ pc' = pc
                   \/ \E p \in Procs : Moved(p)
                   \/ \E p \in Procs, s \in ProcessStates : RanOn(p, s)
                   \/ Advance
<1> SUFFICES Goal
  OBVIOUS
<1>0. AnyStep /\ TypeOK /\ OnePlace /\ Phase
  BY EveryScheduler, PhaseOrder DEF IInv
<1>1. CASE ArrivalStep
  <2>1. ASSUME NEW p \in Procs, NEW queue \in Joined(p), Admit(p, queue) PROVE Moved(p)
    <3>1. state[p] = "NEW" /\ pc = "search" /\ i = p
      BY <2>1, AdmitMoves DEF Admit, Found
    <3>2. Same /\ state' = [state EXCEPT ![p] = "READY"] /\ UNCHANGED first_run_time
      BY <2>1 DEF Admit, Same, times
    <3>. QED
      BY <3>1, <3>2 DEF Moved, Queued, SearchNow
  <2>2. ASSUME NEW p \in Procs, find_memory_partition(p) \/ PassOver(p)
        PROVE  Same /\ UNCHANGED <<state, first_run_time>> /\ pc # "advance"
    BY <2>2 DEF find_memory_partition, PassOver, Found, Same, times
  <2>3. ASSUME NEW m \in Partitions, LookAt(m) PROVE Same /\ UNCHANGED <<state, first_run_time>> /\ pc # "advance"
    BY <2>3 DEF LookAt, Same, times
  <2>4. ArrivalsDone => Same /\ UNCHANGED <<state, first_run_time>> /\ pc # "advance"
    BY DEF ArrivalsDone, Same, times
  <2>. HIDE DEF Same
  <2>. QED
    BY <1>1, <2>1, <2>2, <2>3, <2>4 DEF ArrivalStep
<1>2. CASE Wake
  <2>1. blocked_queue[i] \in Procs /\ state[blocked_queue[i]] = "WAITING"
    BY <1>2, WakeMoves
  <2>2. /\ Same /\ pc # "advance" /\ UNCHANGED first_run_time
        /\ state' = [state EXCEPT ![blocked_queue[i]] = "READY"]
    BY <1>2 DEF Wake, Same, times
  <2>. QED
    BY <2>1, <2>2 DEF Moved, Queued
<1>3. CASE StillBlocked
  BY <1>3 DEF StillBlocked, Same, times
<1>4. ASSUME NEW next \in Phases, SelectStep(next) PROVE Goal
  <2>1. CASE Dispatch(next)
    <3>1. Head(ready_queue) \in Procs /\ state[Head(ready_queue)] = "READY"
      BY <2>1, DispatchMoves
    <3>2. /\ Same /\ pc # "advance"
          /\ state' = [state EXCEPT ![Head(ready_queue)] = "RUNNING"]
      BY <2>1 DEF Dispatch, Same
    <3>3. first_run_time' =
            [first_run_time EXCEPT ![Head(ready_queue)] =
               IF first_run_time[Head(ready_queue)] = 0 THEN current_time ELSE @]
      BY <1>0, <2>1, <3>1 DEF Dispatch, TypeOK
    <3>. QED
      BY <3>1, <3>2, <3>3 DEF Moved, PutToRun
  <2>2. CASE IODone(next) \/ NoDispatch(next) \/ Idle(next)
    BY <2>2 DEF IODone, NoDispatch, Idle, Same, times
  <2>. QED
    BY <1>4, <2>1, <2>2 DEF SelectStep
<1>5. ASSUME NEW next, NEW p \in Procs, Execute(p, next)
      PROVE  /\ pc = "execute" /\ state[p] = "RUNNING"
             /\ remaining_cpu_time' = [remaining_cpu_time EXCEPT ![p] = Left(p)]
             /\ UNCHANGED <<job, current_time, first_run_time>>
             /\ state = [state EXCEPT ![p] = "RUNNING"]
  BY <1>0, <1>5, Executing DEF Execute, TypeOK
<1>6. ASSUME NEW next \in Phases, NEW p \in Procs, ExecuteStep(p, next) PROVE Goal
  <2>1. CASE Block(p, next)
    <3>1. RanOn(p, "WAITING")
      BY <2>1, <1>5 DEF Block, RanOn
    <3>. QED
      BY <3>1 DEF ProcessStates
  <2>2. CASE Complete(p, next)
    <3>1. RanOn(p, "TERMINATED")
      BY <2>2, <1>5 DEF Complete, RanOn
    <3>. QED
      BY <3>1 DEF ProcessStates
  <2>3. CASE KeepRunning(p, next)
    <3>1. RanOn(p, "RUNNING")
      BY <2>3, <1>5 DEF KeepRunning, RanOn
    <3>. QED
      BY <3>1 DEF ProcessStates
  <2>4. ASSUME NEW queue \in Joined(p), Preempt(p, queue, next) PROVE RanOn(p, "READY")
    BY <2>4, <1>5 DEF Preempt, RanOn
  <2>5. "READY" \in ProcessStates
    BY DEF ProcessStates
  <2>. QED
    BY <1>6, <2>1, <2>2, <2>3, <2>4, <2>5 DEF ExecuteStep
<1>7. ASSUME NEW p \in Procs, Crash(p) PROVE Goal
  <2>1. RanOn(p, "RUNNING")
    BY <1>7, <1>5 DEF Crash, RanOn
  <2>. QED
    BY <2>1 DEF ProcessStates
<1>8. CASE UNCHANGED svars
  <2>1. pc' = pc /\ Same /\ UNCHANGED <<state, first_run_time>>
    BY <1>8 DEF svars, Same, times
  <2>. QED
    BY <2>1
<1>. QED
  BY <1>0, <1>1, <1>2, <1>3, <1>4, <1>6, <1>7, <1>8 DEF AnyStep

-----------------------------------------------------------------------------
(***************************************************************************)
(* The metrics.                                                            *)
(***************************************************************************)
(* A process has run no longer than since it arrived.                      *)
RanByNow ==
  \A p \in Procs :
    /\ state[p] = "NEW" => Ran(p) = 0
    /\ state[p] # "NEW" => job[p].arrival_time + Ran(p) <= current_time + Ticked

CompletedByNow ==
  \A p \in Procs : state[p] = "TERMINATED" =>
    /\ remaining_cpu_time[p] = 0
    /\ job[p].arrival_time + job[p].total_cpu_time <= completion_time[p]
    /\ completion_time[p] <= current_time + Ticked

MetricsInv == SearchNow /\ RanByNow /\ CompletedByNow

LEMMA FieldTypes ==
  ASSUME TypeOK, NEW p \in Procs
  PROVE  /\ job[p].arrival_time \in uint /\ job[p].total_cpu_time \in uint
         /\ remaining_cpu_time[p] \in uint /\ completion_time[p] \in uint
         /\ first_run_time[p] \in uint /\ current_time \in uint /\ Ran(p) \in uint /\ Left(p) \in uint
         /\ UINT \in Nat \ {0} /\ uint = 0 .. UINT - 1
<1>1. /\ job[p].arrival_time \in uint /\ job[p].total_cpu_time \in uint
      /\ remaining_cpu_time[p] \in uint /\ completion_time[p] \in uint
      /\ first_run_time[p] \in uint /\ current_time \in uint
  BY JobType, LineType DEF TypeOK
<1>2. UINT \in Nat \ {0} /\ uint = 0 .. UINT - 1
  BY SchedulerAssumption DEF uint
<1>. QED
  BY <1>1, <1>2, OneUnitMore DEF Ran, Left

LEMMA RanNone ==
  ASSUME TypeOK, NEW p \in Procs
  PROVE  Ran(p) = 0 <=> remaining_cpu_time[p] = job[p].total_cpu_time
<1>1. job[p].total_cpu_time \in uint /\ remaining_cpu_time[p] \in uint
  BY FieldTypes
<1>2. \A a, b \in uint : Minus(a, b) = 0 <=> a = b
  BY OneUnitMore
<1>. QED
  BY <1>1, <1>2 DEF Ran

LEMMA RunsOneMore ==
  ASSUME TypeOK, ClockInRange, RanByNow, Ticked = 0,
         NEW p \in Procs, NEW s \in ProcessStates, RanOn(p, s)
  PROVE  /\ Ran(p)' = Ran(p) + 1
         /\ \A q \in Procs \ {p} : Ran(q)' = Ran(q)
<1>1. Ran(p) <= current_time /\ Ran(p) < UINT - 1
  <2>1. job[p].arrival_time + Ran(p) <= current_time + Ticked
    BY DEF RanOn, RanByNow
  <2>. QED
    BY <2>1, FieldTypes DEF ClockInRange
<1>2. job' = job /\ remaining_cpu_time' = [remaining_cpu_time EXCEPT ![p] = Left(p)]
      /\ remaining_cpu_time \in [Procs -> uint]
  BY DEF RanOn, TypeOK
<1>3. Minus(job[p].total_cpu_time, Left(p)) = Ran(p) + 1
  BY <1>1, FieldTypes, OneUnitMore DEF Ran, Left
<1>. QED
  BY <1>2, <1>3 DEF Ran

LEMMA SearchNowStep == ASSUME TypeOK, SearchNow, NextSimulator PROVE SearchNow'
<1>1. AnyStep
  BY EveryScheduler
<1>2. CASE ArrivalStep
  BY <1>2, ProcsFixed
     DEF ArrivalStep, find_memory_partition, ArrivesNow, PassOver, Admit, LookAt, ArrivalsDone,
         SearchNow
<1>3. pc' # "search" \/ pc' = pc \/ ArrivalStep
  BY <1>1 DEF AnyStep, Phases, SelectStep, ExecuteStep, Wake, StillBlocked, IODone, Dispatch,
              NoDispatch, Idle, Block, Complete, KeepRunning, Preempt, Execute, Crash, Advance,
              svars
<1>4. CASE UNCHANGED svars
  BY <1>4, ProcsFixed DEF svars, SearchNow
<1>5. CASE pc' # "search"
  BY <1>5 DEF SearchNow
<1>6. ASSUME pc = "search", ~ArrivalStep PROVE UNCHANGED svars
  BY <1>1, <1>6 DEF AnyStep, SelectStep, ExecuteStep, Wake, StillBlocked, IODone, Dispatch,
              NoDispatch, Idle, Block, Complete, KeepRunning, Preempt, Execute, Crash, Advance
<1>. QED
  BY <1>2, <1>3, <1>4, <1>5, <1>6

LEMMA MetricsStep ==
  ASSUME IInv, MetricsInv, ClockInRange, NextSimulator
  PROVE  RanByNow' /\ CompletedByNow'
<1>0. TypeOK /\ SearchNow /\ RanByNow /\ CompletedByNow
  BY DEF IInv, MetricsInv
<1>1. /\ Ticked \in {0, 1} /\ Ticked' \in {0, 1}
      /\ pc = "execute" => Ticked = 0 /\ Ticked' = 1
      /\ pc = "advance" => Ticked = 1
      /\ pc # "advance" \/ pc' = pc => Ticked <= Ticked'
  BY TickedOnce
<1>2. state \in [Procs -> ProcessStates]
  BY <1>0 DEF TypeOK
<1>3. CASE Same /\ UNCHANGED <<state, first_run_time>> /\ (pc # "advance" \/ pc' = pc)
  <2>1. Procs' = Procs /\ Ticked <= Ticked' /\ \A q \in Procs : Ran(q)' = Ran(q)
    BY <1>1, <1>3, ProcsFixed DEF Same, Ran
  <2>2. UNCHANGED <<job, current_time, remaining_cpu_time, completion_time, state>>
    BY <1>3 DEF Same
  <2>3. RanByNow'
    BY <1>0, <1>1, <2>1, <2>2, FieldTypes DEF RanByNow
  <2>4. CompletedByNow'
    BY <1>0, <1>1, <2>1, <2>2, FieldTypes DEF CompletedByNow
  <2>. QED
    BY <2>3, <2>4
<1>4. ASSUME NEW p \in Procs, Moved(p) PROVE RanByNow' /\ CompletedByNow'
  <2>1. Procs' = Procs /\ Ticked <= Ticked' /\ \A q \in Procs : Ran(q)' = Ran(q)
    BY <1>1, <1>4, ProcsFixed DEF Moved, Same, Ran
  <2>2. UNCHANGED <<job, current_time, remaining_cpu_time, completion_time>>
    BY <1>4 DEF Moved, Same
  <2>3. /\ state'[p] \in {"READY", "RUNNING"}
        /\ \A q \in Procs \ {p} : state'[q] = state[q]
    BY <1>2, <1>4 DEF Moved, Queued, PutToRun
  <2>4. job[p].arrival_time + Ran(p) <= current_time + Ticked
    <3>1. state[p] = "NEW" => job[p].arrival_time = current_time /\ Ran(p) = 0
      BY <1>0, <1>4 DEF Moved, Queued, PutToRun, RanByNow
    <3>2. state[p] # "NEW" => job[p].arrival_time + Ran(p) <= current_time + Ticked
      BY <1>0 DEF RanByNow
    <3>. QED
      BY <1>0, <1>1, <3>1, <3>2, FieldTypes
  <2>5. RanByNow'
    <3>1. ASSUME NEW q \in Procs
          PROVE  /\ state'[q] = "NEW" => Ran(q) = 0
                 /\ state'[q] # "NEW" => job[q].arrival_time + Ran(q) <= current_time + Ticked'
      <4>1. \/ q = p /\ state'[q] # "NEW"
            \/ q # p /\ state'[q] = state[q]
        BY <2>3
      <4>2. /\ state[q] = "NEW" => Ran(q) = 0
            /\ state[q] # "NEW" => job[q].arrival_time + Ran(q) <= current_time + Ticked
        BY <1>0 DEF RanByNow
      <4>3. /\ state'[q] = "NEW" => Ran(q) = 0
            /\ state'[q] # "NEW" => job[q].arrival_time + Ran(q) <= current_time + Ticked
        BY <2>4, <4>1, <4>2
      <4>4. /\ job[q].arrival_time + Ran(q) \in Int /\ current_time \in Int
            /\ Ticked \in Int /\ Ticked' \in Int
        BY <1>0, <1>1, FieldTypes
      <4>. QED
        BY <2>1, <4>3, <4>4
    <3>. QED
      BY <2>1, <2>2, <3>1 DEF RanByNow
  <2>6. CompletedByNow'
    <3>1. ASSUME NEW q \in Procs, state'[q] = "TERMINATED"
          PROVE  /\ remaining_cpu_time[q] = 0
                 /\ job[q].arrival_time + job[q].total_cpu_time <= completion_time[q]
                 /\ completion_time[q] <= current_time + Ticked'
      BY <1>0, <1>1, <2>1, <2>3, <3>1, FieldTypes DEF CompletedByNow
    <3>. QED
      BY <2>1, <2>2, <3>1 DEF CompletedByNow
  <2>. QED
    BY <2>5, <2>6
<1>5. ASSUME NEW p \in Procs, NEW s \in ProcessStates, RanOn(p, s)
      PROVE  RanByNow' /\ CompletedByNow'
  <2>1. Ticked = 0 /\ Ticked' = 1 /\ Procs' = Procs
    BY <1>1, <1>5, ProcsFixed DEF RanOn
  <2>2. Ran(p)' = Ran(p) + 1 /\ \A q \in Procs \ {p} : Ran(q)' = Ran(q)
    BY <1>0, <1>5, <2>1, RunsOneMore
  <2>3. /\ job' = job /\ current_time' = current_time /\ state'[p] = s /\ s # "NEW"
        /\ \A q \in Procs \ {p} : /\ state'[q] = state[q]
                                  /\ remaining_cpu_time'[q] = remaining_cpu_time[q]
                                  /\ completion_time'[q] = completion_time[q]
    BY <1>0, <1>2, <1>5 DEF RanOn, TypeOK
  <2>4. state[p] = "RUNNING" /\ job[p].arrival_time + Ran(p) <= current_time
    <3>1. state[p] = "RUNNING"
      BY <1>5 DEF RanOn
    <3>2. job[p].arrival_time + Ran(p) <= current_time + Ticked
      BY <1>0, <3>1 DEF RanByNow
    <3>. QED
      BY <1>0, <2>1, <3>1, <3>2, FieldTypes
  <2>5. RanByNow'
    <3>1. ASSUME NEW q \in Procs
          PROVE  /\ state'[q] = "NEW" => Ran(q)' = 0
                 /\ state'[q] # "NEW" => job[q].arrival_time + Ran(q)' <= current_time + 1
      <4>1. CASE q = p
        BY <1>0, <2>2, <2>3, <2>4, <4>1, FieldTypes
      <4>2. CASE q # p
        <5>1. /\ state[q] = "NEW" => Ran(q) = 0
              /\ state[q] # "NEW" => job[q].arrival_time + Ran(q) <= current_time + Ticked
          BY <1>0 DEF RanByNow
        <5>. QED
          BY <1>0, <2>1, <2>2, <2>3, <4>2, <5>1, FieldTypes
      <4>. QED
        BY <4>1, <4>2
    <3>. QED
      BY <2>1, <2>3, <3>1 DEF RanByNow
  <2>6. s = "TERMINATED" =>
          /\ remaining_cpu_time'[p] = 0
          /\ job[p].arrival_time + job[p].total_cpu_time <= completion_time'[p]
          /\ completion_time'[p] <= current_time + 1
    <3> SUFFICES ASSUME s = "TERMINATED"
                 PROVE  /\ remaining_cpu_time'[p] = 0
                        /\ job[p].arrival_time + job[p].total_cpu_time <= completion_time'[p]
                        /\ completion_time'[p] <= current_time + 1
      OBVIOUS
    <3>1. /\ remaining_cpu_time'[p] = 0
          /\ completion_time'[p] = Plus(current_time, 1)
      BY <1>0, <1>5 DEF RanOn, TypeOK
    <3>2. Plus(current_time, 1) = current_time + 1
      BY <1>0, FieldTypes, Reduced DEF Plus, ClockInRange
    <3>3. Ran(p)' = job[p].total_cpu_time
      BY <1>0, <2>3, <3>1, FieldTypes, OneUnitMore DEF Ran
    <3>. QED
      BY <1>0, <2>2, <2>4, <3>1, <3>2, <3>3, FieldTypes
  <2>7. CompletedByNow'
    <3>1. ASSUME NEW q \in Procs, state'[q] = "TERMINATED"
          PROVE  /\ remaining_cpu_time'[q] = 0
                 /\ job[q].arrival_time + job[q].total_cpu_time <= completion_time'[q]
                 /\ completion_time'[q] <= current_time + 1
      <4>1. CASE q = p
        BY <2>3, <2>6, <3>1, <4>1
      <4>2. CASE q # p
        <5>1. /\ remaining_cpu_time[q] = 0
              /\ job[q].arrival_time + job[q].total_cpu_time <= completion_time[q]
              /\ completion_time[q] <= current_time + Ticked
          BY <1>0, <2>3, <3>1, <4>2 DEF CompletedByNow
        <5>. QED
          BY <1>0, <2>1, <2>3, <4>2, <5>1, FieldTypes
      <4>. QED
        BY <4>1, <4>2
    <3>. QED
      BY <2>1, <2>3, <3>1 DEF CompletedByNow
  <2>. QED
    BY <2>5, <2>7
<1>6. CASE Advance
  <2>1. /\ Procs' = Procs /\ Ticked = 1 /\ \A q \in Procs : Ran(q)' = Ran(q)
        /\ UNCHANGED <<job, remaining_cpu_time, completion_time, state>>
        /\ current_time' = Plus(current_time, 1)
    BY <1>1, <1>6, ProcsFixed DEF Advance, Ran, times
  <2>2. Plus(current_time, 1) = current_time + 1
    <3>1. CASE Procs = {}
      <4>1. current_time \in uint /\ UINT \in Nat \ {0} /\ uint = 0 .. UINT - 1
        BY <1>0, SchedulerAssumption DEF TypeOK, uint
      <4>. QED
        BY <4>1, Reduced DEF Plus, ClockInRange
    <3>2. CASE Procs # {}
      BY <1>0, <3>2, FieldTypes, Reduced DEF Plus, ClockInRange
    <3>. QED
      BY <3>1, <3>2
  <2>3. RanByNow'
    BY <1>0, <1>1, <2>1, <2>2, FieldTypes DEF RanByNow
  <2>4. CompletedByNow'
    BY <1>0, <1>1, <2>1, <2>2, FieldTypes DEF CompletedByNow
  <2>. QED
    BY <2>3, <2>4
<1>. QED
  BY <1>0, <1>3, <1>4, <1>5, <1>6, TickKinds

(* A process that has not been dispatched, or was so at first_run_time or, *)
(* if it arrived at 0, before.                                             *)
NotDispatched(p) ==
  /\ state[p] \in {"NEW", "READY"} /\ first_run_time[p] = 0 /\ Ran(p) = 0
  /\ state[p] = "READY" => job[p].arrival_time <= current_time

RunsSinceDispatch(p) ==
  /\ state[p] # "NEW"
  /\ job[p].arrival_time <= first_run_time[p] /\ first_run_time[p] <= current_time
  /\ job[p].arrival_time > 0 => first_run_time[p] + Ran(p) <= current_time + Ticked

EndsAfterDispatch(p) ==
  state[p] = "TERMINATED" =>
    /\ first_run_time[p] < completion_time[p]
    /\ job[p].arrival_time > 0 =>
         first_run_time[p] + job[p].total_cpu_time <= completion_time[p]

FirstRunInv ==
  \A p \in Procs : (NotDispatched(p) \/ RunsSinceDispatch(p)) /\ EndsAfterDispatch(p)

LEMMA FirstRunStep ==
  ASSUME IInv, MetricsInv, FirstRunInv, ClockInRange, NextSimulator
  PROVE  FirstRunInv'
<1>0. TypeOK /\ SearchNow /\ RanByNow /\ CompletedByNow
  BY DEF IInv, MetricsInv
<1>1. /\ Ticked \in {0, 1} /\ Ticked' \in {0, 1}
      /\ pc = "execute" => Ticked = 0 /\ Ticked' = 1
      /\ pc = "advance" => Ticked = 1
      /\ pc # "advance" \/ pc' = pc => Ticked <= Ticked'
  BY TickedOnce
<1>2. Procs' = Procs /\ job' = job
  BY <1>0, TickKinds, ProcsFixed DEF IInv, Same, Moved, RanOn, Advance
<1>3. SUFFICES ASSUME NEW q \in Procs
               PROVE  (NotDispatched(q) \/ RunsSinceDispatch(q))' /\ EndsAfterDispatch(q)'
  BY <1>2 DEF FirstRunInv
<1>4. (NotDispatched(q) \/ RunsSinceDispatch(q)) /\ EndsAfterDispatch(q)
  BY DEF FirstRunInv
<1>5. /\ job[q].arrival_time \in Nat /\ job[q].total_cpu_time \in Nat
      /\ first_run_time[q] \in Nat /\ completion_time[q] \in Nat
      /\ current_time \in Nat /\ Ran(q) \in Nat
  <2>1. uint \subseteq Nat
    BY SchedulerAssumption DEF uint
  <2>. QED
    BY <1>0, <2>1, FieldTypes
<1>6. ASSUME UNCHANGED <<state[q], first_run_time[q], completion_time[q]>>, Ran(q)' = Ran(q),
             current_time' + Ticked' >= current_time + Ticked,
             current_time' \in Nat, current_time' >= current_time
      PROVE  (NotDispatched(q) \/ RunsSinceDispatch(q))' /\ EndsAfterDispatch(q)'
  <2>1. EndsAfterDispatch(q)'
    BY <1>2, <1>4, <1>6 DEF EndsAfterDispatch
  <2>2. NotDispatched(q) => NotDispatched(q)'
    BY <1>2, <1>5, <1>6 DEF NotDispatched
  <2>3. ASSUME RunsSinceDispatch(q) PROVE RunsSinceDispatch(q)'
    <3>1. first_run_time[q] <= current_time'
      BY <1>5, <1>6, <2>3 DEF RunsSinceDispatch
    <3>2. ASSUME job[q].arrival_time > 0
          PROVE  first_run_time[q] + Ran(q) <= current_time' + Ticked'
      <4>1. first_run_time[q] + Ran(q) <= current_time + Ticked
        BY <2>3, <3>2 DEF RunsSinceDispatch
      <4>2. /\ first_run_time[q] + Ran(q) \in Int /\ current_time + Ticked \in Int
            /\ current_time' + Ticked' \in Int
        BY <1>1, <1>5, <1>6
      <4>. QED
        BY <1>6, <4>1, <4>2
    <3>. QED
      BY <1>2, <1>6, <2>3, <3>1, <3>2 DEF RunsSinceDispatch
  <2>. QED
    BY <1>4, <2>1, <2>2, <2>3
<1>7. CASE Same /\ UNCHANGED <<state, first_run_time>> /\ (pc # "advance" \/ pc' = pc)
  <2>1. /\ Ran(q)' = Ran(q) /\ current_time' = current_time
        /\ UNCHANGED <<state[q], first_run_time[q], completion_time[q]>>
    BY <1>7 DEF Same, Ran
  <2>2. /\ current_time' + Ticked' >= current_time + Ticked
        /\ current_time' \in Nat /\ current_time' >= current_time
    <3>1. \A t \in Nat, k, l \in {0, 1} : k <= l => t + l >= t + k /\ t >= t
      OBVIOUS
    <3>2. current_time \in Nat /\ Ticked \in {0, 1} /\ Ticked' \in {0, 1} /\ Ticked <= Ticked'
      BY <1>1, <1>5, <1>7
    <3>3. current_time + Ticked' >= current_time + Ticked /\ current_time >= current_time
      BY <3>1, <3>2, Zenon
    <3>. QED
      BY <2>1, <3>2, <3>3, Zenon
  <2>. QED
    BY <1>6, <2>1, <2>2
<1>8. CASE Advance
  <2>1. /\ UNCHANGED <<remaining_cpu_time, state, first_run_time, completion_time>>
        /\ Ticked = 1 /\ current_time' = Plus(current_time, 1) /\ Ran(q)' = Ran(q)
    BY <1>1, <1>2, <1>8 DEF Advance, times, Ran
  <2>2. current_time' = current_time + 1
    BY <1>0, <2>1, FieldTypes, Reduced DEF Plus, ClockInRange
  <2>. QED
    BY <1>1, <1>5, <1>6, <2>1, <2>2
<1>9. ASSUME NEW p \in Procs, Moved(p)
      PROVE  (NotDispatched(q) \/ RunsSinceDispatch(q))' /\ EndsAfterDispatch(q)'
  <2>1. /\ UNCHANGED <<current_time, remaining_cpu_time, completion_time>>
        /\ Ran(q)' = Ran(q) /\ Ticked <= Ticked'
    BY <1>1, <1>9 DEF Moved, Same, Ran
  <2>2. /\ state \in [Procs -> ProcessStates] /\ first_run_time \in [Procs -> uint]
    BY <1>0 DEF TypeOK
  <2>3. CASE q # p
    <3>1. UNCHANGED <<state[q], first_run_time[q]>>
      BY <1>9, <2>2, <2>3 DEF Moved, Queued, PutToRun
    <3>2. /\ current_time' + Ticked' >= current_time + Ticked
          /\ current_time' \in Nat /\ current_time' >= current_time
      <4>1. \A t \in Nat, k, l \in {0, 1} : k <= l => t + l >= t + k /\ t >= t
        OBVIOUS
      <4>2. /\ current_time \in Nat /\ current_time' = current_time
            /\ Ticked \in {0, 1} /\ Ticked' \in {0, 1} /\ Ticked <= Ticked'
        BY <1>1, <1>5, <2>1
      <4>3. current_time + Ticked' >= current_time + Ticked /\ current_time >= current_time
        BY <4>1, <4>2, Zenon
      <4>. QED
        BY <4>2, <4>3, Zenon
    <3>. QED
      BY <1>6, <2>1, <3>1, <3>2
  <2>4. CASE q = p /\ Queued(q)
    <3>1. /\ state'[q] = "READY" /\ first_run_time' = first_run_time
          /\ state[q] = "NEW" => job[q].arrival_time = current_time
          /\ state[q] \in {"NEW", "WAITING"}
      BY <2>2, <2>4 DEF Queued
    <3>2. NotDispatched(q) => NotDispatched(q)'
      BY <1>2, <1>5, <2>1, <3>1 DEF NotDispatched
    <3>3. RunsSinceDispatch(q) => RunsSinceDispatch(q)'
      BY <1>1, <1>2, <1>5, <2>1, <3>1 DEF RunsSinceDispatch
    <3>. QED
      BY <1>4, <3>1, <3>2, <3>3 DEF EndsAfterDispatch
  <2>5. CASE q = p /\ PutToRun(q)
    <3>1. /\ state[q] = "READY" /\ state'[q] = "RUNNING"
          /\ first_run_time'[q] = IF first_run_time[q] = 0 THEN current_time ELSE first_run_time[q]
      BY <2>2, <2>5 DEF PutToRun
    <3>2. ASSUME NotDispatched(q) PROVE RunsSinceDispatch(q)'
      <4>1. job[q].arrival_time <= current_time /\ first_run_time'[q] = current_time
        BY <3>1, <3>2 DEF NotDispatched
      <4>2. Ran(q)' = 0
        BY <2>1, <3>2 DEF NotDispatched
      <4>3. current_time <= current_time /\ current_time + 0 <= current_time + Ticked'
        <5>1. \A t \in Nat, k \in {0, 1} : t <= t /\ t + 0 <= t + k
          OBVIOUS
        <5>2. current_time \in Nat /\ Ticked' \in {0, 1}
          BY <1>1, <1>5
        <5>. QED
          BY <5>1, <5>2, Zenon
      <4>. QED
        BY <1>2, <2>1, <3>1, <4>1, <4>2, <4>3 DEF RunsSinceDispatch
    <3>3. RunsSinceDispatch(q) => RunsSinceDispatch(q)'
      BY <1>1, <1>2, <1>5, <2>1, <3>1 DEF RunsSinceDispatch
    <3>. QED
      BY <1>4, <3>1, <3>2, <3>3 DEF EndsAfterDispatch
  <2>. QED
    BY <1>9, <2>3, <2>4, <2>5 DEF Moved
<1>10. ASSUME NEW p \in Procs, NEW s \in ProcessStates, RanOn(p, s)
       PROVE  (NotDispatched(q) \/ RunsSinceDispatch(q))' /\ EndsAfterDispatch(q)'
  <2>1. /\ UNCHANGED <<current_time, first_run_time>>
        /\ Ticked = 0 /\ Ticked' = 1 /\ state[p] = "RUNNING"
    BY <1>1, <1>10 DEF RanOn
  <2>2. Ran(p)' = Ran(p) + 1 /\ \A r \in Procs \ {p} : Ran(r)' = Ran(r)
    BY <1>0, <1>10, <2>1, RunsOneMore
  <2>3. CASE q # p
    <3>1. UNCHANGED <<state[q], completion_time[q]>>
      BY <1>0, <1>10, <2>3 DEF RanOn, TypeOK
    <3>. QED
      BY <1>5, <1>6, <2>1, <2>2, <2>3, <3>1
  <2>4. CASE q = p
    <3>1. RunsSinceDispatch(q)
      BY <1>4, <2>1, <2>4 DEF NotDispatched
    <3>2. state'[q] = s /\ s # "NEW" /\ Ran(q)' = Ran(q) + 1
      BY <1>0, <1>10, <2>2, <2>4 DEF RanOn, TypeOK
    <3>3. RunsSinceDispatch(q)'
      BY <1>2, <1>5, <2>1, <3>1, <3>2 DEF RunsSinceDispatch
    <3>4. ASSUME s = "TERMINATED"
          PROVE  /\ completion_time'[q] = current_time + 1
                 /\ Ran(q)' = job[q].total_cpu_time
      <4>1. /\ completion_time'[q] = Plus(current_time, 1)
            /\ remaining_cpu_time'[q] = 0
        BY <1>0, <1>10, <2>4, <3>4 DEF RanOn, TypeOK
      <4>2. Plus(current_time, 1) = current_time + 1
        BY <1>0, FieldTypes, Reduced DEF Plus, ClockInRange
      <4>3. Ran(q)' = job[q].total_cpu_time
        BY <1>0, <1>2, <4>1, FieldTypes, OneUnitMore DEF Ran
      <4>. QED
        BY <4>1, <4>2, <4>3
    <3>5. EndsAfterDispatch(q)'
      BY <1>2, <1>5, <2>1, <3>2, <3>3, <3>4 DEF EndsAfterDispatch, RunsSinceDispatch
    <3>. QED
      BY <3>3, <3>5
  <2>. QED
    BY <2>3, <2>4
<1>. QED
  BY <1>0, <1>7, <1>8, <1>9, <1>10, TickKinds

LEMMA MetricsInit == InitSimulator => MetricsInv
<1> SUFFICES ASSUME InitSimulator PROVE MetricsInv
  OBVIOUS
<1>1. Init /\ TypeOK
  BY InitType DEF InitSimulator, InitRR
<1>2. \A p \in Procs : state[p] = "NEW" /\ remaining_cpu_time[p] = job[p].total_cpu_time
  BY <1>1 DEF Init
<1>3. \A p \in Procs : Ran(p) = 0
  BY <1>1, <1>2, FieldTypes, OneUnitMore DEF Ran
<1>4. pc = "arrivals"
  BY <1>1 DEF Init
<1>. QED
  BY <1>2, <1>3, <1>4 DEF MetricsInv, SearchNow, RanByNow, CompletedByNow

LEMMA MetricsKept ==
  ASSUME IInv, MetricsInv, ClockInRange, [NextSimulator]_vars
  PROVE  MetricsInv'
<1>1. CASE NextSimulator
  BY <1>1, MetricsStep, SearchNowStep DEF MetricsInv, IInv
<1>2. CASE UNCHANGED vars
  BY <1>2, ProcsFixed
     DEF vars, svars, times, MetricsInv, SearchNow, RanByNow, CompletedByNow, Ticked, Ran
<1>. QED
  BY <1>1, <1>2

LEMMA MetricsInductive == Spec /\ []ClockInRange => []MetricsInv
<1>1. IInv /\ MetricsInv /\ ClockInRange /\ [NextSimulator]_vars => MetricsInv'
  BY MetricsKept
<1>. QED
  BY <1>1, MetricsInit, Inductive, PTL DEF Spec

LEMMA FirstRunInductive == Spec /\ []ClockInRange => []FirstRunInv
<1>1. InitSimulator => FirstRunInv
  <2> SUFFICES ASSUME InitSimulator, NEW p \in Procs
               PROVE  NotDispatched(p) /\ EndsAfterDispatch(p)
    BY DEF FirstRunInv
  <2>1. state[p] = "NEW" /\ first_run_time[p] = 0
    BY DEF InitSimulator, InitRR, Init
  <2>2. Ran(p) = 0
    BY <2>1, MetricsInit DEF MetricsInv, RanByNow
  <2>. QED
    BY <2>1, <2>2 DEF NotDispatched, EndsAfterDispatch
<1>2. IInv /\ MetricsInv /\ ClockInRange /\ FirstRunInv /\ [NextSimulator]_vars => FirstRunInv'
  <2>1. UNCHANGED vars /\ FirstRunInv => FirstRunInv'
    BY ProcsFixed
       DEF vars, svars, times, FirstRunInv, NotDispatched, RunsSinceDispatch, EndsAfterDispatch,
           Ran, Ticked
  <2>. QED
    BY <2>1, FirstRunStep
<1>. QED
  BY <1>1, <1>2, MetricsInductive, Inductive, PTL DEF Spec

(* The difference of two unsigned ints that does not wrap around.          *)
LEMMA NoWrap ==
  ASSUME NEW a \in uint, NEW b \in uint, b <= a
  PROVE  Minus(a, b) = a - b /\ Minus(a, b) \in uint
<1>1. UINT \in Nat \ {0} /\ uint = 0 .. UINT - 1
  BY SchedulerAssumption DEF uint
<1>. QED
  BY <1>1, Reduced DEF Minus

(* Whatever the scheduler and the input, as long as the clock does not     *)
(* wrap around, no subtraction of calculate_metrics does: turnaround, wait *)
(* and response time of a process that has terminated are the differences  *)
(* they are meant to be, the response comes before the completion, and for *)
(* a process that did not arrive at 0 it is part of the wait.              *)
THEOREM MetricsMakeSense == Spec /\ []ClockInRange => []MetricsSound
<1>1. IInv /\ MetricsInv /\ FirstRunInv => MetricsSound
  <2> SUFFICES ASSUME IInv, MetricsInv, FirstRunInv, NEW p \in Procs, state[p] = "TERMINATED"
               PROVE  /\ remaining_cpu_time[p] = 0
                      /\ completion_time[p] <= current_time + 1
                      /\ turnaround_time(p) = completion_time[p] - job[p].arrival_time
                      /\ wait_time(p) = turnaround_time(p) - job[p].total_cpu_time
                      /\ response_time(p) = first_run_time[p] - job[p].arrival_time
                      /\ response_time(p) < turnaround_time(p)
                      /\ job[p].arrival_time > 0 => response_time(p) <= wait_time(p)
    BY DEF MetricsSound
  <2>1. TypeOK /\ Ticked \in {0, 1}
    BY DEF IInv, Ticked
  <2>2. /\ job[p].arrival_time \in uint /\ job[p].total_cpu_time \in uint
        /\ completion_time[p] \in uint /\ first_run_time[p] \in uint /\ current_time \in uint
    BY <2>1, FieldTypes
  <2>3. /\ job[p].arrival_time \in Nat /\ job[p].total_cpu_time \in Nat
        /\ completion_time[p] \in Nat /\ first_run_time[p] \in Nat /\ current_time \in Nat
    <3>1. uint \subseteq Nat
      BY SchedulerAssumption DEF uint
    <3>. QED
      BY <2>2, <3>1
  <2>4. /\ remaining_cpu_time[p] = 0
        /\ job[p].arrival_time + job[p].total_cpu_time <= completion_time[p]
        /\ completion_time[p] <= current_time + Ticked
    BY DEF MetricsInv, CompletedByNow
  <2>5. /\ job[p].arrival_time <= first_run_time[p]
        /\ first_run_time[p] < completion_time[p]
        /\ job[p].arrival_time > 0 =>
             first_run_time[p] + job[p].total_cpu_time <= completion_time[p]
    BY DEF FirstRunInv, NotDispatched, RunsSinceDispatch, EndsAfterDispatch
  <2>6. /\ turnaround_time(p) = completion_time[p] - job[p].arrival_time
        /\ turnaround_time(p) \in uint
    <3>1. job[p].arrival_time <= completion_time[p]
      BY <2>3, <2>4
    <3>. QED
      BY <2>2, <3>1, NoWrap DEF turnaround_time
  <2>7. wait_time(p) = turnaround_time(p) - job[p].total_cpu_time
    <3>1. job[p].total_cpu_time <= turnaround_time(p)
      BY <2>3, <2>4, <2>6
    <3>. QED
      BY <2>2, <2>6, <3>1, NoWrap DEF wait_time
  <2>8. response_time(p) = first_run_time[p] - job[p].arrival_time
    BY <2>2, <2>5, NoWrap DEF response_time
  <2>9. /\ response_time(p) < turnaround_time(p)
        /\ job[p].arrival_time > 0 => response_time(p) <= wait_time(p)
    BY <2>3, <2>5, <2>6, <2>7, <2>8
  <2>10. completion_time[p] <= current_time + 1
    BY <2>1, <2>3, <2>4
  <2>. QED
    BY <2>4, <2>6, <2>7, <2>8, <2>9, <2>10
<1>. QED
  BY <1>1, MetricsInductive, FirstRunInductive, Inductive, PTL

-----------------------------------------------------------------------------
(***************************************************************************)
(* The end of the simulation.  check_all_processes_done passes over the    *)
(* processes that have not arrived, so the loop ends at a gap in the input *)
(* where all earlier processes have terminated.  There is none when every  *)
(* process arrives while an earlier one must still be there.               *)
(***************************************************************************)
NoGaps ==
  \A w \in Workloads : \A p \in 1 .. Len(w) :
    w[p].arrival_time = 0
    \/ \E q \in 1 .. Len(w) : /\ w[q].arrival_time < w[p].arrival_time
                              /\ w[p].arrival_time <= w[q].arrival_time + w[q].total_cpu_time

DoneWhenAll == pc = "done" => check_all_processes_done(current_time)

LEMMA LeastOf ==
  ASSUME NEW T, T \subseteq Nat, T # {}
  PROVE  \E k \in T : \A y \in T : k <= y
<1>1. PICK k \in T : \A y \in T : <<y, k>> \notin OpToRel(<, Nat)
  BY WFMin, NatLessThanWellFounded
<1>2. ASSUME NEW y \in T PROVE k <= y
  <2>1. y \in Nat /\ k \in Nat
    OBVIOUS
  <2>2. y < k => <<y, k>> \in OpToRel(<, Nat)
    BY <2>1 DEF OpToRel
  <2>3. ~(y < k)
    BY <1>1, <2>2
  <2>. QED
    BY <2>1, <2>3
<1>. QED
  BY <1>2

LEMMA DoneStep == ASSUME DoneWhenAll, [NextSimulator]_vars PROVE DoneWhenAll'
<1>1. CASE Advance
  BY <1>1, ProcsFixed DEF Advance, DoneWhenAll, check_all_processes_done
<1>2. CASE UNCHANGED svars
  BY <1>2, ProcsFixed DEF svars, DoneWhenAll, check_all_processes_done
<1>3. pc' # "done" \/ Advance \/ UNCHANGED svars
  <2>1. AnyStep
    BY EveryScheduler DEF vars, AnyStep
  <2>2. ArrivalStep \/ Wake \/ StillBlocked => pc' # "done"
    BY DEF ArrivalStep, find_memory_partition, PassOver, Admit, LookAt, ArrivalsDone, Wake,
           StillBlocked
  <2>3. ASSUME NEW next \in Phases, SelectStep(next) PROVE pc' # "done"
    BY <2>3 DEF Phases, SelectStep, IODone, Dispatch, NoDispatch, Idle
  <2>4. ASSUME NEW next \in Phases, NEW p \in Procs, ExecuteStep(p, next) PROVE pc' # "done"
    BY <2>4 DEF Phases, ExecuteStep, Block, Complete, KeepRunning, Preempt, Execute
  <2>5. ASSUME NEW p \in Procs, Crash(p) PROVE pc' # "done"
    BY <2>5 DEF Crash, Execute
  <2>. QED
    BY <2>1, <2>2, <2>3, <2>4, <2>5 DEF AnyStep
<1>. QED
  BY <1>1, <1>2, <1>3 DEF DoneWhenAll

LEMMA NobodyLeft ==
  ASSUME NoGaps, TypeOK, MetricsInv, DoneWhenAll
  PROVE  AllServed
<1> DEFINE T == {p \in Procs : state[p] # "TERMINATED"}
           times_of_T == {job[p].arrival_time : p \in T}
<1>1. SUFFICES ASSUME pc = "done", T # {} PROVE FALSE
  BY DEF AllServed
<1>2. \A p \in T : state[p] = "NEW" /\ job[p].arrival_time > current_time
  BY <1>1 DEF DoneWhenAll, check_all_processes_done
<1>3. times_of_T \subseteq Nat /\ times_of_T # {}
  BY <1>1, FieldTypes
<1>4. PICK k \in times_of_T : \A y \in times_of_T : k <= y
  BY <1>3, LeastOf
<1>5. PICK p \in T : job[p].arrival_time = k
  BY <1>4
<1>6. job \in Workloads /\ Procs = 1 .. Len(job)
  BY DEF TypeOK, Procs
<1>7. PICK q \in Procs : /\ job[q].arrival_time < job[p].arrival_time
                         /\ job[p].arrival_time <= job[q].arrival_time + job[q].total_cpu_time
  <2>1. job[p].arrival_time # 0
    <3>1. current_time \in Nat /\ job[p].arrival_time \in Nat
      BY FieldTypes
    <3>. QED
      BY <1>2, <3>1
  <2>. QED
    BY <1>6, <2>1 DEF NoGaps
<1>8. q \notin T
  <2>1. ASSUME q \in T PROVE FALSE
    <3>1. k <= job[q].arrival_time /\ job[q].arrival_time < k
      BY <1>4, <1>5, <1>7, <2>1
    <3>2. k \in Int /\ job[q].arrival_time \in Int
      BY <1>5, FieldTypes
    <3>. QED
      BY <3>1, <3>2
  <2>. QED
    BY <2>1
<1>9. /\ job[q].arrival_time + job[q].total_cpu_time <= completion_time[q]
      /\ completion_time[q] <= current_time
  <2>1. Ticked = 0
    BY <1>1 DEF Ticked
  <2>. QED
    BY <1>8, <2>1, FieldTypes DEF MetricsInv, CompletedByNow
<1>10. /\ current_time \in Nat /\ completion_time[q] \in Nat
       /\ job[p].arrival_time \in Nat /\ job[q].arrival_time + job[q].total_cpu_time \in Nat
  <2>1. p \in Procs /\ q \in Procs
    OBVIOUS
  <2>2. \A r \in Procs : /\ job[r].arrival_time \in Nat /\ job[r].total_cpu_time \in Nat
                         /\ completion_time[r] \in Nat /\ current_time \in Nat
    <3> SUFFICES ASSUME NEW r \in Procs
                 PROVE  /\ job[r].arrival_time \in Nat /\ job[r].total_cpu_time \in Nat
                        /\ completion_time[r] \in Nat /\ current_time \in Nat
      OBVIOUS
    <3>1. uint \subseteq Nat
      BY SchedulerAssumption DEF uint
    <3>2. /\ job[r].arrival_time \in uint /\ job[r].total_cpu_time \in uint
          /\ completion_time[r] \in uint /\ current_time \in uint
      BY FieldTypes
    <3>. QED
      BY <3>1, <3>2
  <2>. HIDE DEF T
  <2>. QED
    BY <2>1, <2>2
<1>11. job[p].arrival_time > current_time
  BY <1>2
<1>. QED
  BY <1>7, <1>9, <1>10, <1>11

(* Without a gap in the input the loop ends only when every process has    *)
(* terminated: none is left out because it had not arrived.                *)
THEOREM EveryProcessServed == NoGaps => (Spec /\ []ClockInRange => []AllServed)
<1> SUFFICES ASSUME NoGaps PROVE Spec /\ []ClockInRange => []AllServed
  OBVIOUS
<1>1. InitSimulator => DoneWhenAll
  BY DEF InitSimulator, InitRR, Init, DoneWhenAll
<1>2. DoneWhenAll /\ [NextSimulator]_vars => DoneWhenAll'
  BY DoneStep
<1>3. IInv /\ MetricsInv /\ DoneWhenAll => AllServed
  BY NobodyLeft DEF IInv
<1>. QED
  BY <1>1, <1>2, <1>3, MetricsInductive, Inductive, PTL DEF Spec

-----------------------------------------------------------------------------
(***************************************************************************)
(* Round robin: the quantum.                                               *)
(***************************************************************************)
LEMMA HistoriesFollow == NextMC => NextSimulator
  BY DEF NextMC

LEMMA InductiveMC == SpecMC => []IInv
<1>1. InitMC => IInv
  BY InitIInv DEF InitMC, InitSimulator, InitRR
<1>2. IInv /\ [NextMC]_mcvars => IInv'
  BY StepIInv, HistoriesFollow DEF mcvars
<1>. QED
  BY <1>1, <1>2, PTL DEF SpecMC

QuantumInv ==
  TYPE = "RR" =>
    /\ time_in_quantum \in 0 .. RR_QUANTUM - 1
    /\ \A p \in Procs : state[p] = "RUNNING" => used[p] = time_in_quantum

(* A step of round robin: nothing happens to a process, one joins the      *)
(* queue, is dispatched, leaves the processor with or without its quantum  *)
(* used up, or runs on.                                                    *)
RRStays ==
  /\ UNCHANGED <<job, state, ready_queue, running_process, time_in_quantum>>
  /\ \/ pc = "execute" /\ pc' = "select" /\ running_process = NULL
     \/ pc = "select" /\ pc' = "advance" /\ ~CanDispatch
     \/ pc = "advance" /\ pc' \in {"arrivals", "done"}
     \/ {pc, pc'} \subseteq {"arrivals", "search", "io", "done"}
     \/ pc = "io" /\ pc' = "execute"

RRJoins(p) ==
  /\ state[p] \in {"NEW", "WAITING"} /\ state' = [state EXCEPT ![p] = "READY"]
  /\ ready_queue' = Append(ready_queue, p)
  /\ pc \in {"search", "io"} /\ pc' \in {"arrivals", "io"}
  /\ UNCHANGED <<job, running_process, time_in_quantum>>

RRDispatch == Dispatch("advance") /\ time_in_quantum' = 0

RRLeaves(p) ==
  /\ Execute(p, "select") /\ running_process' = NULL /\ time_in_quantum' = 0
  /\ \E s \in {"WAITING", "TERMINATED"} : state' = [state EXCEPT ![p] = s]
  /\ UNCHANGED ready_queue

LEMMA RRKinds ==
  ASSUME IInv, TYPE = "RR", NextSimulator
  PROVE  \/ RRStays
         \/ RRDispatch
         \/ \E p \in Procs : RRJoins(p) \/ RRLeaves(p) \/ Expire(p) \/ KeepRunningRR(p)
<1>0. NextRR /\ TypeOK /\ OnePlace
  BY DEF NextSimulator, IInv
<1>1. CASE BeforeExecution
  <2>1. time_in_quantum' = time_in_quantum
    BY <1>1 DEF BeforeExecution
  <2>2. CASE \E p \in Procs : Admit(p, Append(ready_queue, p))
    <3>1. PICK p \in Procs : Admit(p, Append(ready_queue, p))
      BY <2>2
    <3>2. state[p] = "NEW"
      BY <3>1, AdmitMoves DEF Joined
    <3>3. RRJoins(p)
      BY <2>1, <3>1, <3>2 DEF RRJoins, Admit, Found
    <3>. QED
      BY <3>3
  <2>3. CASE Wake
    <3>1. blocked_queue[i] \in Procs /\ state[blocked_queue[i]] = "WAITING"
      BY <2>3, WakeMoves
    <3>2. RRJoins(blocked_queue[i])
      BY <2>1, <2>3, <3>1 DEF RRJoins, Wake
    <3>. QED
      BY <3>1, <3>2
  <2>4. CASE Arrivals \/ StillBlocked \/ IODone("execute")
    <3>1. RRStays
      BY <2>1, <2>4
         DEF RRStays, Arrivals, find_memory_partition, PassOver, Found, LookAt, ArrivalsDone,
             StillBlocked, IODone
    <3>. QED
      BY <3>1
  <2>. QED
    BY <1>1, <2>2, <2>3, <2>4 DEF BeforeExecution
<1>2. CASE ExecuteRR
  <2>1. ASSUME NEW p \in Procs, BlockRR(p) \/ CompleteRR(p) PROVE RRLeaves(p)
    BY <2>1 DEF BlockRR, CompleteRR, Block, Complete, RRLeaves
  <2>. QED
    BY <1>2, <2>1 DEF ExecuteRR
<1>3. CASE IdleRR
  <2>1. RRStays
    BY <1>3 DEF IdleRR, Idle, RRStays
  <2>. QED
    BY <2>1
<1>4. CASE Select
  <2>1. NoDispatch("advance") /\ UNCHANGED time_in_quantum => RRStays
    BY DEF NoDispatch, RRStays
  <2>. QED
    BY <1>4, <2>1 DEF Select, RRDispatch
<1>5. CASE AfterExecution
  <2>1. RRStays
    BY <1>5 DEF AfterExecution, Advance, Terminated, svars, RRStays
  <2>. QED
    BY <2>1
<1>. QED
  BY <1>0, <1>1, <1>2, <1>3, <1>4, <1>5 DEF NextRR

LEMMA QuantumStep == ASSUME IInv, QuantumInv, NextMC PROVE QuantumInv'
<1>0. NextSimulator /\ TypeOK /\ OnePlace /\ TYPE' = TYPE
  BY HistoriesFollow DEF IInv, NextSimulator
<1>1. SUFFICES ASSUME TYPE = "RR"
               PROVE  /\ time_in_quantum' \in 0 .. RR_QUANTUM - 1
                      /\ \A p \in Procs' : state'[p] = "RUNNING" => used'[p] = time_in_quantum'
  BY <1>0 DEF QuantumInv
<1>2. /\ time_in_quantum \in 0 .. RR_QUANTUM - 1 /\ RR_QUANTUM \in Nat \ {0}
      /\ \A p \in Procs : state[p] = "RUNNING" => used[p] = time_in_quantum
  BY <1>1, SimulatorAssumption DEF QuantumInv
<1>3. \A p \in Procs :
        used'[p] = IF state[p] = "READY" THEN 0
                   ELSE IF pc = "execute" /\ p = running_process THEN used[p] + 1
                   ELSE used[p]
  BY <1>1 DEF NextMC
<1>4. state \in [Procs -> ProcessStates]
  BY <1>0 DEF TypeOK
<1>5. \A p \in Procs : state[p] = "RUNNING" <=> p = running_process
  BY <1>0 DEF OnePlace
<1>6. CASE RRStays
  BY <1>2, <1>3, <1>5, <1>6, ProcsFixed, NullIsNone, <1>0 DEF RRStays
<1>7. CASE RRDispatch
  <2>1. /\ Head(ready_queue) \in Procs /\ state[Head(ready_queue)] = "READY"
        /\ state' = [state EXCEPT ![Head(ready_queue)] = "RUNNING"]
        /\ running_process = NULL /\ time_in_quantum' = 0 /\ job' = job
    BY <1>7, DispatchMoves DEF RRDispatch, Dispatch
  <2>2. \A p \in Procs : state'[p] = "RUNNING" => p = Head(ready_queue)
    BY <1>0, <1>4, <1>5, <2>1, NullIsNone
  <2>3. used'[Head(ready_queue)] = 0
    BY <1>3, <2>1
  <2>4. 0 \in 0 .. RR_QUANTUM - 1
    BY <1>2
  <2>. QED
    BY <2>1, <2>2, <2>3, <2>4, ProcsFixed
<1>8. ASSUME NEW p \in Procs, RRJoins(p)
      PROVE  /\ time_in_quantum' \in 0 .. RR_QUANTUM - 1
             /\ \A q \in Procs' : state'[q] = "RUNNING" => used'[q] = time_in_quantum'
  BY <1>2, <1>3, <1>4, <1>8, ProcsFixed DEF RRJoins
<1>9. ASSUME NEW p \in Procs, RRLeaves(p) \/ Expire(p)
      PROVE  /\ time_in_quantum' \in 0 .. RR_QUANTUM - 1
             /\ \A q \in Procs' : state'[q] = "RUNNING" => used'[q] = time_in_quantum'
  <2>1. /\ running_process = p /\ time_in_quantum' = 0 /\ job' = job
        /\ \E s \in {"WAITING", "TERMINATED", "READY"} : state' = [state EXCEPT ![p] = s]
    BY <1>9 DEF RRLeaves, Expire, Preempt, Execute
  <2>2. \A q \in Procs : state'[q] # "RUNNING"
    BY <1>4, <1>5, <2>1
  <2>. QED
    BY <1>2, <2>1, <2>2, ProcsFixed
<1>10. ASSUME NEW p \in Procs, KeepRunningRR(p)
       PROVE  /\ time_in_quantum' \in 0 .. RR_QUANTUM - 1
              /\ \A q \in Procs' : state'[q] = "RUNNING" => used'[q] = time_in_quantum'
  <2>1. /\ running_process = p /\ pc = "execute" /\ time_in_quantum' = time_in_quantum + 1
        /\ job' = job /\ state' = state /\ ~QuantumExpires
    BY <1>10 DEF KeepRunningRR, KeepRunning, Execute
  <2>2. time_in_quantum + 1 < RR_QUANTUM
    BY <1>2, <2>1 DEF QuantumExpires
  <2>. QED
    BY <1>2, <1>3, <1>5, <2>1, <2>2, ProcsFixed
<1>. QED
  BY <1>0, <1>1, <1>6, <1>7, <1>8, <1>9, <1>10, RRKinds

LEMMA QuantumInductive == SpecMC => []QuantumInv
<1>1. InitMC => QuantumInv
  BY SimulatorAssumption DEF InitMC, InitSimulator, InitRR, Init, QuantumInv
<1>2. IInv /\ QuantumInv /\ [NextMC]_mcvars => QuantumInv'
  <2>1. UNCHANGED mcvars /\ QuantumInv => QuantumInv'
    BY ProcsFixed DEF mcvars, vars, svars, QuantumInv
  <2>. QED
    BY <2>1, QuantumStep
<1>. QED
  BY <1>1, <1>2, InductiveMC, PTL DEF SpecMC

(* Under round robin a process that is put back into the queue has run     *)
(* exactly RR_QUANTUM units since it was dispatched.                       *)
THEOREM QuantumIsWhole == SpecMC => WholeQuantum
<1> DEFINE Whole == TYPE = "RR" => \A p \in Procs :
             state[p] = "RUNNING" /\ state'[p] = "READY" => used'[p] = RR_QUANTUM
<1>1. IInv /\ QuantumInv /\ [NextMC]_mcvars => [Whole]_mcvars
  <2> SUFFICES ASSUME IInv, QuantumInv, NextMC, TYPE = "RR", NEW p \in Procs,
                      state[p] = "RUNNING", state'[p] = "READY"
               PROVE  used'[p] = RR_QUANTUM
    OBVIOUS
  <2>0. NextSimulator /\ TypeOK /\ OnePlace
    BY HistoriesFollow DEF IInv
  <2>1. state \in [Procs -> ProcessStates] /\ running_process = p
    BY <2>0 DEF TypeOK, OnePlace
  <2>2. \E q \in Procs : Expire(q)
    <3>1. ~RRStays
      BY DEF RRStays
    <3>2. ~RRDispatch
      <4>1. ASSUME RRDispatch PROVE FALSE
        <5>1. Head(ready_queue) \in Procs /\ state[Head(ready_queue)] = "READY"
              /\ state' = [state EXCEPT ![Head(ready_queue)] = "RUNNING"]
          BY <4>1, DispatchMoves DEF RRDispatch, Dispatch
        <5>. QED
          BY <2>1, <5>1
      <4>. QED
        BY <4>1
    <3>3. ASSUME NEW q \in Procs PROVE ~RRJoins(q) /\ ~RRLeaves(q) /\ ~KeepRunningRR(q)
      BY <2>1 DEF RRJoins, RRLeaves, KeepRunningRR, KeepRunning
    <3>. QED
      BY <2>0, <3>1, <3>2, <3>3, RRKinds
  <2>3. QuantumExpires /\ pc = "execute"
    BY <2>2 DEF Expire, Preempt, Execute
  <2>4. used'[p] = used[p] + 1 /\ used[p] = time_in_quantum
    BY <2>1, <2>3 DEF NextMC, QuantumInv
  <2>. QED
    BY <2>3, <2>4, SimulatorAssumption DEF QuantumExpires, QuantumInv
<1>. QED
  BY <1>1, InductiveMC, QuantumInductive, PTL DEF SpecMC, WholeQuantum

-----------------------------------------------------------------------------
(***************************************************************************)
(* Round robin: the longest wait.  The process at place k of the ready     *)
(* queue has k - 1 quanta before it, and what is left of the one that      *)
(* runs; the time it has waited is paid for by the other processes.        *)
(***************************************************************************)
RunLeft == IF running_process = NULL THEN 0 ELSE RR_QUANTUM - time_in_quantum

(* The unit of the running process that this tick has not counted yet.     *)
Slack == IF running_process # NULL /\ pc \notin {"select", "advance"} THEN 1 ELSE 0

Room ==
  \A k \in 1 .. Len(ready_queue) :
    waited[ready_queue[k]] + (k - 1) * RR_QUANTUM + RunLeft <= WaitLimit + Slack

WaitInv ==
  /\ \A p \in Procs : /\ waited[p] \in Nat
                      /\ TYPE # "RR" \/ state[p] # "READY" => waited[p] = 0
  /\ TYPE = "RR" => /\ pc = "advance" /\ running_process = NULL => ready_queue = <<>>
                    /\ Room

LEMMA Quanta ==
  ASSUME NEW a \in Int, NEW b \in Int, NEW q \in Nat, a <= b
  PROVE  a * q \in Int /\ b * q \in Int /\ a * q <= b * q /\ (a + 1) * q = a * q + q
<1>1. a * q <= b * q
  BY SMT
<1>2. (a + 1) * q = a * q + q
  BY SMT
<1>. QED
  BY <1>1, <1>2

LEMMA Balance ==
  ASSUME NEW v \in Int, NEW w \in Int, NEW x \in Int, NEW y \in Int, NEW d \in Int,
         NEW r \in Int, NEW r1 \in Int, NEW s \in Int, NEW s1 \in Int,
         v <= w + d, w + x + r <= y + s, d + r1 + s <= r + s1
  PROVE  v + x + r1 <= y + s1
  OBVIOUS

LEMMA BalanceAlike ==
  ASSUME NEW v \in Int, NEW w \in Int, NEW x \in Int, NEW y \in Int,
         NEW r \in Int, NEW r1 \in Int, NEW s \in Int, NEW s1 \in Int,
         v <= w, w + x + r <= y + s, r1 + s <= r + s1
  PROVE  v + x + r1 <= y + s1
  OBVIOUS

LEMMA NoLongerThan ==
  ASSUME NEW n \in Nat, NEW q \in Seq(1 .. n), IsInjective(q)
  PROVE  Len(q) <= n
<1>1. /\ Len(q) \in Nat /\ q \in [1 .. Len(q) -> 1 .. n]
      /\ \A a, b \in 1 .. Len(q) : q[a] = q[b] => a = b
  BY QueueMembers, LenProperties
<1>2. \A m \in Nat : IsFiniteSet(1 .. m) /\ Cardinality(1 .. m) = m
  <2>1. ASSUME NEW m \in Nat PROVE IsFiniteSet(1 .. m) /\ Cardinality(1 .. m) = m
    <3>1. IsFiniteSet(1 .. m) /\ Cardinality(1 .. m) = IF 1 > m THEN 0 ELSE m - 1 + 1
      BY FS_Interval
    <3>. QED
      BY <3>1
  <2>. QED
    BY <2>1
<1>3. SUFFICES ASSUME n < Len(q) PROVE FALSE
  BY <1>1
<1>4. \E x, y \in 1 .. Len(q) : x # y /\ q[x] = q[y]
  BY <1>1, <1>2, <1>3, FS_PigeonHole
<1>. QED
  BY <1>1, <1>4

(* There is room in the queue for a process that is not in it, and for one *)
(* more if another is running.                                             *)
LEMMA QueueShort ==
  ASSUME TypeOK, OnePlace, NEW p \in Procs, state[p] # "READY"
  PROVE  /\ Len(ready_queue) + 1 <= Len(job)
         /\ running_process # NULL /\ running_process # p => Len(ready_queue) + 2 <= Len(job)
<1>1. /\ ready_queue \in Seq(Procs) /\ IsInjective(ready_queue) /\ p \notin ToSet(ready_queue)
      /\ running_process \in Procs \cup {NULL}
      /\ Len(job) \in Nat /\ Procs = 1 .. Len(job)
  BY JobType DEF TypeOK, OnePlace
<1>2. Len(ready_queue) \in Nat /\ \A s \in Seq(Procs), e \in Procs : Len(Append(s, e)) = Len(s) + 1
  BY <1>1, LenProperties, AppendProperties
<1> DEFINE q == Append(ready_queue, p)
<1>3. /\ q \in Seq(Procs) /\ IsInjective(q) /\ ToSet(q) = ToSet(ready_queue) \cup {p}
      /\ Len(q) = Len(ready_queue) + 1
  BY <1>1, <1>2, JoinAtTail
<1>4. Len(q) <= Len(job)
  BY <1>1, <1>3, NoLongerThan
<1>5. ASSUME running_process # NULL, running_process # p
      PROVE  Len(ready_queue) + 2 <= Len(job)
  <2> DEFINE r == Append(q, running_process)
  <2>1. running_process \in Procs /\ state[running_process] = "RUNNING"
    BY <1>1, <1>5 DEF OnePlace
  <2>2. running_process \notin ToSet(q)
    BY <1>3, <1>5, <2>1 DEF OnePlace
  <2>3. r \in Seq(Procs) /\ IsInjective(r) /\ Len(r) = Len(q) + 1
    BY <1>2, <1>3, <2>1, <2>2, JoinAtTail
  <2>4. Len(r) <= Len(job)
    BY <1>1, <2>3, NoLongerThan
  <2>. QED
    BY <1>1, <1>2, <1>3, <2>3, <2>4
<1>. QED
  BY <1>1, <1>2, <1>3, <1>4, <1>5

(* The queue stays; what the processes have waited more, the processor has *)
(* run more.                                                               *)
LEMMA RoomKept ==
  ASSUME TypeOK, Room, NEW d \in Nat, job' = job, ready_queue' = ready_queue,
         \A p \in Procs : waited[p] \in Nat /\ waited'[p] \in Nat /\ waited'[p] <= waited[p] + d,
         RunLeft \in Int, RunLeft' \in Int, Slack \in Int, Slack' \in Int,
         d + RunLeft' + Slack <= RunLeft + Slack'
  PROVE  Room'
<1>1. /\ Len(job) \in Nat /\ RR_QUANTUM \in Nat /\ ready_queue \in Seq(Procs)
  BY JobType, SimulatorAssumption DEF TypeOK
<1>2. WaitLimit \in Int /\ WaitLimit' = WaitLimit
  BY <1>1 DEF WaitLimit
<1>3. SUFFICES ASSUME NEW k \in 1 .. Len(ready_queue)
               PROVE  waited'[ready_queue[k]] + (k - 1) * RR_QUANTUM + RunLeft'
                        <= WaitLimit + Slack'
  BY <1>2 DEF Room
<1>4. waited[ready_queue[k]] + (k - 1) * RR_QUANTUM + RunLeft <= WaitLimit + Slack
  BY DEF Room
<1>5. Len(ready_queue) \in Nat /\ ready_queue[k] \in Procs /\ k \in Int
  BY <1>1, LenProperties, ElementOfSeq
<1>6. (k - 1) * RR_QUANTUM \in Int
  BY <1>1, <1>5
<1> DEFINE x == (k - 1) * RR_QUANTUM
           w == waited[ready_queue[k]]
           v == waited'[ready_queue[k]]
<1>7. w \in Nat /\ v \in Nat /\ v <= w + d
  BY <1>5
<1>8. x \in Int /\ w + x + RunLeft <= WaitLimit + Slack
  BY <1>4, <1>6
<1> HIDE DEF x, w, v
<1>9. v + x + RunLeft' <= WaitLimit + Slack'
  <2>1. v \in Int /\ w \in Int /\ d \in Int
    BY <1>7
  <2>. QED
    BY <1>2, <1>7, <1>8, <2>1, Balance
<1>. QED
  BY <1>9 DEF x, w, v

(* A process joins the queue at its tail; it has not waited yet.           *)
LEMMA RoomForOneMore ==
  ASSUME TypeOK, Room, NEW p \in Procs, job' = job, ready_queue' = Append(ready_queue, p),
         \A q \in Procs : waited[q] \in Nat /\ waited'[q] \in Nat /\ waited'[q] <= waited[q],
         RunLeft \in Int, RunLeft' \in Int, Slack \in Int, Slack' \in Int,
         RunLeft' + Slack <= RunLeft + Slack',
         waited'[p] = 0, Len(ready_queue) * RR_QUANTUM + RunLeft' <= WaitLimit + Slack'
  PROVE  Room'
<1>1. /\ Len(job) \in Nat /\ RR_QUANTUM \in Nat /\ ready_queue \in Seq(Procs)
  BY JobType, SimulatorAssumption DEF TypeOK
<1>2. WaitLimit \in Int /\ WaitLimit' = WaitLimit
  BY <1>1 DEF WaitLimit
<1>3. /\ Len(ready_queue) \in Nat /\ Len(ready_queue') = Len(ready_queue) + 1
      /\ \A k \in 1 .. Len(ready_queue) : ready_queue'[k] = ready_queue[k]
      /\ ready_queue'[Len(ready_queue) + 1] = p
  BY <1>1, LenProperties, AppendProperties
<1>4. SUFFICES ASSUME NEW k \in 1 .. Len(ready_queue')
               PROVE  waited'[ready_queue'[k]] + (k - 1) * RR_QUANTUM + RunLeft'
                        <= WaitLimit + Slack'
  BY <1>2 DEF Room
<1>5. CASE k = Len(ready_queue) + 1
  <2>1. k - 1 = Len(ready_queue) /\ ready_queue'[k] = p
    BY <1>3, <1>5
  <2>2. Len(ready_queue) * RR_QUANTUM \in Int
    BY <1>1, <1>3
  <2>. QED
    BY <2>1, <2>2
<1>6. CASE k # Len(ready_queue) + 1
  <2>1. k \in 1 .. Len(ready_queue) /\ ready_queue'[k] = ready_queue[k]
    BY <1>3, <1>6
  <2>2. waited[ready_queue[k]] + (k - 1) * RR_QUANTUM + RunLeft <= WaitLimit + Slack
    BY <2>1 DEF Room
  <2>3. ready_queue[k] \in Procs /\ k \in Int
    BY <1>1, <2>1, <1>3, ElementOfSeq
  <2>4. (k - 1) * RR_QUANTUM \in Int
    BY <1>1, <2>3
  <2> DEFINE x == (k - 1) * RR_QUANTUM
             w == waited[ready_queue[k]]
             v == waited'[ready_queue[k]]
  <2>5. w \in Nat /\ v \in Nat /\ v <= w
    BY <2>3
  <2>6. x \in Int /\ w + x + RunLeft <= WaitLimit + Slack
    BY <2>2, <2>4
  <2> HIDE DEF x, w, v
  <2>7. v + x + RunLeft' <= WaitLimit + Slack'
    <3>1. v \in Int /\ w \in Int
      BY <2>5
    <3>. QED
      BY <1>2, <2>5, <2>6, <3>1, BalanceAlike
  <2>. QED
    BY <2>1, <2>7 DEF x, w, v
<1>. QED
  BY <1>5, <1>6

(* The head of the queue is dispatched: a quantum less to wait for.        *)
LEMMA RoomForTheRest ==
  ASSUME TypeOK, OnePlace, Room, job' = job, ready_queue # <<>>, ready_queue' = Tail(ready_queue),
         \A q \in Procs : waited[q] \in Nat /\ waited'[q] \in Nat /\ waited'[q] <= waited[q],
         RunLeft = 0, RunLeft' = RR_QUANTUM, Slack = 0, Slack' = 0
  PROVE  Room'
<1>1. /\ Len(job) \in Nat /\ RR_QUANTUM \in Nat /\ ready_queue \in Seq(Procs)
  BY JobType, SimulatorAssumption DEF TypeOK
<1>2. WaitLimit \in Int /\ WaitLimit' = WaitLimit
  BY <1>1 DEF WaitLimit
<1>3. /\ Len(ready_queue) \in Nat \ {0} /\ Len(ready_queue') = Len(ready_queue) - 1
      /\ \A k \in 1 .. Len(ready_queue') : ready_queue'[k] = ready_queue[k + 1]
  BY <1>1, LenProperties, HeadTailProperties, EmptySeq
<1>4. SUFFICES ASSUME NEW k \in 1 .. Len(ready_queue')
               PROVE  waited'[ready_queue'[k]] + (k - 1) * RR_QUANTUM + RunLeft'
                        <= WaitLimit + Slack'
  BY <1>2 DEF Room
<1>5. /\ k + 1 \in 1 .. Len(ready_queue) /\ ready_queue'[k] = ready_queue[k + 1] /\ k \in Int
  BY <1>3
<1>6. waited[ready_queue[k + 1]] + ((k + 1) - 1) * RR_QUANTUM + RunLeft <= WaitLimit + Slack
  BY <1>5 DEF Room
<1>7. ready_queue[k + 1] \in Procs /\ (k + 1) - 1 = k
  BY <1>1, <1>5, ElementOfSeq
<1>8. /\ (k - 1) * RR_QUANTUM \in Int /\ k * RR_QUANTUM = (k - 1) * RR_QUANTUM + RR_QUANTUM
  <2>1. k - 1 \in Int /\ (k - 1) + 1 = k /\ k - 1 <= k - 1
    BY <1>5
  <2>. QED
    BY <1>1, <2>1, Quanta
<1> DEFINE x == (k - 1) * RR_QUANTUM
           y == k * RR_QUANTUM
           w == waited[ready_queue[k + 1]]
           v == waited'[ready_queue[k + 1]]
<1>9. w \in Nat /\ v \in Nat /\ v <= w
  BY <1>7
<1>10. x \in Int /\ y = x + RR_QUANTUM /\ w + y + 0 <= WaitLimit + 0
  BY <1>6, <1>7, <1>8
<1> HIDE DEF x, y, w, v
<1>11. v + x + RR_QUANTUM <= WaitLimit + 0
  BY <1>1, <1>2, <1>9, <1>10
<1>. QED
  BY <1>5, <1>11 DEF x, w, v


LEMMA WaitTypes ==
  ASSUME IInv, QuantumInv, WaitInv, TYPE = "RR"
  PROVE  /\ RR_QUANTUM \in Nat \ {0} /\ Len(job) \in Nat /\ WaitLimit \in Int
         /\ RunLeft \in 0 .. RR_QUANTUM /\ Slack \in 0 .. 1
         /\ running_process = NULL => RunLeft = 0 /\ Slack = 0
         /\ running_process # NULL => RunLeft \in 1 .. RR_QUANTUM
<1>1. RR_QUANTUM \in Nat \ {0} /\ Len(job) \in Nat
  BY JobType, SimulatorAssumption DEF IInv
<1>2. WaitLimit \in Int
  BY <1>1 DEF WaitLimit
<1>3. time_in_quantum \in 0 .. RR_QUANTUM - 1
  BY DEF QuantumInv
<1>4. /\ running_process = NULL => RunLeft = 0 /\ Slack = 0
      /\ running_process # NULL => RunLeft \in 1 .. RR_QUANTUM
  BY <1>1, <1>3 DEF RunLeft, Slack
<1>5. Slack \in 0 .. 1
  BY DEF Slack
<1>. QED
  BY <1>1, <1>2, <1>4, <1>5

(* Whoever joins the queue has at most the others before it.               *)
LEMMA RoomAtTail ==
  ASSUME IInv, QuantumInv, WaitInv, TYPE = "RR", NEW p \in Procs, state[p] # "READY"
  PROVE  /\ Len(ready_queue) * RR_QUANTUM \in Int
         /\ Len(ready_queue) * RR_QUANTUM <= WaitLimit
         /\ running_process # p => Len(ready_queue) * RR_QUANTUM + RunLeft <= WaitLimit
<1>1. TypeOK /\ OnePlace /\ ready_queue \in Seq(Procs)
  BY DEF IInv, TypeOK
<1>2. /\ RR_QUANTUM \in Nat \ {0} /\ Len(job) \in Nat
      /\ RunLeft \in 0 .. RR_QUANTUM /\ (running_process = NULL => RunLeft = 0)
  BY WaitTypes
<1>3. Len(ready_queue) \in Nat
  BY <1>1, LenProperties
<1>4. /\ Len(ready_queue) + 1 <= Len(job)
      /\ running_process # NULL /\ running_process # p => Len(ready_queue) + 2 <= Len(job)
  BY <1>1, QueueShort
<1> DEFINE n == Len(ready_queue)
           l == Len(job) - 1
<1>5. n \in Int /\ l \in Int /\ n <= l /\ (running_process # NULL /\ running_process # p => n + 1 <= l)
  BY <1>2, <1>3, <1>4
<1>6. WaitLimit = l * RR_QUANTUM
  BY DEF WaitLimit
<1>. HIDE DEF n, l
<1>7. /\ n * RR_QUANTUM \in Int /\ l * RR_QUANTUM \in Int /\ n * RR_QUANTUM <= l * RR_QUANTUM
      /\ (n + 1) * RR_QUANTUM = n * RR_QUANTUM + RR_QUANTUM
  BY <1>2, <1>5, Quanta
<1>8. n + 1 <= l => (n + 1) * RR_QUANTUM <= l * RR_QUANTUM
  BY <1>2, <1>5, Quanta
<1>9. ASSUME running_process # p PROVE n * RR_QUANTUM + RunLeft <= l * RR_QUANTUM
  <2>1. CASE running_process = NULL
    BY <1>2, <1>7, <2>1
  <2>2. CASE running_process # NULL
    <3>1. n * RR_QUANTUM + RR_QUANTUM <= l * RR_QUANTUM
      BY <1>5, <1>7, <1>8, <1>9, <2>2
    <3> DEFINE x == n * RR_QUANTUM
               y == l * RR_QUANTUM
    <3>2. x \in Int /\ y \in Int /\ x + RR_QUANTUM <= y
      BY <1>7, <3>1
    <3>. HIDE DEF x, y
    <3>3. x + RunLeft <= y
      BY <1>2, <3>2
    <3>. QED
      BY <3>3 DEF x, y
  <2>. QED
    BY <2>1, <2>2
<1>. QED
  BY <1>6, <1>7, <1>9 DEF n

(* The times waited, after a step.                                         *)
LEMMA WaitedStep ==
  ASSUME IInv, QuantumInv, WaitInv, TYPE = "RR", NextMC, job' = job
  PROVE  \A p \in Procs :
           /\ waited[p] \in Nat /\ waited'[p] \in Nat /\ waited'[p] <= waited[p] + 1
           /\ pc # "advance" => waited'[p] <= waited[p]
           /\ state'[p] # "READY" \/ (state[p] # "READY" /\ pc # "advance") => waited'[p] = 0
<1> SUFFICES ASSUME NEW p \in Procs
             PROVE  /\ waited[p] \in Nat /\ waited'[p] \in Nat /\ waited'[p] <= waited[p] + 1
                    /\ pc # "advance" => waited'[p] <= waited[p]
                    /\ state'[p] # "READY" \/ (state[p] # "READY" /\ pc # "advance")
                         => waited'[p] = 0
  OBVIOUS
<1>1. waited[p] \in Nat /\ (state[p] # "READY" => waited[p] = 0)
  BY DEF WaitInv
<1>2. waited'[p] = IF state'[p] # "READY" THEN 0
                   ELSE IF pc = "advance" /\ waited[p] <= WaitLimit THEN waited[p] + 1
                   ELSE waited[p]
  BY DEF NextMC
<1>. QED
  BY <1>1, <1>2

LEMMA RoomStep ==
  ASSUME IInv, QuantumInv, QuantumInv', WaitInv, TYPE = "RR", NextMC
  PROVE  /\ Room' /\ job' = job
         /\ pc' = "advance" /\ running_process' = NULL => ready_queue' = <<>>
<1>0. NextSimulator /\ TypeOK /\ OnePlace /\ Room
  BY HistoriesFollow DEF IInv, WaitInv
<1>1. /\ RR_QUANTUM \in Nat \ {0} /\ WaitLimit \in Int
      /\ RunLeft \in 0 .. RR_QUANTUM /\ Slack \in 0 .. 1
      /\ running_process = NULL => RunLeft = 0 /\ Slack = 0
      /\ running_process # NULL => RunLeft \in 1 .. RR_QUANTUM
  BY WaitTypes
<1>2. RunLeft \in Int /\ Slack \in Int
  BY <1>1
<1>3. /\ state \in [Procs -> ProcessStates] /\ NULL \notin Procs
      /\ \A p \in Procs : state[p] = "RUNNING" <=> p = running_process
  BY <1>0, NullIsNone DEF TypeOK, OnePlace
<1>4. time_in_quantum \in 0 .. RR_QUANTUM - 1
  BY DEF QuantumInv
<1>5. CASE RRStays
  <2>1. UNCHANGED <<job, ready_queue, running_process>> /\ RunLeft' = RunLeft
    BY <1>5 DEF RRStays, RunLeft
  <2>2. pc' = "advance" => ~CanDispatch
    BY <1>5 DEF RRStays
  <2>3. CASE pc = "advance"
    <3>1. running_process = NULL => ready_queue = <<>>
      BY <2>3 DEF WaitInv
    <3>2. Slack = 0 /\ (running_process # NULL => Slack' = 1) /\ pc' # "advance"
      BY <1>5, <2>1, <2>3 DEF RRStays, Slack
    <3>3. CASE running_process = NULL
      <4>1. ready_queue' = <<>>
        BY <2>1, <3>1, <3>3
      <4>. QED
        BY <2>1, <3>2, <4>1 DEF Room
    <3>4. CASE running_process # NULL
      <4>1. /\ Slack' \in Int /\ RunLeft' \in Int /\ 1 \in Nat
            /\ 1 + RunLeft' + Slack <= RunLeft + Slack'
        BY <1>2, <2>1, <3>2, <3>4
      <4>2. Room'
        BY <1>0, <1>2, <2>1, <4>1, WaitedStep, RoomKept
      <4>. QED
        BY <2>1, <3>2, <4>2
    <3>. QED
      BY <3>3, <3>4
  <2>4. CASE pc # "advance"
    <3>1. Slack' = Slack
      BY <1>5, <2>4 DEF RRStays, Slack
    <3>2. /\ Slack' \in Int /\ RunLeft' \in Int /\ 0 \in Nat
          /\ 0 + RunLeft' + Slack <= RunLeft + Slack'
      BY <1>2, <2>1, <3>1
    <3>3. \A p \in Procs : waited[p] \in Nat /\ waited'[p] \in Nat /\ waited'[p] <= waited[p] + 0
      BY <2>1, <2>4, WaitedStep
    <3>4. Room'
      BY <1>0, <1>2, <2>1, <3>2, <3>3, RoomKept
    <3>. QED
      BY <2>1, <2>2, <3>4 DEF CanDispatch
  <2>. QED
    BY <2>3, <2>4
<1>6. CASE RRDispatch
  <2>1. /\ Head(ready_queue) \in Procs /\ running_process = NULL
        /\ running_process' = Head(ready_queue) /\ time_in_quantum' = 0 /\ job' = job
        /\ ready_queue' = Tail(ready_queue) /\ ready_queue # <<>>
        /\ pc = "select" /\ pc' = "advance"
    BY <1>6, DispatchMoves DEF RRDispatch, Dispatch, CanDispatch
  <2>2. RunLeft = 0 /\ RunLeft' = RR_QUANTUM /\ Slack = 0 /\ Slack' = 0
    BY <1>1, <1>3, <2>1 DEF RunLeft, Slack
  <2>3. \A p \in Procs : waited[p] \in Nat /\ waited'[p] \in Nat /\ waited'[p] <= waited[p]
    BY <2>1, WaitedStep
  <2>4. Room'
    BY <1>0, <2>1, <2>2, <2>3, RoomForTheRest
  <2>. QED
    BY <1>3, <2>1, <2>4
<1>7. ASSUME NEW p \in Procs, RRJoins(p)
      PROVE  Room' /\ job' = job /\ pc' # "advance"
  <2>1. /\ UNCHANGED <<job, running_process, time_in_quantum>>
        /\ ready_queue' = Append(ready_queue, p)
        /\ state[p] \notin {"READY", "RUNNING"}
        /\ pc \in {"search", "io"} /\ pc' \in {"arrivals", "io"}
    BY <1>7 DEF RRJoins
  <2>2. RunLeft' = RunLeft /\ Slack' = Slack
    BY <2>1 DEF RunLeft, Slack
  <2>3. running_process # p
    BY <1>3, <2>1
  <2>4. /\ Len(ready_queue) * RR_QUANTUM \in Int
        /\ Len(ready_queue) * RR_QUANTUM + RunLeft <= WaitLimit
    BY <2>1, <2>3, RoomAtTail
  <2>5. Len(ready_queue) * RR_QUANTUM + RunLeft' <= WaitLimit + Slack'
    <3> DEFINE x == Len(ready_queue) * RR_QUANTUM
    <3>1. x \in Int /\ x + RunLeft <= WaitLimit
      BY <2>4
    <3>. HIDE DEF x
    <3>2. x + RunLeft <= WaitLimit + Slack
      BY <1>1, <1>2, <3>1
    <3>. QED
      BY <2>2, <3>2 DEF x
  <2>6. /\ \A q \in Procs : waited[q] \in Nat /\ waited'[q] \in Nat /\ waited'[q] <= waited[q]
        /\ waited'[p] = 0
    BY <2>1, WaitedStep
  <2>7. RunLeft' \in Int /\ Slack' \in Int /\ RunLeft' + Slack <= RunLeft + Slack'
    BY <1>2, <2>2
  <2>8. Room'
    BY <1>0, <1>2, <2>1, <2>5, <2>6, <2>7, RoomForOneMore
  <2>. QED
    BY <2>1, <2>8
<1>8. ASSUME NEW p \in Procs, RRLeaves(p) \/ Expire(p)
      PROVE  Room' /\ job' = job /\ pc' # "advance"
  <2>1. /\ running_process = p /\ running_process' = NULL /\ job' = job
        /\ pc = "execute" /\ pc' = "select"
        /\ \/ ready_queue' = ready_queue
           \/ ready_queue' = Append(ready_queue, p)
    BY <1>8 DEF RRLeaves, Expire, Preempt, Execute
  <2>2. running_process # NULL /\ state[p] # "READY"
    BY <1>3, <2>1
  <2>3. RunLeft' = 0 /\ Slack = 1 /\ Slack' = 0 /\ RunLeft \in 1 .. RR_QUANTUM
    BY <1>1, <2>1, <2>2 DEF RunLeft, Slack
  <2>4. /\ RunLeft' \in Int /\ Slack' \in Int /\ RunLeft' + Slack <= RunLeft + Slack'
        /\ 0 + RunLeft' + Slack <= RunLeft + Slack' /\ 0 \in Nat
    BY <2>3
  <2>5. /\ \A q \in Procs : /\ waited[q] \in Nat /\ waited'[q] \in Nat
                            /\ waited'[q] <= waited[q] /\ waited'[q] <= waited[q] + 0
        /\ waited'[p] = 0
    BY <2>1, <2>2, WaitedStep
  <2>6. CASE ready_queue' = ready_queue
    <3>1. Room'
      BY <1>0, <1>2, <2>1, <2>4, <2>5, <2>6, RoomKept
    <3>. QED
      BY <2>1, <3>1
  <2>7. CASE ready_queue' = Append(ready_queue, p)
    <3>1. Len(ready_queue) * RR_QUANTUM \in Int /\ Len(ready_queue) * RR_QUANTUM <= WaitLimit
      BY <2>2, RoomAtTail
    <3>2. Len(ready_queue) * RR_QUANTUM + RunLeft' <= WaitLimit + Slack'
      BY <1>1, <2>3, <3>1
    <3>3. Room'
      BY <1>0, <1>2, <2>1, <2>4, <2>5, <2>7, <3>2, RoomForOneMore
    <3>. QED
      BY <2>1, <3>3
  <2>. QED
    BY <2>1, <2>6, <2>7
<1>9. ASSUME NEW p \in Procs, KeepRunningRR(p)
      PROVE  Room' /\ job' = job /\ pc' # "advance"
  <2>1. /\ running_process = p /\ pc = "execute" /\ pc' = "select"
        /\ time_in_quantum' = time_in_quantum + 1
        /\ UNCHANGED <<job, running_process, ready_queue>>
    BY <1>9 DEF KeepRunningRR, KeepRunning, Execute
  <2>2. running_process # NULL
    BY <1>3, <2>1
  <2>3. RunLeft' = RunLeft - 1 /\ Slack = 1 /\ Slack' = 0
    BY <1>1, <1>4, <2>1, <2>2 DEF RunLeft, Slack
  <2>4. /\ RunLeft' \in Int /\ Slack' \in Int
        /\ 0 + RunLeft' + Slack <= RunLeft + Slack' /\ 0 \in Nat
    BY <1>2, <2>3
  <2>5. \A q \in Procs : waited[q] \in Nat /\ waited'[q] \in Nat /\ waited'[q] <= waited[q] + 0
    BY <2>1, WaitedStep
  <2>6. Room'
    BY <1>0, <1>2, <2>1, <2>4, <2>5, RoomKept
  <2>. QED
    BY <2>1, <2>6
<1>. QED
  BY <1>0, <1>5, <1>6, <1>7, <1>8, <1>9, RRKinds

LEMMA WaitStep == ASSUME IInv, QuantumInv, QuantumInv', WaitInv, NextMC PROVE WaitInv'
<1>0. NextSimulator /\ TypeOK /\ TYPE' = TYPE
  BY HistoriesFollow DEF IInv, NextSimulator
<1>1. CASE TYPE = "RR"
  <2>1. /\ Room' /\ job' = job
        /\ pc' = "advance" /\ running_process' = NULL => ready_queue' = <<>>
    BY <1>1, RoomStep
  <2>2. \A p \in Procs' : waited'[p] \in Nat /\ (state'[p] # "READY" => waited'[p] = 0)
    BY <1>1, <2>1, WaitedStep, ProcsFixed
  <2>. QED
    BY <1>0, <1>1, <2>1, <2>2 DEF WaitInv
<1>2. CASE TYPE # "RR"
  <2>1. waited' = waited
    BY <1>2 DEF NextMC
  <2>2. job' = job
    <3>1. StepKind
      BY <1>0, EveryScheduler, StepKinds
    <3>. QED
      BY <3>1 DEF StepKind, Quiet, StaysPut, Admits, MovesOn, Leaves, Moves
  <2>3. \A p \in Procs : waited[p] = 0
    BY <1>2 DEF WaitInv
  <2>. QED
    BY <1>0, <1>2, <2>1, <2>2, <2>3, ProcsFixed DEF WaitInv
<1>. QED
  BY <1>1, <1>2

(* Under round robin a process that queues up is dispatched again after at *)
(* most one quantum for every other process, however long the input is.    *)
THEOREM NobodyStarves == SpecMC => []BoundedWaiting
<1>1. InitMC => WaitInv
  <2>1. ASSUME InitMC PROVE WaitInv
    <3>1. /\ \A p \in Procs : waited[p] = 0
          /\ pc # "advance" /\ Len(ready_queue) = 0
      BY <2>1 DEF InitMC, InitSimulator, InitRR, Init
    <3>. QED
      BY <3>1 DEF WaitInv, Room
  <2>. QED
    BY <2>1
<1>2. IInv /\ QuantumInv /\ QuantumInv' /\ WaitInv /\ [NextMC]_mcvars => WaitInv'
  <2>1. UNCHANGED mcvars /\ WaitInv => WaitInv'
    BY ProcsFixed
       DEF mcvars, vars, svars, WaitInv, Room, RunLeft, Slack, WaitLimit
  <2>. QED
    BY <2>1, WaitStep
<1>3. IInv /\ QuantumInv /\ WaitInv => BoundedWaiting
  <2> SUFFICES ASSUME IInv, QuantumInv, WaitInv, NEW p \in Procs
               PROVE  waited[p] <= WaitLimit
    BY DEF BoundedWaiting
  <2>1. TypeOK /\ OnePlace /\ Len(job) \in Nat /\ p \in 1 .. Len(job)
    BY JobType DEF IInv
  <2>2. RR_QUANTUM \in Nat /\ waited[p] \in Nat
    BY SimulatorAssumption DEF WaitInv
  <2>3. WaitLimit \in Int /\ 0 <= WaitLimit
    <3>1. 0 \in Int /\ Len(job) - 1 \in Int /\ 0 <= Len(job) - 1
      BY <2>1
    <3>2. 0 * RR_QUANTUM <= (Len(job) - 1) * RR_QUANTUM /\ (Len(job) - 1) * RR_QUANTUM \in Int
      BY <2>2, <3>1, Quanta
    <3>3. 0 * RR_QUANTUM = 0
      BY <2>2
    <3>. QED
      BY <3>2, <3>3 DEF WaitLimit
  <2>4. CASE TYPE # "RR" \/ state[p] # "READY"
    BY <2>3, <2>4 DEF WaitInv
  <2>5. CASE TYPE = "RR" /\ state[p] = "READY"
    <3>1. PICK k \in 1 .. Len(ready_queue) : ready_queue[k] = p
      <4>1. p \in ToSet(ready_queue) /\ ready_queue \in Seq(Procs)
        BY <2>1, <2>5 DEF OnePlace, TypeOK
      <4>. QED
        BY <4>1, QueueMembers
    <3>2. waited[p] + (k - 1) * RR_QUANTUM + RunLeft <= WaitLimit + Slack
      BY <2>5, <3>1 DEF WaitInv, Room
    <3>3. Len(ready_queue) \in Nat
      BY <2>1, LenProperties DEF TypeOK
    <3>4. 0 <= (k - 1) * RR_QUANTUM /\ (k - 1) * RR_QUANTUM \in Int
      <4>1. 0 \in Int /\ k - 1 \in Int /\ 0 <= k - 1
        BY <3>3
      <4>2. 0 * RR_QUANTUM <= (k - 1) * RR_QUANTUM /\ (k - 1) * RR_QUANTUM \in Int
        BY <2>2, <4>1, Quanta
      <4>. QED
        BY <2>2, <4>2
    <3>5. RunLeft \in Int /\ Slack \in Int /\ Slack <= RunLeft
      BY <2>5, WaitTypes
    <3> DEFINE x == (k - 1) * RR_QUANTUM
    <3>6. x \in Int /\ 0 <= x /\ waited[p] + x + RunLeft <= WaitLimit + Slack
      BY <3>2, <3>4
    <3>. HIDE DEF x
    <3>. QED
      BY <2>2, <2>3, <3>5, <3>6
  <2>. QED
    BY <2>4, <2>5
<1>. QED
  BY <1>1, <1>2, <1>3, InductiveMC, QuantumInductive, PTL DEF SpecMC


-----------------------------------------------------------------------------
(***************************************************************************)
(* First come, first served.                                               *)
(***************************************************************************)
Earlier(p, q) ==
  \/ job[p].arrival_time < job[q].arrival_time
  \/ job[p].arrival_time = job[q].arrival_time /\ p < q

Ahead(p, q) ==
  \E a, b \in 1 .. Len(ready_queue) : a < b /\ ready_queue[a] = p /\ ready_queue[b] = q

(* The loop over the table has passed the processes it has admitted.       *)
AdmittedInOrder ==
  \A p \in Procs : state[p] # "NEW" =>
    \/ job[p].arrival_time < current_time
    \/ job[p].arrival_time = current_time /\ (pc \in {"arrivals", "search"} => p < i)

(* Who has left the processor has run.                                     *)
HasRun == \A p \in Procs : state[p] \in {"WAITING", "TERMINATED"} => Ran(p) # 0

(* Behind a process that has not run yet, those that arrived later have    *)
(* not run either.                                                         *)
FreshFirst ==
  \A p, q \in Procs :
    Earlier(p, q) /\ state[p] = "READY" /\ Ran(p) = 0 /\ state[q] # "NEW" =>
      Ran(q) = 0 /\ Ahead(p, q)

FCFSInv == TYPE = "FCFS" => AdmittedInOrder /\ HasRun /\ FreshFirst

(* A step of run_fcfs: nothing happens to a process, one joins the queue   *)
(* by its arrival or after its I/O, is dispatched, or runs a unit.         *)
FCFSStays ==
  /\ UNCHANGED <<job, state, ready_queue, remaining_cpu_time>>
  /\ \/ /\ current_time' = current_time
        /\ pc' \in {"arrivals", "search"} => pc \in {"arrivals", "search"} /\ i' \in {i, i + 1}
     \/ Advance

FCFSAdmits(p) ==
  /\ state[p] = "NEW" /\ pc = "search" /\ i = p /\ pc' = "arrivals" /\ i' = i + 1
  /\ ready_queue' = Append(ready_queue, p) /\ state' = [state EXCEPT ![p] = "READY"]
  /\ UNCHANGED <<job, current_time, remaining_cpu_time>>

FCFSWakes(p) ==
  /\ state[p] = "WAITING" /\ pc' = "io"
  /\ ready_queue' = Append(ready_queue, p) /\ state' = [state EXCEPT ![p] = "READY"]
  /\ UNCHANGED <<job, current_time, remaining_cpu_time>>

FCFSDispatches(p) ==
  /\ ready_queue # <<>> /\ p = Head(ready_queue) /\ pc' = "execute"
  /\ ready_queue' = Tail(ready_queue) /\ state' = [state EXCEPT ![p] = "RUNNING"]
  /\ UNCHANGED <<job, current_time, remaining_cpu_time>>

FCFSRuns(p) ==
  /\ pc' = "advance" /\ ready_queue' = ready_queue
  /\ \E s \in {"RUNNING", "WAITING", "TERMINATED"} : RanOn(p, s)

LEMMA FCFSKinds ==
  ASSUME IInv, TYPE = "FCFS", NextSimulator
  PROVE  \/ FCFSStays
         \/ \E p \in Procs : FCFSAdmits(p) \/ FCFSWakes(p) \/ FCFSDispatches(p) \/ FCFSRuns(p)
<1>0. NextFCFS /\ TypeOK /\ OnePlace
  BY DEF NextSimulator, IInv
<1>1. ASSUME NEW p \in Procs, Admit(p, Append(ready_queue, p)) PROVE FCFSAdmits(p)
  <2>1. state[p] = "NEW"
    BY <1>1, AdmitMoves DEF Joined
  <2>. QED
    BY <1>1, <2>1 DEF FCFSAdmits, Admit, Found
<1>2. ASSUME Wake PROVE blocked_queue[i] \in Procs /\ FCFSWakes(blocked_queue[i])
  <2>1. blocked_queue[i] \in Procs /\ state[blocked_queue[i]] = "WAITING"
    BY <1>2, WakeMoves
  <2>. QED
    BY <1>2, <2>1 DEF FCFSWakes, Wake
<1>3. ASSUME Dispatch("execute")
      PROVE  Head(ready_queue) \in Procs /\ FCFSDispatches(Head(ready_queue))
  BY <1>3, DispatchMoves DEF FCFSDispatches, Dispatch, CanDispatch
<1>4. ASSUME NEW p \in Procs,
             Block(p, "advance") \/ Complete(p, "advance") \/ KeepRunning(p, "advance")
      PROVE  FCFSRuns(p)
  <2>1. Execute(p, "advance")
    BY <1>4 DEF Block, Complete, KeepRunning
  <2>2. /\ pc = "execute" /\ pc' = "advance" /\ state[p] = "RUNNING"
        /\ remaining_cpu_time' = [remaining_cpu_time EXCEPT ![p] = Left(p)]
        /\ UNCHANGED <<job, current_time, first_run_time>>
        /\ state = [state EXCEPT ![p] = "RUNNING"]
    BY <1>0, <2>1, Executing DEF Execute, TypeOK
  <2>3. CASE Block(p, "advance")
    <3>1. RanOn(p, "WAITING") /\ ready_queue' = ready_queue
      BY <2>2, <2>3 DEF Block, RanOn
    <3>. QED
      BY <2>2, <3>1 DEF FCFSRuns
  <2>4. CASE Complete(p, "advance")
    <3>1. RanOn(p, "TERMINATED") /\ ready_queue' = ready_queue
      BY <2>2, <2>4 DEF Complete, RanOn
    <3>. QED
      BY <2>2, <3>1 DEF FCFSRuns
  <2>5. CASE KeepRunning(p, "advance")
    <3>1. RanOn(p, "RUNNING") /\ ready_queue' = ready_queue
      BY <2>2, <2>5 DEF KeepRunning, RanOn
    <3>. QED
      BY <2>2, <3>1 DEF FCFSRuns
  <2>. QED
    BY <1>4, <2>3, <2>4, <2>5
<1>5. Arrivals \/ StillBlocked => FCFSStays
  BY DEF FCFSStays, Arrivals, find_memory_partition, PassOver, Found, LookAt, ArrivalsDone,
         StillBlocked
<1>6. IODone("select") \/ NoDispatch("execute") \/ Idle("advance") \/ Terminated => FCFSStays
  BY DEF FCFSStays, IODone, NoDispatch, Idle, Terminated, svars
<1>7. Advance => FCFSStays
  BY DEF FCFSStays, Advance
<1>. QED
  BY <1>0, <1>1, <1>2, <1>3, <1>4, <1>5, <1>6, <1>7 DEF NextFCFS

(* The order in the queue, when a process joins at its tail and when its   *)
(* head leaves.                                                            *)
LEMMA AheadAfterJoining ==
  ASSUME TypeOK, NEW e \in Procs, ready_queue' = Append(ready_queue, e), NEW p, NEW q
  PROVE  /\ Ahead(p, q) => Ahead(p, q)'
         /\ p \in ToSet(ready_queue) => Ahead(p, e)'
<1>1. ready_queue \in Seq(Procs)
  BY DEF TypeOK
<1>2. /\ Len(ready_queue) \in Nat /\ Len(ready_queue') = Len(ready_queue) + 1
      /\ \A k \in 1 .. Len(ready_queue) : ready_queue'[k] = ready_queue[k]
      /\ ready_queue'[Len(ready_queue) + 1] = e
  BY <1>1, LenProperties, AppendProperties
<1>3. Ahead(p, q) => Ahead(p, q)'
  <2>1. 1 .. Len(ready_queue) \subseteq 1 .. Len(ready_queue')
    BY <1>2
  <2>. QED
    BY <1>2, <2>1 DEF Ahead
<1>4. ASSUME p \in ToSet(ready_queue) PROVE Ahead(p, e)'
  <2>1. PICK a \in 1 .. Len(ready_queue) : ready_queue[a] = p
    BY <1>1, <1>4, QueueMembers
  <2>2. /\ a \in 1 .. Len(ready_queue') /\ Len(ready_queue) + 1 \in 1 .. Len(ready_queue')
        /\ a < Len(ready_queue) + 1
    BY <1>2
  <2>. QED
    BY <1>2, <2>1, <2>2 DEF Ahead
<1>. QED
  BY <1>3, <1>4

LEMMA AheadAfterLeaving ==
  ASSUME TypeOK, ready_queue # <<>>, ready_queue' = Tail(ready_queue),
         NEW p, NEW q, p # Head(ready_queue), Ahead(p, q)
  PROVE  Ahead(p, q)'
<1>1. ready_queue \in Seq(Procs)
  BY DEF TypeOK
<1>2. /\ Len(ready_queue) \in Nat \ {0} /\ Len(ready_queue') = Len(ready_queue) - 1
      /\ \A k \in 1 .. Len(ready_queue') : ready_queue'[k] = ready_queue[k + 1]
      /\ Head(ready_queue) = ready_queue[1]
  BY <1>1, LenProperties, HeadTailProperties, EmptySeq
<1>3. PICK a, b \in 1 .. Len(ready_queue) : a < b /\ ready_queue[a] = p /\ ready_queue[b] = q
  BY DEF Ahead
<1>4. a # 1
  BY <1>2, <1>3
<1>5. /\ a - 1 \in 1 .. Len(ready_queue') /\ b - 1 \in 1 .. Len(ready_queue')
      /\ a - 1 < b - 1 /\ (a - 1) + 1 = a /\ (b - 1) + 1 = b
  BY <1>2, <1>3, <1>4
<1>6. ready_queue'[a - 1] = p /\ ready_queue'[b - 1] = q
  BY <1>2, <1>3, <1>5
<1>. QED
  BY <1>5, <1>6 DEF Ahead

LEMMA FCFSStep ==
  ASSUME IInv, MetricsInv, FCFSInv, TYPE = "FCFS", ClockInRange, NextSimulator
  PROVE  AdmittedInOrder' /\ HasRun' /\ FreshFirst'
<1>0. /\ TypeOK /\ OnePlace /\ RanByNow /\ SearchNow
      /\ AdmittedInOrder /\ HasRun /\ FreshFirst
  BY DEF IInv, MetricsInv, FCFSInv
<1>1. /\ state \in [Procs -> ProcessStates] /\ i \in Nat /\ Procs \subseteq Nat
      /\ ready_queue \in Seq(Procs)
      /\ \A p \in Procs : state[p] = "READY" <=> p \in ToSet(ready_queue)
  BY <1>0, JobType DEF TypeOK, OnePlace
<1>2. \A p \in Procs : /\ job[p].arrival_time \in Nat /\ current_time \in Nat
                       /\ current_time < UINT - 1 /\ UINT \in Nat
                       /\ Ran(p) \in Nat
  <2>1. ASSUME NEW p \in Procs
        PROVE  /\ job[p].arrival_time \in Nat /\ current_time \in Nat
               /\ current_time < UINT - 1 /\ UINT \in Nat /\ Ran(p) \in Nat
    <3>1. uint \subseteq Nat
      BY SchedulerAssumption DEF uint
    <3>. QED
      BY <1>0, <3>1, FieldTypes DEF ClockInRange
  <2>. QED
    BY <2>1
<1>3. ASSUME UNCHANGED <<job, remaining_cpu_time>>
      PROVE  /\ Procs' = Procs /\ \A p \in Procs : Ran(p)' = Ran(p)
             /\ \A p, q : Earlier(p, q)' <=> Earlier(p, q)
  BY <1>3, ProcsFixed DEF Ran, Earlier
<1>4. CASE FCFSStays
  <2>1. UNCHANGED <<job, state, ready_queue, remaining_cpu_time>>
    BY <1>4 DEF FCFSStays
  <2>2. HasRun' /\ FreshFirst'
    <3>1. \A p, q : Ahead(p, q)' <=> Ahead(p, q)
      BY <2>1 DEF Ahead
    <3>. QED
      BY <1>0, <1>3, <2>1, <3>1 DEF HasRun, FreshFirst
  <2>3. AdmittedInOrder'
    <3>1. SUFFICES ASSUME NEW p \in Procs, state[p] # "NEW"
                   PROVE  \/ job[p].arrival_time < current_time'
                          \/ /\ job[p].arrival_time = current_time'
                             /\ pc' \in {"arrivals", "search"} => p < i'
      BY <1>3, <2>1 DEF AdmittedInOrder
    <3>2. \/ job[p].arrival_time < current_time
          \/ job[p].arrival_time = current_time /\ (pc \in {"arrivals", "search"} => p < i)
      BY <1>0, <3>1 DEF AdmittedInOrder
    <3>3. CASE Advance
      <4>1. current_time' = Plus(current_time, 1)
        BY <3>3 DEF Advance
      <4>2. current_time' = current_time + 1
        BY <1>2, <4>1, Reduced DEF Plus
      <4>. QED
        BY <1>2, <3>2, <4>2
    <3>4. CASE ~Advance
      <4>1. /\ current_time' = current_time
            /\ pc' \in {"arrivals", "search"} => pc \in {"arrivals", "search"} /\ i' \in {i, i + 1}
        BY <1>4, <3>4 DEF FCFSStays
      <4>2. pc' \in {"arrivals", "search"} /\ p < i => p < i'
        BY <1>1, <4>1
      <4>. QED
        BY <3>2, <4>1, <4>2
    <3>. QED
      BY <3>3, <3>4
  <2>. QED
    BY <2>2, <2>3
<1>5. ASSUME NEW e \in Procs, FCFSAdmits(e) PROVE AdmittedInOrder' /\ HasRun' /\ FreshFirst'
  <2>1. /\ state[e] = "NEW" /\ pc = "search" /\ i = e /\ pc' = "arrivals" /\ i' = i + 1
        /\ ready_queue' = Append(ready_queue, e)
        /\ UNCHANGED <<job, current_time, remaining_cpu_time>>
        /\ state'[e] = "READY" /\ \A p \in Procs \ {e} : state'[p] = state[p]
    BY <1>1, <1>5 DEF FCFSAdmits
  <2>2. job[e].arrival_time = current_time /\ Ran(e) = 0
    BY <1>0, <2>1 DEF SearchNow, RanByNow
  <2>3. Procs' = Procs /\ \A p \in Procs : Ran(p)' = Ran(p)
    BY <1>3, <2>1
  <2>4. \A p \in Procs \ {e} : state[p] # "NEW" =>
          \/ job[p].arrival_time < current_time
          \/ job[p].arrival_time = current_time /\ p < e
    BY <1>0, <2>1 DEF AdmittedInOrder
  <2>5. AdmittedInOrder'
    <3>1. SUFFICES ASSUME NEW p \in Procs, state'[p] # "NEW"
                   PROVE  \/ job[p].arrival_time < current_time
                          \/ job[p].arrival_time = current_time /\ p < i + 1
      BY <2>1, <2>3 DEF AdmittedInOrder
    <3>2. CASE p = e
      BY <1>1, <2>1, <2>2, <3>2
    <3>3. CASE p # e
      BY <1>1, <2>1, <2>4, <3>1, <3>3
    <3>. QED
      BY <3>2, <3>3
  <2>6. HasRun'
    BY <1>0, <2>1, <2>3 DEF HasRun
  <2>7. FreshFirst'
    <3>1. SUFFICES ASSUME NEW p \in Procs, NEW q \in Procs, Earlier(p, q),
                          state'[p] = "READY", Ran(p) = 0, state'[q] # "NEW"
                   PROVE  Ran(q) = 0 /\ Ahead(p, q)'
      BY <1>3, <2>1, <2>3 DEF FreshFirst
    <3>2. p # q
      BY <1>1, <1>2, <3>1 DEF Earlier
    <3>3. CASE p = e
      <4>1. \/ job[q].arrival_time < current_time
            \/ job[q].arrival_time = current_time /\ q < e
        BY <2>1, <2>4, <3>1, <3>2, <3>3
      <4>. QED
        BY <1>1, <1>2, <2>2, <3>1, <3>3, <4>1 DEF Earlier
    <3>4. CASE q = e
      <4>1. p \in ToSet(ready_queue)
        BY <1>1, <2>1, <3>1, <3>2, <3>4
      <4>. QED
        BY <1>0, <2>1, <2>2, <3>4, <4>1, AheadAfterJoining
    <3>5. CASE p # e /\ q # e
      <4>1. Ran(q) = 0 /\ Ahead(p, q)
        BY <1>0, <2>1, <3>1, <3>5 DEF FreshFirst
      <4>. QED
        BY <1>0, <2>1, <4>1, AheadAfterJoining
    <3>. QED
      BY <3>3, <3>4, <3>5
  <2>. QED
    BY <2>5, <2>6, <2>7
<1>6. ASSUME NEW e \in Procs, FCFSWakes(e) PROVE AdmittedInOrder' /\ HasRun' /\ FreshFirst'
  <2>1. /\ state[e] = "WAITING" /\ pc' = "io" /\ ready_queue' = Append(ready_queue, e)
        /\ UNCHANGED <<job, current_time, remaining_cpu_time>>
        /\ state'[e] = "READY" /\ \A p \in Procs \ {e} : state'[p] = state[p]
    BY <1>1, <1>6 DEF FCFSWakes
  <2>2. Ran(e) # 0 /\ Procs' = Procs /\ \A p \in Procs : Ran(p)' = Ran(p)
    BY <1>0, <1>3, <2>1 DEF HasRun
  <2>3. AdmittedInOrder'
    BY <1>0, <2>1, <2>2 DEF AdmittedInOrder
  <2>4. HasRun'
    BY <1>0, <2>1, <2>2 DEF HasRun
  <2>5. FreshFirst'
    <3>1. SUFFICES ASSUME NEW p \in Procs, NEW q \in Procs, Earlier(p, q),
                          state'[p] = "READY", Ran(p) = 0, state'[q] # "NEW"
                   PROVE  Ran(q) = 0 /\ Ahead(p, q)'
      BY <1>3, <2>1, <2>2 DEF FreshFirst
    <3>2. p # e /\ state[p] = "READY" /\ state[q] # "NEW"
      BY <2>1, <2>2, <3>1
    <3>3. Ran(q) = 0 /\ Ahead(p, q)
      BY <1>0, <3>1, <3>2 DEF FreshFirst
    <3>. QED
      BY <1>0, <2>1, <3>3, AheadAfterJoining
  <2>. QED
    BY <2>3, <2>4, <2>5
<1>7. ASSUME NEW e \in Procs, FCFSDispatches(e)
      PROVE  AdmittedInOrder' /\ HasRun' /\ FreshFirst'
  <2>1. /\ ready_queue # <<>> /\ e = Head(ready_queue) /\ pc' = "execute"
        /\ ready_queue' = Tail(ready_queue)
        /\ UNCHANGED <<job, current_time, remaining_cpu_time>>
        /\ state'[e] = "RUNNING" /\ \A p \in Procs \ {e} : state'[p] = state[p]
    BY <1>1, <1>7 DEF FCFSDispatches
  <2>2. state[e] = "READY"
    BY <1>0, <1>1, <2>1, LeaveAtHead DEF OnePlace
  <2>3. Procs' = Procs /\ \A p \in Procs : Ran(p)' = Ran(p)
    BY <1>3, <2>1
  <2>4. AdmittedInOrder'
    BY <1>0, <2>1, <2>2, <2>3 DEF AdmittedInOrder
  <2>5. HasRun'
    BY <1>0, <2>1, <2>3 DEF HasRun
  <2>6. FreshFirst'
    <3>1. SUFFICES ASSUME NEW p \in Procs, NEW q \in Procs, Earlier(p, q),
                          state'[p] = "READY", Ran(p) = 0, state'[q] # "NEW"
                   PROVE  Ran(q) = 0 /\ Ahead(p, q)'
      BY <1>3, <2>1, <2>3 DEF FreshFirst
    <3>2. p # e /\ state[p] = "READY" /\ state[q] # "NEW"
      BY <2>1, <2>2, <3>1
    <3>3. Ran(q) = 0 /\ Ahead(p, q)
      BY <1>0, <3>1, <3>2 DEF FreshFirst
    <3>. QED
      BY <1>0, <2>1, <3>2, <3>3, AheadAfterLeaving
  <2>. QED
    BY <2>4, <2>5, <2>6
<1>8. ASSUME NEW e \in Procs, FCFSRuns(e) PROVE AdmittedInOrder' /\ HasRun' /\ FreshFirst'
  <2>1. PICK s \in {"RUNNING", "WAITING", "TERMINATED"} : RanOn(e, s)
    BY <1>8 DEF FCFSRuns
  <2>2. /\ pc' = "advance" /\ ready_queue' = ready_queue /\ UNCHANGED <<job, current_time>>
        /\ state[e] = "RUNNING" /\ state'[e] = s
        /\ \A p \in Procs \ {e} : state'[p] = state[p]
    BY <1>1, <1>8, <2>1 DEF FCFSRuns, RanOn
  <2>3. Procs' = Procs /\ (\A p, q : Earlier(p, q)' <=> Earlier(p, q))
        /\ \A p, q : Ahead(p, q)' <=> Ahead(p, q)
    BY <2>2, ProcsFixed DEF Earlier, Ahead
  <2>4. Ran(e)' = Ran(e) + 1 /\ \A p \in Procs \ {e} : Ran(p)' = Ran(p)
    <3>1. Ticked = 0 /\ s \in ProcessStates
      BY <2>1, TickedOnce DEF RanOn, ProcessStates
    <3>. QED
      BY <1>0, <2>1, <3>1, RunsOneMore
  <2>5. AdmittedInOrder'
    BY <1>0, <2>2, <2>3 DEF AdmittedInOrder
  <2>6. HasRun'
    <3>1. Ran(e)' # 0
      BY <1>2, <2>4
    <3>. QED
      BY <1>0, <2>2, <2>3, <2>4, <3>1 DEF HasRun
  <2>7. FreshFirst'
    <3>1. SUFFICES ASSUME NEW p \in Procs, NEW q \in Procs, Earlier(p, q),
                          state'[p] = "READY", Ran(p)' = 0, state'[q] # "NEW"
                   PROVE  Ran(q)' = 0 /\ Ahead(p, q)
      BY <2>3 DEF FreshFirst
    <3>2. p # e
      BY <2>2, <3>1
    <3>3. state[p] = "READY" /\ Ran(p) = 0 /\ state[q] # "NEW"
      BY <2>2, <2>4, <3>1, <3>2
    <3>4. Ran(q) = 0 /\ Ahead(p, q)
      BY <1>0, <3>1, <3>3 DEF FreshFirst
    <3>5. q \in ToSet(ready_queue)
      BY <1>1, <3>4, QueueMembers DEF Ahead
    <3>6. q # e
      BY <1>1, <2>2, <3>5
    <3>. QED
      BY <2>4, <3>4, <3>6
  <2>. QED
    BY <2>5, <2>6, <2>7
<1>. QED
  BY <1>4, <1>5, <1>6, <1>7, <1>8, FCFSKinds

(* Under FCFS a process runs for the first time only after everybody that  *)
(* arrived before it, or on an earlier line, and was admitted has run.     *)
THEOREM NobodyOvertakes == Spec /\ []ClockInRange => []FirstComeFirstServed
<1>1. InitSimulator => FCFSInv
  <2>1. InitSimulator => \A p \in Procs : state[p] = "NEW"
    BY DEF InitSimulator, InitRR, Init
  <2>. QED
    BY <2>1 DEF FCFSInv, AdmittedInOrder, HasRun, FreshFirst
<1>2. IInv /\ MetricsInv /\ ClockInRange /\ FCFSInv /\ [NextSimulator]_vars => FCFSInv'
  <2>1. UNCHANGED vars /\ FCFSInv => FCFSInv'
    BY ProcsFixed DEF vars, svars, FCFSInv, AdmittedInOrder, HasRun, FreshFirst, Earlier, Ahead, Ran
  <2>2. ASSUME IInv, MetricsInv, ClockInRange, FCFSInv, NextSimulator PROVE FCFSInv'
    <3>1. TYPE' = TYPE
      BY <2>2 DEF NextSimulator
    <3>. QED
      BY <2>2, <3>1, FCFSStep DEF FCFSInv
  <2>. QED
    BY <2>1, <2>2
<1>3. IInv /\ MetricsInv /\ FCFSInv => FirstComeFirstServed
  <2> SUFFICES ASSUME IInv, MetricsInv, FCFSInv, TYPE = "FCFS",
                      NEW p \in Procs, NEW q \in Procs, Earlier(p, q), state[p] # "NEW",
                      remaining_cpu_time[q] # job[q].total_cpu_time,
                      remaining_cpu_time[p] = job[p].total_cpu_time
               PROVE  state[p] = "RUNNING"
    BY DEF FirstComeFirstServed, Earlier
  <2>1. TypeOK /\ RanByNow /\ HasRun /\ FreshFirst
    BY DEF IInv, MetricsInv, FCFSInv
  <2>2. Ran(p) = 0 /\ Ran(q) # 0
    BY <2>1, RanNone
  <2>3. state[q] # "NEW"
    BY <2>1, <2>2 DEF RanByNow
  <2>4. state[p] # "READY" /\ state[p] \notin {"WAITING", "TERMINATED"}
    BY <2>1, <2>2, <2>3 DEF HasRun, FreshFirst
  <2>. QED
    BY <2>1, <2>4 DEF TypeOK, ProcessStates
<1>. QED
  BY <1>1, <1>2, <1>3, MetricsInductive, Inductive, PTL DEF Spec

=============================================================================
