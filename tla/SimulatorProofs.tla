-------------------------- MODULE SimulatorProofs --------------------------
(***************************************************************************)
(* Whatever the input, the partitions, the width of unsigned int and the   *)
(* quantum: the queues, the states and the partitions of the three         *)
(* schedulers agree, the search finds the best fit, and each scheduler is  *)
(* the five-state model.                                                   *)
(***************************************************************************)
EXTENDS Simulator, QueueTheorems, WellFoundedInduction

-----------------------------------------------------------------------------
(* Facts about the constants and the operators.                            *)
LEMMA SizesType ==
  /\ Len(sizes) \in Nat
  /\ Partitions = 1 .. Len(sizes)
  /\ \A m \in Partitions : sizes[m] \in 0 .. 127 /\ m \in Nat /\ m >= 1
<1>1. sizes \in Seq(0 .. 127)
  BY SchedulerAssumption
<1>2. \A m \in 1 .. Len(sizes) : sizes[m] \in 0 .. 127
  BY <1>1, ElementOfSeq
<1>. QED
  BY <1>1, <1>2, LenProperties DEF Partitions

LEMMA JobType ==
  ASSUME TypeOK
  PROVE  /\ job \in Seq(Lines) /\ Len(job) \in Nat /\ Procs = 1 .. Len(job)
         /\ \A p \in Procs : job[p] \in Lines
<1>1. job \in Seq(Lines)
  BY SchedulerAssumption DEF TypeOK
<1>2. \A p \in 1 .. Len(job) : job[p] \in Lines
  BY <1>1, ElementOfSeq
<1>. QED
  BY <1>1, <1>2, LenProperties DEF Procs

LEMMA LineType ==
  ASSUME NEW l \in Lines
  PROVE  /\ l.pid \in 0 .. UINT - 2
         /\ l.memory_size \in Nat
         /\ l.arrival_time \in uint /\ l.total_cpu_time \in uint
         /\ l.io_frequency \in uint /\ l.io_duration \in uint
  BY DEF Lines

(* Arithmetic modulo UINT stays in range.                                  *)
LEMMA Modulo == ASSUME NEW a \in Int PROVE a % UINT \in uint
<1>1. UINT \in Nat \ {0}
  BY SchedulerAssumption
<1>. QED
  BY <1>1 DEF uint

LEMMA UintIsInt == uint \subseteq Int
<1>1. UINT \in Int
  BY SchedulerAssumption
<1>. QED
  BY <1>1 DEF uint

LEMMA Arithmetic ==
  ASSUME NEW a \in Int, NEW b \in Int
  PROVE  Plus(a, b) \in uint /\ Minus(a, b) \in uint
<1>1. a + b \in Int /\ a - b \in Int
  OBVIOUS
<1>. QED
  BY <1>1, Modulo DEF Plus, Minus

(* A pid is an int, and not the mark of a free partition.                  *)
LEMMA PidAsInt ==
  ASSUME NEW pid \in 0 .. UINT - 2
  PROVE  AsInt(pid) \in Int /\ AsInt(pid) # FREE
<1>1. UINT \in Nat \ {0}
  BY SchedulerAssumption
<1>. QED
  BY <1>1 DEF AsInt, FREE

(* enqueue_process_priority: there is a place to insert at.                *)
LEMMA InsertionPoint ==
  ASSUME TypeOK, NEW p \in Procs
  PROVE  \E k \in 1 .. Len(ready_queue) + 1 :
           /\ InsertByPid(ready_queue, p) = InsertAt(ready_queue, k, p)
           /\ \A j \in 1 .. k - 1 : job[ready_queue[j]].pid < job[p].pid
           /\ k <= Len(ready_queue) => job[ready_queue[k]].pid >= job[p].pid
<1> DEFINE q == ready_queue
           T == {k \in 1 .. Len(q) + 1 : k <= Len(q) => job[q[k]].pid >= job[p].pid}
           Place(k) == /\ \A j \in 1 .. k - 1 : job[q[j]].pid < job[p].pid
                       /\ k <= Len(q) => job[q[k]].pid >= job[p].pid
<1>1. q \in Seq(Procs) /\ Len(q) \in Nat
  BY LenProperties DEF TypeOK
<1>2. \A j \in 1 .. Len(q) : q[j] \in Procs
  BY <1>1, ElementOfSeq
<1>3. \A j \in Procs : job[j].pid \in 0 .. UINT - 2
  BY JobType, LineType
<1>4. Len(q) + 1 \in T /\ T \subseteq Nat
  BY <1>1
<1>5. PICK k \in T : \A y \in T : <<y, k>> \notin OpToRel(<, Nat)
  <2> HIDE DEF T
  <2>. QED
    BY <1>4, WFMin, NatLessThanWellFounded
<1>6. \A y \in T : ~(y < k)
  <2>1. ASSUME NEW y \in T, y < k PROVE FALSE
    <3>1. y \in Nat /\ k \in Nat
      BY <1>4
    <3>2. <<y, k>> \in OpToRel(<, Nat)
      BY <3>1, <2>1 DEF OpToRel
    <3>. QED
      BY <3>2, <1>5
  <2>. QED
    BY <2>1
<1>7. k \in 1 .. Len(q) + 1 /\ Place(k)
  <2>1. ASSUME NEW j \in 1 .. k - 1 PROVE job[q[j]].pid < job[p].pid
    <3>1. j \in 1 .. Len(q) + 1 /\ j <= Len(q) /\ j < k
      BY <1>1
    <3>2. j \notin T
      BY <3>1, <1>6
    <3>3. ~(job[q[j]].pid >= job[p].pid)
      BY <3>1, <3>2
    <3>4. job[q[j]].pid \in 0 .. UINT - 2 /\ job[p].pid \in 0 .. UINT - 2
      BY <3>1, <1>1, <1>2, <1>3
    <3>5. UINT \in Nat
      BY SchedulerAssumption
    <3>. QED
      BY <3>3, <3>4, <3>5
  <2>. QED
    BY <2>1
<1> HIDE DEF T
<1>8. \E l \in 1 .. Len(q) + 1 : Place(l)
  BY <1>7
<1> DEFINE chosen == CHOOSE l \in 1 .. Len(q) + 1 : Place(l)
<1>9. chosen \in 1 .. Len(q) + 1 /\ Place(chosen)
  <2> HIDE DEF Place
  <2>. QED
    BY <1>8
<1>10. InsertByPid(ready_queue, p) = InsertAt(ready_queue, chosen, p)
  BY DEF InsertByPid
<1> HIDE DEF chosen
<1>. QED
  BY <1>9, <1>10

(* Either way a process joins the ready queue, it is in it once.           *)
Joined(p) == {Append(ready_queue, p), InsertByPid(ready_queue, p)}

LEMMA JoinReady ==
  ASSUME TypeOK, NEW p \in Procs, NEW queue \in Joined(p)
  PROVE  /\ queue \in Seq(Procs)
         /\ ToSet(queue) = ToSet(ready_queue) \cup {p}
         /\ IsInjective(ready_queue) /\ p \notin ToSet(ready_queue) => IsInjective(queue)
<1>1. ready_queue \in Seq(Procs)
  BY DEF TypeOK
<1>2. CASE queue = Append(ready_queue, p)
  BY <1>1, <1>2, JoinAtTail
<1>3. CASE queue = InsertByPid(ready_queue, p)
  <2>1. PICK k \in 1 .. Len(ready_queue) + 1 :
               InsertByPid(ready_queue, p) = InsertAt(ready_queue, k, p)
    BY InsertionPoint
  <2>. QED
    BY <1>1, <1>3, <2>1, JoinAt
<1>. QED
  BY <1>2, <1>3 DEF Joined

-----------------------------------------------------------------------------
(***************************************************************************)
(* What any of the three schedulers may do.                                *)
(***************************************************************************)
Phases == {"select", "execute", "advance"}

ArrivalStep ==
  \/ \E p \in Procs : \/ find_memory_partition(p) \/ PassOver(p)
                      \/ \E queue \in Joined(p) : Admit(p, queue)
  \/ \E m \in Partitions : LookAt(m)
  \/ ArrivalsDone

SelectStep(next) == IODone(next) \/ Dispatch(next) \/ NoDispatch(next) \/ Idle(next)

ExecuteStep(p, next) ==
  \/ Block(p, next) \/ Complete(p, next) \/ KeepRunning(p, next)
  \/ \E queue \in Joined(p) : Preempt(p, queue, next) /\ TYPE # "FCFS"

AnyStep ==
  \/ ArrivalStep
  \/ Wake \/ StillBlocked
  \/ \E next \in Phases : SelectStep(next) \/ \E p \in Procs : ExecuteStep(p, next)
  \/ \E p \in Procs : Crash(p)
  \/ Advance
  \/ UNCHANGED svars

LEMMA EveryScheduler == ASSUME NextSimulator PROVE AnyStep /\ UNCHANGED TYPE
<1> DEFINE Arrive == \/ Arrivals
                     \/ \E p \in Procs : \/ Admit(p, Append(ready_queue, p))
                                         \/ Admit(p, InsertByPid(ready_queue, p))
           Choose(next) == IODone(next) \/ Dispatch(next) \/ NoDispatch(next) \/ Idle(next)
           Run(next) == \E p \in Procs :
             \/ Block(p, next) \/ Complete(p, next) \/ KeepRunning(p, next)
             \/ Preempt(p, Append(ready_queue, p), next) /\ TYPE # "FCFS"
             \/ Preempt(p, InsertByPid(ready_queue, p), next) /\ TYPE # "FCFS"
<1>1. Arrive => ArrivalStep
  BY DEF Arrivals, ArrivalStep, Joined
<1>2. /\ \/ Choose("select") \/ Choose("execute") \/ Choose("advance")
         \/ Run("select") \/ Run("advance")
      => AnyStep
  <2>1. "select" \in Phases /\ "execute" \in Phases /\ "advance" \in Phases
    BY DEF Phases
  <2>2. /\ Choose("select") => SelectStep("select")
        /\ Choose("execute") => SelectStep("execute")
        /\ Choose("advance") => SelectStep("advance")
    BY DEF SelectStep
  <2>3. Run("select") => \E p \in Procs : ExecuteStep(p, "select")
    BY DEF ExecuteStep, Joined
  <2>4. Run("advance") => \E p \in Procs : ExecuteStep(p, "advance")
    BY DEF ExecuteStep, Joined
  <2>. QED
    BY <2>1, <2>2, <2>3, <2>4 DEF AnyStep
<1>6. UNCHANGED TYPE
  BY DEF NextSimulator
<1>0. \/ ArrivalStep \/ Wake \/ StillBlocked
      \/ (\E p \in Procs : Crash(p)) \/ Advance \/ UNCHANGED svars
      => AnyStep
  BY DEF AnyStep
<1>3. CASE TYPE = "FCFS" /\ NextFCFS
  <2>1. \/ Arrive \/ Wake \/ StillBlocked
        \/ Choose("select") \/ Choose("execute") \/ Choose("advance")
        \/ Run("advance") \/ Advance \/ UNCHANGED svars
    BY <1>3 DEF NextFCFS, Terminated
  <2>. HIDE DEF Arrive, Choose, Run
  <2>. QED
    BY <1>0, <1>6, <1>1, <1>2, <2>1
<1>4. CASE TYPE = "RR" /\ NextRR
  <2>1. BeforeExecution => Arrive \/ Wake \/ StillBlocked \/ Choose("execute")
    BY DEF BeforeExecution
  <2>2. ExecuteRR => Run("select")
    BY <1>4 DEF ExecuteRR, BlockRR, CompleteRR, Expire, KeepRunningRR
  <2>3. IdleRR => Choose("select")
    BY DEF IdleRR
  <2>4. Select => Choose("advance")
    BY DEF Select
  <2>5. AfterExecution => Advance \/ UNCHANGED svars
    BY DEF AfterExecution, Terminated
  <2>. HIDE DEF Arrive, Choose, Run
  <2>. QED
    BY <1>0, <1>6, <1>1, <1>2, <1>4, <2>1, <2>2, <2>3, <2>4, <2>5 DEF NextRR
<1>5. CASE TYPE = "EP" /\ NextPriority
  <2>1. \/ Arrive \/ Wake \/ StillBlocked
        \/ Choose("select") \/ Choose("execute") \/ Choose("advance")
        \/ Run("advance") \/ (\E p \in Procs : Crash(p)) \/ Advance \/ UNCHANGED svars
    BY <1>5 DEF NextPriority, RunOrGiveWay, Terminated, Crashed
  <2>. HIDE DEF Arrive, Choose, Run
  <2>. QED
    BY <1>0, <1>6, <1>1, <1>2, <2>1
<1>. QED
  BY <1>3, <1>4, <1>5 DEF NextSimulator

-----------------------------------------------------------------------------
(* Types.                                                                  *)
LEMMA InitType == Init => TypeOK
<1> SUFFICES ASSUME Init PROVE TypeOK
  OBVIOUS
<1>1. job \in Seq(Lines) /\ UINT \in Nat \ {0}
  BY SchedulerAssumption DEF Init
<1>2. Len(job) \in Nat /\ Procs = 1 .. Len(job)
  BY <1>1 DEF Procs
<1>3. \A p \in Procs : job[p].total_cpu_time \in uint
  <2>1. \A p \in Procs : job[p] \in Lines
    BY <1>1, <1>2, ElementOfSeq
  <2>. QED
    BY <2>1, LineType
<1>4. 0 \in uint
  BY <1>1 DEF uint
<1>5. state \in [Procs -> ProcessStates]
  BY DEF Init, ProcessStates
<1>6. remaining_cpu_time \in [Procs -> uint]
  BY <1>3 DEF Init
<1>7. DOMAIN occupied_by = Partitions /\ \A m \in Partitions : occupied_by[m] \in Int
  BY DEF Init, FREE
<1>8. ready_queue \in Seq(Procs) /\ blocked_queue \in Seq(Procs)
  BY EmptySeq DEF Init
<1>9. looked_at \in 0 .. Len(sizes) /\ best_fit \in 0 .. Len(sizes)
  BY SizesType DEF Init
<1>. QED
  BY <1>4, <1>5, <1>6, <1>7, <1>8, <1>9 DEF Init, TypeOK, NULL

(* The variables that the searches, the waits and the clock leave alone.   *)
LEMMA ProcsFixed == ASSUME job' = job PROVE Procs' = Procs
  BY DEF Procs

LEMMA ArrivalType == ASSUME TypeOK, ArrivalStep PROVE TypeOK'
<1>1. Len(sizes) \in Nat /\ \A m \in Partitions : sizes[m] \in 0 .. 128 /\ m \in 1 .. Len(sizes)
  BY SizesType
<1>2. ASSUME NEW p \in Procs, find_memory_partition(p) PROVE TypeOK'
  <2>1. Procs' = Procs
    BY <1>2, ProcsFixed DEF find_memory_partition
  <2>. QED
    BY <1>1, <1>2, <2>1 DEF find_memory_partition, times, memory, TypeOK
<1>3. ASSUME NEW p \in Procs, PassOver(p) PROVE TypeOK'
  <2>1. Procs' = Procs
    BY <1>3, ProcsFixed DEF PassOver
  <2>. QED
    BY <1>3, <2>1 DEF PassOver, times, memory, search, TypeOK
<1>4. ASSUME NEW m \in Partitions, LookAt(m) PROVE TypeOK'
  <2>1. Procs' = Procs
    BY <1>4, ProcsFixed DEF LookAt
  <2>2. looked_at' = m /\ m \in 0 .. Len(sizes) /\ sizes[m] \in 0 .. 128
    BY <1>1, <1>4 DEF LookAt
  <2>3. best_fit' \in {m, best_fit} /\ smallest_suitable' \in {sizes[m], smallest_suitable}
    BY <1>4 DEF LookAt
  <2>4. best_fit \in 0 .. Len(sizes) /\ smallest_suitable \in 0 .. 128
    BY DEF TypeOK
  <2>5. best_fit' \in 0 .. Len(sizes) /\ smallest_suitable' \in 0 .. 128
    BY <2>2, <2>3, <2>4
  <2>. QED
    BY <1>4, <2>1, <2>2, <2>5 DEF LookAt, times, memory, TypeOK
<1>5. ASSUME NEW p \in Procs, NEW queue \in Joined(p), Admit(p, queue) PROVE TypeOK'
  <2>1. Procs' = Procs
    BY <1>5, ProcsFixed DEF Admit
  <2>2. best_fit \in Partitions
    BY <1>1, <1>5, SizesType DEF Admit, TypeOK
  <2>3. AsInt(job[p].pid) \in Int
    BY JobType, LineType, PidAsInt
  <2>4. DOMAIN occupied_by' = Partitions /\ \A m \in Partitions : occupied_by'[m] \in Int
    BY <1>5, <2>2, <2>3 DEF Admit, TypeOK
  <2>5. partition_number' \in [Procs -> Partitions \cup {0}]
    BY <1>5, <2>2 DEF Admit, TypeOK
  <2>6. state' \in [Procs -> ProcessStates]
    BY <1>5 DEF Admit, TypeOK, ProcessStates
  <2>7. ready_queue' \in Seq(Procs)
    BY <1>5, JoinReady DEF Admit
  <2>. QED
    BY <1>5, <2>1, <2>4, <2>5, <2>6, <2>7 DEF Admit, times, search, TypeOK
<1>6. ASSUME ArrivalsDone PROVE TypeOK'
  <2>1. Procs' = Procs
    BY <1>6, ProcsFixed DEF ArrivalsDone
  <2>. QED
    BY <1>6, <2>1 DEF ArrivalsDone, times, memory, search, TypeOK
<1>. QED
  BY <1>2, <1>3, <1>4, <1>5, <1>6 DEF ArrivalStep

(* The processes that handle_io_completion and dequeue_process move.       *)
LEMMA Woken ==
  ASSUME TypeOK, OnePlace, Wake
  PROVE  LET p == blocked_queue[i]
         IN  /\ p \in Procs /\ p \in ToSet(blocked_queue) /\ i \in 1 .. Len(blocked_queue)
             /\ ready_queue' \in Seq(Procs) /\ blocked_queue' \in Seq(Procs)
             /\ ToSet(ready_queue') = ToSet(ready_queue) \cup {p}
             /\ ToSet(blocked_queue') = ToSet(blocked_queue) \ {p}
             /\ p \notin ToSet(ready_queue) => IsInjective(ready_queue')
             /\ IsInjective(blocked_queue')
<1> DEFINE p == blocked_queue[i]
<1>1. blocked_queue \in Seq(Procs) /\ ready_queue \in Seq(Procs)
      /\ IsInjective(blocked_queue) /\ IsInjective(ready_queue)
  BY DEF TypeOK, OnePlace
<1>2. i \in 1 .. Len(blocked_queue)
  <2>1. Len(blocked_queue) \in Nat
    BY <1>1, LenProperties
  <2>. QED
    BY <2>1 DEF Wake, TypeOK
<1>3. p \in Procs
  BY <1>1, <1>2, ElementOfSeq
<1>4. p \in ToSet(blocked_queue)
  BY <1>1, <1>2, QueueMembers
<1> HIDE DEF p
<1>5. ready_queue' = Append(ready_queue, p) /\ blocked_queue' = RemoveAt(blocked_queue, i)
  BY DEF Wake, p
<1>6. /\ ready_queue' \in Seq(Procs) /\ ToSet(ready_queue') = ToSet(ready_queue) \cup {p}
      /\ p \notin ToSet(ready_queue) => IsInjective(ready_queue')
  BY <1>1, <1>3, <1>5, JoinAtTail
<1>7. /\ blocked_queue' \in Seq(Procs) /\ IsInjective(blocked_queue')
      /\ ToSet(blocked_queue') = ToSet(blocked_queue) \ {p}
  BY <1>1, <1>2, <1>5, LeaveAt DEF p
<1>. QED
  BY <1>2, <1>3, <1>4, <1>6, <1>7 DEF p

LEMMA Dispatched ==
  ASSUME TypeOK, OnePlace, NEW next, Dispatch(next)
  PROVE  LET p == Head(ready_queue)
         IN  /\ p \in Procs /\ p \in ToSet(ready_queue)
             /\ ready_queue' \in Seq(Procs)
             /\ ToSet(ready_queue') = ToSet(ready_queue) \ {p}
             /\ IsInjective(ready_queue')
  BY LeaveAtHead DEF Dispatch, CanDispatch, TypeOK, OnePlace

LEMMA WaitType == ASSUME TypeOK, OnePlace, Wake \/ StillBlocked PROVE TypeOK'
<1>1. CASE Wake
  <2>1. Procs' = Procs
    BY <1>1, ProcsFixed DEF Wake
  <2>2. state' \in [Procs -> ProcessStates]
    BY <1>1, Woken DEF Wake, TypeOK, ProcessStates
  <2>3. ready_queue' \in Seq(Procs) /\ blocked_queue' \in Seq(Procs)
    BY <1>1, Woken
  <2>. QED
    BY <1>1, <2>1, <2>2, <2>3 DEF Wake, times, memory, search, TypeOK
<1>2. CASE StillBlocked
  <2>1. Procs' = Procs
    BY <1>2, ProcsFixed DEF StillBlocked
  <2>. QED
    BY <1>2, <2>1 DEF StillBlocked, times, memory, search, TypeOK
<1>. QED
  BY <1>1, <1>2

LEMMA SelectType ==
  ASSUME TypeOK, OnePlace, NEW next \in Phases, SelectStep(next)
  PROVE  TypeOK'
<1>1. CASE IODone(next) \/ NoDispatch(next) \/ Idle(next)
  <2>1. Procs' = Procs
    BY <1>1, ProcsFixed DEF IODone, NoDispatch, Idle
  <2>2. pc' = next /\ i' \in Nat \ {0}
    BY <1>1 DEF IODone, NoDispatch, Idle, TypeOK
  <2>. QED
    BY <1>1, <2>1, <2>2 DEF IODone, NoDispatch, Idle, times, memory, search, TypeOK, Phases
<1>2. CASE Dispatch(next)
  <2>1. Procs' = Procs
    BY <1>2, ProcsFixed DEF Dispatch
  <2>2. Head(ready_queue) \in Procs /\ ready_queue' \in Seq(Procs)
    BY <1>2, Dispatched
  <2>3. state' \in [Procs -> ProcessStates]
    BY <1>2, <2>2 DEF Dispatch, TypeOK, ProcessStates
  <2>4. first_run_time' \in [Procs -> uint]
    BY <1>2, <2>2 DEF Dispatch, TypeOK
  <2>. QED
    BY <1>2, <2>1, <2>2, <2>3, <2>4 DEF Dispatch, memory, search, TypeOK, Phases
<1>. QED
  BY <1>1, <1>2 DEF SelectStep

LEMMA LeftType == ASSUME TypeOK, NEW p \in Procs PROVE Left(p) \in uint
<1>1. remaining_cpu_time[p] \in Int
  BY SchedulerAssumption DEF TypeOK, uint
<1>. QED
  BY <1>1, Arithmetic DEF Left

LEMMA ExecuteType ==
  ASSUME TypeOK, NEW p \in Procs, NEW next \in Phases, ExecuteStep(p, next)
  PROVE  TypeOK'
<1>1. Left(p) \in uint
  BY LeftType
<1>2. ASSUME NEW to, Execute(p, to)
      PROVE  remaining_cpu_time' \in [Procs -> uint] /\ Procs' = Procs
  BY <1>1, <1>2 DEF Execute, TypeOK, Procs
<1>3. CASE Block(p, next)
  <2>1. Execute(p, next)
    BY <1>3 DEF Block
  <2>2. state' \in [Procs -> ProcessStates]
    BY <1>3 DEF Block, TypeOK, ProcessStates
  <2>3. blocked_queue' \in Seq(Procs)
    BY <1>3, AppendProperties DEF Block, TypeOK
  <2>4. last_io_time' \in [Procs -> uint]
    BY <1>3 DEF Block, TypeOK
  <2>. QED
    BY <1>2, <1>3, <2>1, <2>2, <2>3, <2>4 DEF Block, Execute, memory, search, TypeOK, Phases
<1>4. CASE Complete(p, next)
  <2>1. Execute(p, next)
    BY <1>4 DEF Complete
  <2>2. state' \in [Procs -> ProcessStates]
    BY <1>4 DEF Complete, TypeOK, ProcessStates
  <2>3. Plus(current_time, 1) \in uint
    BY Arithmetic, UintIsInt DEF TypeOK
  <2>4. completion_time' \in [Procs -> uint]
    BY <1>4, <2>3 DEF Complete, TypeOK
  <2>5. DOMAIN occupied_by' = Partitions /\ \A m \in Partitions : occupied_by'[m] \in Int
    BY <1>4 DEF Complete, TypeOK, FREE
  <2>. QED
    BY <1>2, <1>4, <2>1, <2>2, <2>4, <2>5 DEF Complete, Execute, search, TypeOK, Phases
<1>5. CASE KeepRunning(p, next)
  <2>1. Execute(p, next)
    BY <1>5 DEF KeepRunning
  <2>. QED
    BY <1>2, <1>5, <2>1 DEF KeepRunning, Execute, memory, search, TypeOK, Phases
<1>6. ASSUME NEW queue \in Joined(p), Preempt(p, queue, next) PROVE TypeOK'
  <2>1. Execute(p, next)
    BY <1>6 DEF Preempt
  <2>2. state' \in [Procs -> ProcessStates]
    BY <1>6 DEF Preempt, TypeOK, ProcessStates
  <2>3. ready_queue' \in Seq(Procs)
    BY <1>6, JoinReady DEF Preempt
  <2>. QED
    BY <1>2, <1>6, <2>1, <2>2, <2>3 DEF Preempt, Execute, memory, search, TypeOK, Phases
<1>. QED
  BY <1>3, <1>4, <1>5, <1>6 DEF ExecuteStep

LEMMA CrashType == ASSUME TypeOK, NEW p \in Procs, Crash(p) PROVE TypeOK'
<1>1. remaining_cpu_time' \in [Procs -> uint] /\ Procs' = Procs
  BY LeftType DEF Crash, Execute, TypeOK, Procs
<1>. QED
  BY <1>1 DEF Crash, Execute, memory, search, TypeOK

LEMMA AdvanceType == ASSUME TypeOK, Advance PROVE TypeOK'
<1>1. Plus(current_time, 1) \in uint
  BY Arithmetic, UintIsInt DEF TypeOK
<1>2. pc' \in {"done", "arrivals"}
  BY DEF Advance
<1>. QED
  BY <1>1, <1>2, ProcsFixed DEF Advance, times, memory, search, TypeOK

LEMMA StutterType == ASSUME TypeOK, UNCHANGED svars PROVE TypeOK'
  BY ProcsFixed DEF svars, times, memory, search, TypeOK

LEMMA StepType == ASSUME TypeOK, OnePlace, AnyStep PROVE TypeOK'
  BY ArrivalType, WaitType, SelectType, ExecuteType, CrashType, AdvanceType, StutterType DEF AnyStep

-----------------------------------------------------------------------------
(***************************************************************************)
(* The invariant.  While find_memory_partition looks for a partition of    *)
(* the process at hand, which has not been admitted yet, it has the best   *)
(* of those it has looked at.                                              *)
(***************************************************************************)
FitsNow(m) == m \in Fitting(job[i].memory_size)

BestSoFar ==
  \/ best_fit = 0 /\ smallest_suitable = 128 /\ \A m \in 1 .. looked_at : ~FitsNow(m)
  \/ /\ best_fit \in 1 .. looked_at /\ FitsNow(best_fit)
     /\ smallest_suitable = sizes[best_fit]
     /\ \A m \in 1 .. looked_at : FitsNow(m) =>
          sizes[best_fit] < sizes[m] \/ (sizes[best_fit] = sizes[m] /\ best_fit <= m)

SearchSoFar == pc = "search" => i \in Procs /\ state[i] = "NEW" /\ BestSoFar

(* What handle_io_completion has passed over stays blocked.                *)
IOSoFar ==
  pc = "io" =>
    \A j \in 1 .. Len(blocked_queue) : j < i => ~IOElapsed(blocked_queue[j])

IInv == TypeOK /\ OnePlace /\ OwnPartition /\ SearchSoFar /\ NoOverdueIO /\ IOSoFar

-----------------------------------------------------------------------------
(* The search.                                                             *)
LEMMA SearchSoFarStep == ASSUME IInv, AnyStep PROVE SearchSoFar'
<1>1. TypeOK /\ SearchSoFar
  BY DEF IInv
<1>2. ASSUME NEW p \in Procs, find_memory_partition(p) PROVE SearchSoFar'
  BY <1>2, ProcsFixed DEF find_memory_partition, ArrivesNow, SearchSoFar, BestSoFar
<1>3. ASSUME NEW m \in Partitions, LookAt(m) PROVE SearchSoFar'
  <2>1. i' = i /\ i \in Procs' /\ state'[i'] = "NEW"
    BY <1>1, <1>3, ProcsFixed DEF LookAt, SearchSoFar
  <2>2. \A k : FitsNow(k)' <=> FitsNow(k)
    BY <1>3 DEF LookAt, FitsNow, Fitting, memory
  <2>3. looked_at' = m /\ looked_at = m - 1 /\ m \in Nat /\ m >= 1
    BY <1>3, SizesType DEF LookAt
  <2>4. BestSoFar /\ best_fit \in Nat
    BY <1>1, <1>3 DEF LookAt, SearchSoFar, TypeOK
  <2>5. \A k \in 1 .. m : k \in 1 .. looked_at \/ k = m
    BY <2>3
  <2>6. job[i].memory_size \in Nat
    BY <2>1, <1>1, <1>3, JobType, LineType DEF LookAt, SearchSoFar
  <2>7. \A k \in Partitions : sizes[k] \in 0 .. 127
    BY SizesType
  <2>8. Better(m, job[i].memory_size) <=> FitsNow(m) /\ sizes[m] < smallest_suitable
    BY <2>6, <2>7 DEF Better, FitsNow, Fitting
  <2>9. \A k : FitsNow(k) => k \in Partitions
    BY DEF FitsNow, Fitting
  <2>10. CASE Better(m, job[i].memory_size)
    <3>1. best_fit' = m /\ smallest_suitable' = sizes[m]
      BY <1>3, <2>10 DEF LookAt
    <3>2. \A k \in 1 .. m : FitsNow(k) =>
            sizes[m] < sizes[k] \/ (sizes[m] = sizes[k] /\ m <= k)
      <4>1. ASSUME NEW k \in 1 .. looked_at, FitsNow(k) PROVE sizes[m] < sizes[k]
        <5>1. smallest_suitable = sizes[best_fit] /\ best_fit \in Partitions
              /\ (sizes[best_fit] < sizes[k] \/ sizes[best_fit] = sizes[k])
          BY <4>1, <2>4, <2>9 DEF BestSoFar
        <5>2. sizes[m] < smallest_suitable
          BY <2>8, <2>10
        <5>3. k \in Partitions /\ m \in Partitions
          BY <4>1, <2>9
        <5>4. sizes[m] \in Int /\ sizes[k] \in Int /\ sizes[best_fit] \in Int
          BY <5>1, <5>3, <2>7
        <5>. QED
          BY <5>1, <5>2, <5>4
      <4>. QED
        BY <4>1, <2>3, <2>5
    <3>. QED
      BY <2>1, <2>2, <2>3, <2>8, <2>10, <3>1, <3>2 DEF SearchSoFar, BestSoFar
  <2>11. CASE ~Better(m, job[i].memory_size)
    <3>1. best_fit' = best_fit /\ smallest_suitable' = smallest_suitable
      BY <1>3, <2>11 DEF LookAt
    <3>2. CASE best_fit = 0 /\ smallest_suitable = 128 /\ \A k \in 1 .. looked_at : ~FitsNow(k)
      <4>1. ~FitsNow(m)
        BY <3>2, <2>7, <2>8, <2>11
      <4>2. \A k \in 1 .. m : ~FitsNow(k)
        BY <4>1, <3>2, <2>5
      <4>. QED
        BY <2>1, <2>2, <2>3, <3>1, <3>2, <4>2 DEF SearchSoFar, BestSoFar
    <3>3. CASE /\ best_fit \in 1 .. looked_at /\ FitsNow(best_fit)
               /\ smallest_suitable = sizes[best_fit]
               /\ \A k \in 1 .. looked_at : FitsNow(k) =>
                    sizes[best_fit] < sizes[k] \/ (sizes[best_fit] = sizes[k] /\ best_fit <= k)
      <4>1. FitsNow(m) =>
              sizes[best_fit] < sizes[m] \/ (sizes[best_fit] = sizes[m] /\ best_fit <= m)
        <5>1. best_fit \in Partitions /\ best_fit <= m
          BY <3>3, <2>3, <2>9
        <5>2. sizes[m] \in Int /\ sizes[best_fit] \in Int
          BY <5>1, <2>7
        <5>3. FitsNow(m) => ~(sizes[m] < sizes[best_fit])
          BY <3>3, <2>8, <2>11
        <5>. QED
          BY <5>1, <5>2, <5>3
      <4>2. best_fit \in 1 .. m
        BY <3>3, <2>3
      <4>. QED
        BY <2>1, <2>2, <2>3, <2>5, <3>1, <3>3, <4>1, <4>2 DEF SearchSoFar, BestSoFar
    <3>. QED
      BY <2>4, <3>2, <3>3 DEF BestSoFar
  <2>. QED
    BY <2>10, <2>11
<1>4. UNCHANGED svars => SearchSoFar'
  BY <1>1, ProcsFixed DEF svars, search, memory, SearchSoFar, BestSoFar, FitsNow, Fitting
<1>5. ASSUME ~(\E p \in Procs : find_memory_partition(p)),
             ~(\E m \in Partitions : LookAt(m)), ~UNCHANGED svars
      PROVE  pc' # "search"
  <2>1. CASE ArrivalStep
    BY <1>5, <2>1 DEF ArrivalStep, PassOver, Admit, ArrivalsDone
  <2>2. CASE Wake \/ StillBlocked
    BY <2>2 DEF Wake, StillBlocked
  <2>3. ASSUME NEW next \in Phases, SelectStep(next) PROVE pc' # "search"
    BY <2>3 DEF Phases, SelectStep, IODone, Dispatch, NoDispatch, Idle
  <2>4. ASSUME NEW next \in Phases, NEW p \in Procs, ExecuteStep(p, next) PROVE pc' # "search"
    BY <2>4 DEF Phases, ExecuteStep, Block, Complete, KeepRunning, Preempt, Execute
  <2>5. ASSUME NEW p \in Procs, Crash(p) PROVE pc' # "search"
    BY <2>5 DEF Crash, Execute
  <2>6. CASE Advance
    BY <2>6 DEF Advance
  <2>. QED
    BY <1>5, <2>1, <2>2, <2>3, <2>4, <2>5, <2>6 DEF AnyStep
<1>. QED
  BY <1>2, <1>3, <1>4, <1>5 DEF SearchSoFar

LEMMA BestFitFound ==
  ASSUME TypeOK, SearchSoFar, Found
  PROVE  IF Fitting(job[i].memory_size) = {} THEN best_fit = 0
         ELSE /\ best_fit \in Fitting(job[i].memory_size)
              /\ \A m \in Fitting(job[i].memory_size) :
                   \/ sizes[best_fit] < sizes[m]
                   \/ sizes[best_fit] = sizes[m] /\ best_fit <= m
<1>1. BestSoFar /\ looked_at = Len(sizes)
  BY DEF Found, SearchSoFar
<1>2. \A m \in Fitting(job[i].memory_size) : m \in 1 .. looked_at /\ FitsNow(m)
  BY <1>1, SizesType DEF Fitting, FitsNow
<1>3. 0 \notin Partitions
  BY SizesType
<1>. QED
  BY <1>1, <1>2, <1>3 DEF BestSoFar, FitsNow, Fitting

-----------------------------------------------------------------------------
(***************************************************************************)
(* The places.  A process that moves takes its state, the queues and the   *)
(* processor with it.                                                      *)
(***************************************************************************)
Moves(p, s) ==
  /\ job' = job /\ state' = [state EXCEPT ![p] = s]
  /\ IsInjective(ready_queue') /\ IsInjective(blocked_queue')
  /\ ToSet(ready_queue') =
       IF s = "READY" THEN ToSet(ready_queue) \cup {p} ELSE ToSet(ready_queue) \ {p}
  /\ ToSet(blocked_queue') =
       IF s = "WAITING" THEN ToSet(blocked_queue) \cup {p} ELSE ToSet(blocked_queue) \ {p}
  /\ IF s = "RUNNING" THEN running_process' = p /\ running_process \in {NULL, p}
     ELSE IF running_process = p THEN running_process' = NULL
          ELSE running_process' = running_process

StaysPut == UNCHANGED <<job, state, ready_queue, blocked_queue, running_process>>

LEMMA NullIsNone == ASSUME TypeOK PROVE NULL \notin Procs
<1>1. Procs = 1 .. Len(job) /\ Len(job) \in Nat
  BY JobType
<1>. QED
  BY <1>1 DEF NULL

LEMMA MovedOnce ==
  ASSUME TypeOK, OnePlace, NEW p \in Procs,
         NEW s \in {"READY", "RUNNING", "WAITING", "TERMINATED"}, Moves(p, s)
  PROVE  OnePlace'
<1>1. Procs' = Procs
  BY ProcsFixed DEF Moves
<1>2. ASSUME NEW q \in Procs, q = p
      PROVE  /\ state'[q] = "READY" <=> q \in ToSet(ready_queue')
             /\ state'[q] = "WAITING" <=> q \in ToSet(blocked_queue')
             /\ state'[q] = "RUNNING" <=> q = running_process'
  <2>1. state'[q] = s
    BY <1>2 DEF Moves, TypeOK
  <2>2. s = "RUNNING" <=> q = running_process'
    BY <1>2, NullIsNone DEF Moves
  <2>. QED
    BY <1>2, <2>1, <2>2 DEF Moves
<1>3. ASSUME NEW q \in Procs, q # p
      PROVE  /\ state'[q] = "READY" <=> q \in ToSet(ready_queue')
             /\ state'[q] = "WAITING" <=> q \in ToSet(blocked_queue')
             /\ state'[q] = "RUNNING" <=> q = running_process'
  <2>1. state'[q] = state[q]
    BY <1>3 DEF Moves, TypeOK
  <2>2. q = running_process <=> q = running_process'
    BY <1>3, NullIsNone DEF Moves
  <2>3. q \in ToSet(ready_queue) <=> q \in ToSet(ready_queue')
    BY <1>3 DEF Moves
  <2>4. q \in ToSet(blocked_queue) <=> q \in ToSet(blocked_queue')
    BY <1>3 DEF Moves
  <2>. QED
    BY <2>1, <2>2, <2>3, <2>4 DEF OnePlace
<1>4. IsInjective(ready_queue') /\ IsInjective(blocked_queue')
  BY DEF Moves
<1>. QED
  BY <1>1, <1>2, <1>3, <1>4 DEF OnePlace

LEMMA StayedPut == ASSUME OnePlace, StaysPut PROVE OnePlace'
  BY ProcsFixed DEF StaysPut, OnePlace

(* Where the process of each action comes from, and where it goes.         *)
LEMMA AdmitMoves ==
  ASSUME IInv, NEW p \in Procs, NEW queue \in Joined(p), Admit(p, queue)
  PROVE  state[p] = "NEW" /\ Moves(p, "READY")
<1>1. TypeOK /\ OnePlace /\ state[p] = "NEW"
  BY DEF IInv, SearchSoFar, Admit, Found
<1>2. p \notin ToSet(ready_queue) /\ p \notin ToSet(blocked_queue) /\ p # running_process
      /\ IsInjective(ready_queue) /\ IsInjective(blocked_queue)
  BY <1>1 DEF OnePlace
<1>3. IsInjective(queue) /\ ToSet(queue) = ToSet(ready_queue) \cup {p}
  BY <1>1, <1>2, JoinReady
<1>. QED
  BY <1>1, <1>2, <1>3 DEF Moves, Admit

LEMMA WakeMoves ==
  ASSUME IInv, Wake
  PROVE  /\ blocked_queue[i] \in Procs
         /\ state[blocked_queue[i]] = "WAITING" /\ Moves(blocked_queue[i], "READY")
<1> DEFINE p == blocked_queue[i]
<1>1. TypeOK /\ OnePlace
  BY DEF IInv
<1>2. /\ p \in Procs /\ p \in ToSet(blocked_queue)
      /\ ToSet(ready_queue') = ToSet(ready_queue) \cup {p}
      /\ ToSet(blocked_queue') = ToSet(blocked_queue) \ {p}
      /\ p \notin ToSet(ready_queue) => IsInjective(ready_queue')
      /\ IsInjective(blocked_queue')
  BY <1>1, Woken
<1>3. job' = job /\ state' = [state EXCEPT ![p] = "READY"] /\ running_process' = running_process
  BY DEF Wake
<1> HIDE DEF p
<1>4. state[p] = "WAITING" /\ p \notin ToSet(ready_queue) /\ p # running_process
  BY <1>1, <1>2 DEF OnePlace
<1>5. state[p] = "WAITING" /\ Moves(p, "READY")
  BY <1>2, <1>3, <1>4 DEF Moves
<1>. QED
  BY <1>2, <1>5 DEF p

LEMMA DispatchMoves ==
  ASSUME IInv, NEW next, Dispatch(next)
  PROVE  /\ Head(ready_queue) \in Procs /\ running_process = NULL
         /\ state[Head(ready_queue)] = "READY" /\ Moves(Head(ready_queue), "RUNNING")
<1> DEFINE p == Head(ready_queue)
<1>1. TypeOK /\ OnePlace
  BY DEF IInv
<1>2. /\ p \in Procs /\ p \in ToSet(ready_queue)
      /\ ToSet(ready_queue') = ToSet(ready_queue) \ {p} /\ IsInjective(ready_queue')
  BY <1>1, Dispatched
<1>3. /\ job' = job /\ state' = [state EXCEPT ![p] = "RUNNING"]
      /\ running_process' = p /\ running_process = NULL /\ blocked_queue' = blocked_queue
  BY DEF Dispatch, CanDispatch
<1> HIDE DEF p
<1>4. state[p] = "READY" /\ p \notin ToSet(blocked_queue) /\ IsInjective(blocked_queue)
  BY <1>1, <1>2 DEF OnePlace
<1>5. Moves(p, "RUNNING")
  BY <1>2, <1>3, <1>4 DEF Moves
<1>. QED
  BY <1>2, <1>3, <1>4, <1>5 DEF p

(* The process that executes is on the processor and in no queue.          *)
LEMMA Executing ==
  ASSUME TypeOK, OnePlace, NEW p \in Procs, NEW next, Execute(p, next)
  PROVE  /\ running_process = p /\ state[p] = "RUNNING" /\ job' = job
         /\ p \notin ToSet(ready_queue) /\ p \notin ToSet(blocked_queue)
         /\ IsInjective(ready_queue) /\ IsInjective(blocked_queue)
  BY DEF Execute, OnePlace

LEMMA BlockMoves ==
  ASSUME IInv, NEW p \in Procs, NEW next, Block(p, next)
  PROVE  state[p] = "RUNNING" /\ Moves(p, "WAITING")
<1>1. TypeOK /\ OnePlace /\ Execute(p, next)
  BY DEF IInv, Block
<1>2. /\ running_process = p /\ state[p] = "RUNNING" /\ job' = job
      /\ p \notin ToSet(ready_queue) /\ p \notin ToSet(blocked_queue)
      /\ IsInjective(ready_queue) /\ IsInjective(blocked_queue)
  BY <1>1, Executing
<1>3. blocked_queue \in Seq(Procs)
  BY <1>1 DEF TypeOK
<1>4. /\ IsInjective(Append(blocked_queue, p))
      /\ ToSet(Append(blocked_queue, p)) = ToSet(blocked_queue) \cup {p}
  BY <1>2, <1>3, JoinAtTail
<1>. QED
  BY <1>2, <1>4 DEF Moves, Block

LEMMA CompleteMoves ==
  ASSUME IInv, NEW p \in Procs, NEW next, Complete(p, next)
  PROVE  state[p] = "RUNNING" /\ Moves(p, "TERMINATED")
<1>1. TypeOK /\ OnePlace /\ Execute(p, next)
  BY DEF IInv, Complete
<1>2. /\ running_process = p /\ state[p] = "RUNNING" /\ job' = job
      /\ p \notin ToSet(ready_queue) /\ p \notin ToSet(blocked_queue)
      /\ IsInjective(ready_queue) /\ IsInjective(blocked_queue)
  BY <1>1, Executing
<1>. QED
  BY <1>2 DEF Moves, Complete

LEMMA PreemptMoves ==
  ASSUME IInv, NEW p \in Procs, NEW next, NEW queue \in Joined(p), Preempt(p, queue, next)
  PROVE  state[p] = "RUNNING" /\ Moves(p, "READY")
<1>1. TypeOK /\ OnePlace /\ Execute(p, next)
  BY DEF IInv, Preempt
<1>2. /\ running_process = p /\ state[p] = "RUNNING" /\ job' = job
      /\ p \notin ToSet(ready_queue) /\ p \notin ToSet(blocked_queue)
      /\ IsInjective(ready_queue) /\ IsInjective(blocked_queue)
  BY <1>1, Executing
<1>3. IsInjective(queue) /\ ToSet(queue) = ToSet(ready_queue) \cup {p}
  BY <1>1, <1>2, JoinReady
<1>. QED
  BY <1>2, <1>3 DEF Moves, Preempt

-----------------------------------------------------------------------------
(***************************************************************************)
(* Every step, by what it does to the states and the partitions: it        *)
(* changes nothing, admits a process to its best fit, moves a process that *)
(* keeps its partition, or ends one.                                       *)
(***************************************************************************)
Quiet == StaysPut /\ UNCHANGED memory

Admits(p) ==
  /\ state[p] = "NEW" /\ Moves(p, "READY")
  /\ \E m \in Fitting(job[p].memory_size) :
       /\ \A n \in Fitting(job[p].memory_size) : sizes[m] <= sizes[n]
       /\ occupied_by' = [occupied_by EXCEPT ![m] = AsInt(job[p].pid)]
       /\ partition_number' = [partition_number EXCEPT ![p] = m]

MovesOn(p) ==
  /\ \/ state[p] = "READY" /\ Moves(p, "RUNNING") /\ running_process = NULL
     \/ state[p] = "RUNNING" /\ Moves(p, "WAITING")
     \/ state[p] = "WAITING" /\ Moves(p, "READY")
     \/ state[p] = "RUNNING" /\ Moves(p, "READY") /\ TYPE # "FCFS"
  /\ UNCHANGED memory

Leaves(p) ==
  /\ state[p] = "RUNNING" /\ Moves(p, "TERMINATED")
  /\ occupied_by' = [occupied_by EXCEPT ![partition_number[p]] = FREE]
  /\ UNCHANGED partition_number

StepKind == Quiet \/ \E p \in Procs : Admits(p) \/ MovesOn(p) \/ Leaves(p)

LEMMA AdmitsToBestFit ==
  ASSUME IInv, NEW p \in Procs, NEW queue \in Joined(p), Admit(p, queue)
  PROVE  Admits(p)
<1>1. Found /\ i = p /\ best_fit # 0 /\ TypeOK /\ SearchSoFar
  BY DEF Admit, IInv
<1>2. /\ best_fit \in Fitting(job[p].memory_size)
      /\ \A m \in Fitting(job[p].memory_size) :
           sizes[best_fit] < sizes[m] \/ (sizes[best_fit] = sizes[m] /\ best_fit <= m)
  BY <1>1, BestFitFound
<1>3. \A m \in Fitting(job[p].memory_size) : sizes[best_fit] <= sizes[m]
  <2> SUFFICES ASSUME NEW m \in Fitting(job[p].memory_size) PROVE sizes[best_fit] <= sizes[m]
    OBVIOUS
  <2>1. m \in Partitions /\ best_fit \in Partitions
    BY <1>2 DEF Fitting
  <2>4. \A n \in Partitions : sizes[n] \in 0 .. 127
    BY SizesType
  <2>2. sizes[m] \in Int /\ sizes[best_fit] \in Int
    BY <2>4, <2>1
  <2>3. sizes[best_fit] < sizes[m] \/ sizes[best_fit] = sizes[m]
    BY <1>2
  <2>. QED
    BY <2>2, <2>3
<1>4. state[p] = "NEW" /\ Moves(p, "READY")
  BY AdmitMoves
<1>. QED
  BY <1>2, <1>3, <1>4 DEF Admits, Admit

LEMMA StepKinds == ASSUME IInv, AnyStep PROVE StepKind
<1>1. CASE ArrivalStep
  <2>1. ASSUME NEW p \in Procs, NEW queue \in Joined(p), Admit(p, queue) PROVE StepKind
    BY <2>1, AdmitsToBestFit DEF StepKind
  <2>2. ASSUME NEW p \in Procs, find_memory_partition(p) \/ PassOver(p) PROVE Quiet
    BY <2>2 DEF find_memory_partition, PassOver, Quiet, StaysPut
  <2>3. ASSUME NEW m \in Partitions, LookAt(m) PROVE Quiet
    BY <2>3 DEF LookAt, Quiet, StaysPut
  <2>4. ArrivalsDone => Quiet
    BY DEF ArrivalsDone, Quiet, StaysPut
  <2>. QED
    BY <1>1, <2>1, <2>2, <2>3, <2>4 DEF ArrivalStep, StepKind
<1>2. CASE Wake
  BY <1>2, WakeMoves DEF StepKind, MovesOn, Wake
<1>3. CASE StillBlocked
  BY <1>3 DEF StepKind, Quiet, StaysPut, StillBlocked
<1>4. ASSUME NEW next \in Phases, SelectStep(next) PROVE StepKind
  <2>1. CASE Dispatch(next)
    BY <2>1, DispatchMoves DEF StepKind, MovesOn, Dispatch
  <2>2. CASE IODone(next) \/ NoDispatch(next) \/ Idle(next)
    BY <2>2 DEF StepKind, Quiet, StaysPut, IODone, NoDispatch, Idle
  <2>. QED
    BY <1>4, <2>1, <2>2 DEF SelectStep
<1>5. ASSUME NEW next \in Phases, NEW p \in Procs, ExecuteStep(p, next) PROVE StepKind
  <2>1. CASE Block(p, next)
    BY <2>1, BlockMoves DEF StepKind, MovesOn, Block
  <2>2. CASE Complete(p, next)
    BY <2>2, CompleteMoves DEF StepKind, Leaves, Complete
  <2>3. CASE KeepRunning(p, next)
    BY <2>3 DEF StepKind, Quiet, StaysPut, KeepRunning, Execute
  <2>4. ASSUME NEW queue \in Joined(p), Preempt(p, queue, next), TYPE # "FCFS" PROVE StepKind
    BY <2>4, PreemptMoves DEF StepKind, MovesOn, Preempt
  <2>. QED
    BY <1>5, <2>1, <2>2, <2>3, <2>4 DEF ExecuteStep
<1>6. ASSUME NEW p \in Procs, Crash(p) PROVE StepKind
  BY <1>6 DEF StepKind, Quiet, StaysPut, Crash, Execute
<1>7. CASE Advance
  BY <1>7 DEF StepKind, Quiet, StaysPut, Advance
<1>8. CASE UNCHANGED svars
  BY <1>8 DEF StepKind, Quiet, StaysPut, svars
<1>. QED
  BY <1>1, <1>2, <1>3, <1>4, <1>5, <1>6, <1>7, <1>8 DEF AnyStep

LEMMA OnePlaceStep == ASSUME TypeOK, OnePlace, StepKind PROVE OnePlace'
  BY MovedOnce, StayedPut DEF StepKind, Quiet, Admits, MovesOn, Leaves

-----------------------------------------------------------------------------
(***************************************************************************)
(* The partitions.                                                         *)
(***************************************************************************)
LEMMA OwnPartitionKept ==
  ASSUME OwnPartition, job' = job, UNCHANGED memory, \A p \in Procs : Live(p)' <=> Live(p)
  PROVE  OwnPartition'
<1>1. Procs' = Procs
  BY ProcsFixed
<1>. HIDE DEF Live
<1>. QED
  BY <1>1 DEF OwnPartition, memory

LEMMA OwnPartitionStep ==
  ASSUME TypeOK, OwnPartition, StepKind
  PROVE  OwnPartition'
<1>0. \A p \in Procs : AsInt(job[p].pid) # FREE
  BY JobType, LineType, PidAsInt
<1>1. CASE Quiet
  BY <1>1, OwnPartitionKept DEF Quiet, StaysPut, Live
<1>2. ASSUME NEW p \in Procs, MovesOn(p) PROVE OwnPartition'
  <2>1. job' = job /\ UNCHANGED memory
    BY <1>2 DEF MovesOn, Moves
  <2>2. \A q \in Procs : Live(q)' <=> Live(q)
    BY <1>2 DEF MovesOn, Moves, Live, TypeOK
  <2>. QED
    BY <2>1, <2>2, OwnPartitionKept
<1>3. ASSUME NEW p \in Procs, Admits(p) PROVE OwnPartition'
  <2>1. PICK m \in Fitting(job[p].memory_size) :
          /\ occupied_by' = [occupied_by EXCEPT ![m] = AsInt(job[p].pid)]
          /\ partition_number' = [partition_number EXCEPT ![p] = m]
    BY <1>3 DEF Admits
  <2>2. m \in Partitions /\ occupied_by[m] = FREE /\ sizes[m] >= job[p].memory_size
    BY DEF Fitting
  <2>3. Procs' = Procs /\ job' = job
    BY <1>3, ProcsFixed DEF Admits, Moves
  <2>4. ~Live(p) /\ Live(p)' /\ \A q \in Procs \ {p} : Live(q)' <=> Live(q)
    BY <1>3 DEF Admits, Moves, Live, TypeOK
  <2>5. /\ partition_number'[p] = m /\ occupied_by'[m] = AsInt(job[p].pid)
        /\ \A q \in Procs \ {p} : partition_number'[q] = partition_number[q]
        /\ \A n \in Partitions \ {m} : occupied_by'[n] = occupied_by[n]
    BY <2>1, <2>2 DEF TypeOK
  <2>. HIDE DEF Live
  <2>6. \A q \in Procs \ {p} : Live(q) => partition_number[q] # m
    BY <2>2, <1>0 DEF OwnPartition
  <2>7. ASSUME NEW q \in Procs, Live(q)'
        PROVE  /\ partition_number'[q] \in Partitions
               /\ occupied_by'[partition_number'[q]] = AsInt(job[q].pid)
               /\ sizes[partition_number'[q]] >= job[q].memory_size
               /\ \A r \in Procs \ {q} : Live(r)' => partition_number'[r] # partition_number'[q]
    <3>1. CASE q = p
      BY <3>1, <2>2, <2>4, <2>5, <2>6
    <3>2. CASE q # p
      <4>1. Live(q) /\ partition_number'[q] = partition_number[q] /\ partition_number[q] # m
        BY <3>2, <2>4, <2>5, <2>6, <2>7
      <4>2. /\ partition_number[q] \in Partitions
            /\ occupied_by[partition_number[q]] = AsInt(job[q].pid)
            /\ sizes[partition_number[q]] >= job[q].memory_size
            /\ \A r \in Procs \ {q} : Live(r) => partition_number[r] # partition_number[q]
        BY <4>1 DEF OwnPartition
      <4>. QED
        BY <3>2, <4>1, <4>2, <2>4, <2>5
    <3>. QED
      BY <3>1, <3>2
  <2>8. ASSUME NEW n \in Partitions, occupied_by'[n] # FREE
        PROVE  \E q \in Procs : Live(q)' /\ partition_number'[q] = n
    <3>1. CASE n = m
      BY <3>1, <2>4, <2>5
    <3>2. CASE n # m
      <4>1. PICK q \in Procs : Live(q) /\ partition_number[q] = n
        BY <3>2, <2>5, <2>8 DEF OwnPartition
      <4>2. q # p
        BY <4>1, <2>4
      <4>. QED
        BY <4>1, <4>2, <2>4, <2>5
    <3>. QED
      BY <3>1, <3>2
  <2>. QED
    BY <2>3, <2>7, <2>8 DEF OwnPartition
<1>4. ASSUME NEW p \in Procs, Leaves(p) PROVE OwnPartition'
  <2> DEFINE m == partition_number[p]
  <2>1. Procs' = Procs /\ job' = job /\ partition_number' = partition_number
    BY <1>4, ProcsFixed DEF Leaves, Moves
  <2>2. Live(p) /\ ~Live(p)' /\ \A q \in Procs \ {p} : Live(q)' <=> Live(q)
    BY <1>4 DEF Leaves, Moves, Live, TypeOK
  <2>. HIDE DEF Live
  <2>3. m \in Partitions /\ \A q \in Procs \ {p} : Live(q) => partition_number[q] # m
    BY <2>2 DEF OwnPartition
  <2>4. occupied_by'[m] = FREE /\ \A n \in Partitions \ {m} : occupied_by'[n] = occupied_by[n]
    BY <1>4, <2>3 DEF Leaves, TypeOK
  <2>. HIDE DEF m
  <2>5. ASSUME NEW q \in Procs, Live(q)'
        PROVE  /\ partition_number[q] \in Partitions
               /\ occupied_by'[partition_number[q]] = AsInt(job[q].pid)
               /\ sizes[partition_number[q]] >= job[q].memory_size
               /\ \A r \in Procs \ {q} : Live(r)' => partition_number[r] # partition_number[q]
    <3>1. q # p /\ Live(q) /\ partition_number[q] # m
      BY <2>2, <2>3, <2>5
    <3>2. /\ partition_number[q] \in Partitions
          /\ occupied_by[partition_number[q]] = AsInt(job[q].pid)
          /\ sizes[partition_number[q]] >= job[q].memory_size
          /\ \A r \in Procs \ {q} : Live(r) => partition_number[r] # partition_number[q]
      BY <3>1 DEF OwnPartition
    <3>. QED
      BY <3>1, <3>2, <2>2, <2>4
  <2>6. ASSUME NEW n \in Partitions, occupied_by'[n] # FREE
        PROVE  \E q \in Procs : Live(q)' /\ partition_number[q] = n
    <3>1. n # m /\ occupied_by[n] # FREE
      BY <2>4, <2>6
    <3>2. PICK q \in Procs : Live(q) /\ partition_number[q] = n
      BY <3>1 DEF OwnPartition
    <3>3. q # p
      BY <3>1, <3>2 DEF m
    <3>. QED
      BY <3>2, <3>3, <2>2
  <2>. QED
    BY <2>1, <2>5, <2>6 DEF OwnPartition
<1>. QED
  BY <1>1, <1>2, <1>3, <1>4 DEF StepKind

-----------------------------------------------------------------------------
(***************************************************************************)
(* The blocked queue.                                                      *)
(***************************************************************************)
LEMMA ElapsedAlike ==
  ASSUME UNCHANGED <<job, current_time>>, NEW p, last_io_time'[p] = last_io_time[p]
  PROVE  IOElapsed(p)' <=> IOElapsed(p)
  BY DEF IOElapsed, Minus

LEMMA IOStep == ASSUME IInv, AnyStep PROVE NoOverdueIO' /\ IOSoFar'
<1>1. TypeOK /\ OnePlace /\ NoOverdueIO /\ IOSoFar
  BY DEF IInv
<1>2. blocked_queue \in Seq(Procs) /\ Len(blocked_queue) \in Nat /\ i \in Nat \ {0}
      /\ \A j \in 1 .. Len(blocked_queue) : blocked_queue[j] \in Procs
  BY <1>1, LenProperties, ElementOfSeq DEF TypeOK
<1>3. ASSUME pc' \notin {"io", "select", "execute"} PROVE NoOverdueIO' /\ IOSoFar'
  BY <1>3 DEF NoOverdueIO, IOSoFar
<1>4. CASE ArrivalsDone
  <2>1. i' = 1 /\ pc' = "io"
    BY <1>4 DEF ArrivalsDone
  <2>. QED
    BY <2>1 DEF NoOverdueIO, IOSoFar
<1>5. CASE Wake
  <2>1. /\ pc' = "io" /\ pc = "io" /\ i' = i /\ UNCHANGED <<job, current_time>>
        /\ last_io_time' = last_io_time /\ blocked_queue' = RemoveAt(blocked_queue, i)
    BY <1>5 DEF Wake, times
  <2>2. i \in 1 .. Len(blocked_queue) /\ IsInjective(blocked_queue)
    BY <1>1, <1>5, Woken DEF OnePlace
  <2>3. /\ Len(blocked_queue') = Len(blocked_queue) - 1
        /\ \A j \in 1 .. Len(blocked_queue) - 1 : j < i => blocked_queue'[j] = blocked_queue[j]
    BY <1>2, <2>1, <2>2, LeaveAt
  <2>4. ASSUME NEW j \in 1 .. Len(blocked_queue'), j < i'
        PROVE  ~IOElapsed(blocked_queue[j])'
    <3>1. j \in 1 .. Len(blocked_queue) /\ j < i /\ blocked_queue'[j] = blocked_queue[j]
      BY <2>1, <2>3, <2>4, <1>2
    <3>2. ~IOElapsed(blocked_queue[j])
      BY <1>1, <2>1, <3>1 DEF IOSoFar
    <3>. QED
      BY <2>1, <3>1, <3>2 DEF IOElapsed, Minus
  <2>. QED
    BY <2>1, <2>4 DEF NoOverdueIO, IOSoFar
<1>6. CASE StillBlocked
  <2>1. /\ pc' = "io" /\ pc = "io" /\ i' = i + 1 /\ UNCHANGED <<job, current_time>>
        /\ last_io_time' = last_io_time /\ blocked_queue' = blocked_queue
        /\ ~IOElapsed(blocked_queue[i])
    BY <1>6 DEF StillBlocked, times
  <2>2. ASSUME NEW j \in 1 .. Len(blocked_queue), j < i + 1
        PROVE  ~IOElapsed(blocked_queue[j])
    <3>1. j < i \/ j = i
      BY <2>2, <1>2
    <3>. QED
      BY <3>1, <1>1, <2>1 DEF IOSoFar
  <2>. QED
    BY <2>1, <2>2 DEF NoOverdueIO, IOSoFar, IOElapsed, Minus
<1>7. ASSUME NEW next \in Phases, IODone(next) PROVE NoOverdueIO' /\ IOSoFar'
  <2>1. /\ pc = "io" /\ pc' = next /\ i > Len(blocked_queue) /\ UNCHANGED <<job, current_time>>
        /\ last_io_time' = last_io_time /\ blocked_queue' = blocked_queue
    BY <1>7 DEF IODone, times
  <2>2. \A j \in 1 .. Len(blocked_queue) : ~IOElapsed(blocked_queue[j])
    BY <1>1, <1>2, <2>1 DEF IOSoFar
  <2>3. \A p \in ToSet(blocked_queue) : ~IOElapsed(p)
    BY <1>2, <2>2, QueueMembers
  <2>4. pc' # "io"
    BY <2>1 DEF Phases
  <2>. QED
    BY <2>1, <2>3, <2>4 DEF NoOverdueIO, IOSoFar, IOElapsed, Minus
<1>8. ASSUME NEW next \in Phases, Dispatch(next) \/ NoDispatch(next) \/ Idle(next)
      PROVE  NoOverdueIO' /\ IOSoFar'
  <2>1. /\ pc \in {"select", "execute"} /\ pc' = next /\ UNCHANGED <<job, current_time>>
        /\ last_io_time' = last_io_time /\ blocked_queue' = blocked_queue
    BY <1>8 DEF Dispatch, NoDispatch, Idle, times
  <2>2. pc' # "io"
    BY <2>1 DEF Phases
  <2>. QED
    BY <1>1, <2>1, <2>2 DEF NoOverdueIO, IOSoFar, IOElapsed, Minus
<1>9. ASSUME NEW next \in Phases, NEW p \in Procs, ExecuteStep(p, next)
      PROVE  NoOverdueIO' /\ IOSoFar'
  <2>1. Execute(p, next)
    BY <1>9 DEF ExecuteStep, Block, Complete, KeepRunning, Preempt
  <2>2. pc = "execute" /\ pc' # "io" /\ UNCHANGED <<job, current_time>>
    BY <2>1 DEF Execute, Phases
  <2>3. \A q \in ToSet(blocked_queue) : last_io_time[q] # current_time => ~IOElapsed(q)
    BY <1>1, <2>2 DEF NoOverdueIO
  <2>4. CASE ~Block(p, next)
    <3>1. last_io_time' = last_io_time /\ blocked_queue' = blocked_queue
      BY <1>9, <2>4 DEF ExecuteStep, Complete, KeepRunning, Preempt
    <3>. QED
      BY <2>2, <2>3, <3>1 DEF NoOverdueIO, IOSoFar, IOElapsed, Minus
  <2>5. CASE Block(p, next)
    <3>1. blocked_queue' = Append(blocked_queue, p)
          /\ last_io_time' = [last_io_time EXCEPT ![p] = current_time]
      BY <2>5 DEF Block
    <3>2. ToSet(blocked_queue') = ToSet(blocked_queue) \cup {p} /\ ToSet(blocked_queue) \subseteq Procs
      BY <1>2, <3>1, JoinAtTail, QueueMembers
    <3>3. last_io_time'[p] = current_time
          /\ \A q \in Procs \ {p} : last_io_time'[q] = last_io_time[q]
      BY <1>1, <3>1 DEF TypeOK
    <3>4. ASSUME NEW q \in ToSet(blocked_queue'), last_io_time'[q] # current_time'
          PROVE  ~IOElapsed(q)'
      <4>1. q # p /\ q \in ToSet(blocked_queue) /\ last_io_time'[q] = last_io_time[q]
        BY <2>2, <3>2, <3>3, <3>4
      <4>. QED
        BY <2>2, <2>3, <3>4, <4>1, ElapsedAlike
    <3>. QED
      BY <2>2, <3>4 DEF NoOverdueIO, IOSoFar
  <2>. QED
    BY <2>4, <2>5
<1>10. CASE UNCHANGED svars
  BY <1>1, <1>10 DEF svars, times, NoOverdueIO, IOSoFar, IOElapsed, Minus
<1>11. ASSUME ArrivalStep, ~ArrivalsDone PROVE pc' \in {"arrivals", "search"}
  BY <1>11 DEF ArrivalStep, find_memory_partition, PassOver, Admit, LookAt
<1>12. ASSUME NEW p \in Procs, Crash(p) PROVE pc' = "crashed"
  BY <1>12 DEF Crash, Execute
<1>13. Advance => pc' \in {"done", "arrivals"}
  BY DEF Advance
<1>. QED
  BY <1>3, <1>4, <1>5, <1>6, <1>7, <1>8, <1>9, <1>10, <1>11, <1>12, <1>13
     DEF AnyStep, SelectStep

-----------------------------------------------------------------------------
(***************************************************************************)
(* The theorems.                                                           *)
(***************************************************************************)
LEMMA InitIInv == Init => IInv
<1> SUFFICES ASSUME Init PROVE IInv
  OBVIOUS
<1>1. TypeOK
  BY InitType
<1>2. ready_queue = <<>> /\ blocked_queue = <<>> /\ running_process = NULL /\ pc = "arrivals"
      /\ \A p \in Procs : state[p] = "NEW"
  BY DEF Init
<1>3. OnePlace
  <2>1. ToSet(<<>>) = {} /\ IsInjective(<<>>)
    BY DEF ToSet, IsInjective
  <2>. QED
    BY <1>1, <1>2, <2>1, NullIsNone DEF OnePlace
<1>4. OwnPartition
  BY <1>2 DEF OwnPartition, Live, Init
<1>. QED
  BY <1>1, <1>2, <1>3, <1>4 DEF IInv, SearchSoFar, NoOverdueIO, IOSoFar

LEMMA StepIInv == ASSUME IInv, [NextSimulator]_vars PROVE IInv'
<1>1. AnyStep
  BY EveryScheduler DEF vars, AnyStep
<1>2. TypeOK /\ OnePlace /\ OwnPartition
  BY DEF IInv
<1>3. StepKind
  BY <1>1, StepKinds
<1>4. TypeOK' /\ OnePlace' /\ OwnPartition'
  BY <1>1, <1>2, <1>3, StepType, OnePlaceStep, OwnPartitionStep
<1>. QED
  BY <1>1, <1>4, SearchSoFarStep, IOStep DEF IInv

LEMMA Inductive == Spec => []IInv
<1>1. InitSimulator => IInv
  BY InitIInv DEF InitSimulator, InitRR
<1>2. IInv /\ [NextSimulator]_vars => IInv'
  BY StepIInv
<1>. QED
  BY <1>1, <1>2, PTL DEF Spec

(* Every variable of the schedulers has its type.                          *)
THEOREM SimulatorTypeCorrect == Spec => []TypeOK
<1>1. IInv => TypeOK
  BY DEF IInv
<1>. QED
  BY <1>1, Inductive, PTL

(* A process is in exactly the place its state says.                       *)
THEOREM EveryProcessInOnePlace == Spec => []OnePlace
<1>1. IInv => OnePlace
  BY DEF IInv
<1>. QED
  BY <1>1, Inductive, PTL

(* Live processes and occupied partitions are in one-to-one correspondence. *)
THEOREM EveryPartitionOwned == Spec => []OwnPartition
<1>1. IInv => OwnPartition
  BY DEF IInv
<1>. QED
  BY <1>1, Inductive, PTL

(* find_memory_partition returns the best fit, the first of equal ones.    *)
THEOREM SearchFindsBestFit == Spec => []FindsBestFit
<1>1. IInv => FindsBestFit
  BY BestFitFound DEF IInv, FindsBestFit
<1>. QED
  BY <1>1, Inductive, PTL

(* handle_io_completion leaves nobody behind, although the queue closes up *)
(* while it goes through it.                                               *)
THEOREM NobodyOverdue == Spec => []NoOverdueIO
<1>1. IInv => NoOverdueIO
  BY DEF IInv
<1>. QED
  BY <1>1, Inductive, PTL

-----------------------------------------------------------------------------
(***************************************************************************)
(* The five-state model.  The owner of a partition is the live process it  *)
(* belongs to.                                                             *)
(***************************************************************************)
OwnerOK ==
  /\ Owner \in [Partitions -> Procs \cup {0}]
  /\ \A m \in Partitions : Owner[m] = 0 <=> occupied_by[m] = FREE
  /\ \A m \in Partitions, p \in Procs : Owner[m] = p <=> Live(p) /\ partition_number[p] = m

LEMMA OwnerIsOK == TypeOK /\ OwnPartition => OwnerOK
<1> SUFFICES ASSUME TypeOK, OwnPartition PROVE OwnerOK
  OBVIOUS
<1>1. NULL \notin Procs /\ \A p \in Procs : AsInt(job[p].pid) # FREE
  BY NullIsNone, JobType, LineType, PidAsInt
<1>. HIDE DEF Live
<1> DEFINE In(p, m) ==
      Live(p) /\ partition_number[p] = m /\ occupied_by[m] = AsInt(job[p].pid)
<1>2. \A p \in Procs, m \in Partitions : In(p, m) <=> Live(p) /\ partition_number[p] = m
  BY DEF OwnPartition
<1>3. \A m \in Partitions :
        Owner[m] = IF \E p \in Procs : In(p, m) THEN CHOOSE p \in Procs : In(p, m) ELSE 0
  BY DEF Owner
<1>4. \A p, q \in Procs, m \in Partitions : In(p, m) /\ In(q, m) => p = q
  BY DEF OwnPartition
<1>. HIDE DEF In
<1>5. ASSUME NEW m \in Partitions
      PROVE  /\ Owner[m] \in Procs \cup {0}
             /\ Owner[m] = 0 <=> ~\E p \in Procs : In(p, m)
             /\ \A p \in Procs : Owner[m] = p <=> In(p, m)
  <2>1. CASE \E p \in Procs : In(p, m)
    <3>1. Owner[m] \in Procs /\ In(Owner[m], m)
      BY <1>3, <2>1
    <3>. QED
      BY <1>1, <1>4, <2>1, <3>1 DEF NULL
  <2>2. CASE ~\E p \in Procs : In(p, m)
    BY <1>1, <1>3, <2>2 DEF NULL
  <2>. QED
    BY <2>1, <2>2
<1>6. \A m \in Partitions : (\E p \in Procs : In(p, m)) <=> occupied_by[m] # FREE
  BY <1>1 DEF OwnPartition, In
<1>7. Owner = [m \in Partitions |-> Owner[m]]
  BY DEF Owner
<1>8. Owner \in [Partitions -> Procs \cup {0}]
  BY <1>5, <1>7
<1>. QED
  BY <1>2, <1>5, <1>6, <1>8 DEF OwnerOK

LEMMA OwnerIsOKNext == TypeOK' /\ OwnPartition' => OwnerOK'
  BY OwnerIsOK, PTL

LEMMA LifecycleStep ==
  ASSUME TypeOK, OnePlace, OwnPartition, TypeOK', OwnPartition', UNCHANGED TYPE, StepKind
  PROVE  [LC!Next]_LC!lvars
<1>1. OwnerOK /\ OwnerOK'
  BY OwnerIsOK, OwnerIsOKNext
<1>2. LC!Procs = Procs /\ LC!Partitions = Partitions
  BY DEF LC!Procs, LC!Partitions, Procs, Partitions
<1>3. (TYPE # "FCFS")' = (TYPE # "FCFS")
  OBVIOUS
<1>4. CASE Quiet
  <2>1. job' = job /\ state' = state /\ UNCHANGED memory
    BY <1>4 DEF Quiet, StaysPut
  <2>2. Owner' = Owner
    BY <2>1, ProcsFixed DEF Owner, Live, memory
  <2>. QED
    BY <2>1, <2>2, <1>3 DEF LC!lvars
<1>5. ASSUME NEW p \in Procs, MovesOn(p) PROVE LC!Next
  <2>1. job' = job /\ Procs' = Procs /\ UNCHANGED memory
    BY <1>5, ProcsFixed DEF MovesOn, Moves
  <2>2. \A q \in Procs : Live(q)' <=> Live(q)
    BY <1>5 DEF MovesOn, Moves, Live, TypeOK
  <2>3. Owner' = Owner
    <3>1. ASSUME NEW m \in Partitions PROVE Owner'[m] = Owner[m]
      <4>1. \A q \in Procs : Owner'[m] = q <=> Owner[m] = q
        BY <1>1, <2>1, <2>2 DEF OwnerOK, memory
      <4>2. Owner'[m] \in Procs \cup {0} /\ Owner[m] \in Procs \cup {0}
        BY <1>1, <2>1 DEF OwnerOK
      <4>. QED
        BY <4>1, <4>2
    <3>. QED
      BY <3>1, <1>1 DEF OwnerOK
  <2>4. UNCHANGED LC!fixed
    BY <2>1, <1>3 DEF LC!fixed
  <2>5. CASE state[p] = "READY" /\ Moves(p, "RUNNING") /\ running_process = NULL
    <3>1. \A q \in Procs : state[q] # "RUNNING"
      BY <2>5, NullIsNone DEF OnePlace
    <3>. QED
      BY <2>5, <3>1, <2>3, <2>4, <1>2 DEF LC!Next, LC!Dispatch, LC!Move, Moves
  <2>6. CASE state[p] = "RUNNING" /\ Moves(p, "WAITING")
    BY <2>6, <2>3, <2>4, <1>2 DEF LC!Next, LC!Block, LC!Move, Moves
  <2>7. CASE state[p] = "WAITING" /\ Moves(p, "READY")
    BY <2>7, <2>3, <2>4, <1>2 DEF LC!Next, LC!Wake, LC!Move, Moves
  <2>8. CASE state[p] = "RUNNING" /\ Moves(p, "READY") /\ TYPE # "FCFS"
    BY <2>8, <2>3, <2>4, <1>2 DEF LC!Next, LC!Preempt, LC!Move, Moves
  <2>. QED
    BY <1>5, <2>5, <2>6, <2>7, <2>8 DEF MovesOn
<1>6. ASSUME NEW p \in Procs, Admits(p) PROVE LC!Next
  <2>1. PICK m \in Fitting(job[p].memory_size) :
          /\ \A n \in Fitting(job[p].memory_size) : sizes[m] <= sizes[n]
          /\ occupied_by' = [occupied_by EXCEPT ![m] = AsInt(job[p].pid)]
          /\ partition_number' = [partition_number EXCEPT ![p] = m]
    BY <1>6 DEF Admits
  <2>2. \A n : n \in Fitting(job[p].memory_size) <=> n \in Partitions /\ LC!Fits(p, n)
    BY <1>1 DEF Fitting, LC!Fits, OwnerOK
  <2>3. m \in Partitions /\ LC!Fits(p, m)
    BY <2>2
  <2>4. job' = job /\ Procs' = Procs /\ UNCHANGED LC!fixed
    BY <1>6, <1>3, ProcsFixed DEF Admits, Moves, LC!fixed
  <2>5. /\ ~Live(p) /\ Live(p)' /\ \A q \in Procs \ {p} : Live(q)' <=> Live(q)
        /\ partition_number'[p] = m
        /\ \A q \in Procs \ {p} : partition_number'[q] = partition_number[q]
    BY <1>6, <2>1 DEF Admits, Moves, Live, TypeOK
  <2>6. Owner' = [Owner EXCEPT ![m] = p]
    <3>1. Owner'[m] = p
      BY <1>1, <2>3, <2>4, <2>5 DEF OwnerOK
    <3>2. ASSUME NEW n \in Partitions, n # m PROVE Owner'[n] = Owner[n]
      <4>1. \A q \in Procs : Owner'[n] = q <=> Owner[n] = q
        BY <1>1, <2>4, <2>5, <3>2 DEF OwnerOK
      <4>2. Owner'[n] \in Procs \cup {0} /\ Owner[n] \in Procs \cup {0}
        BY <1>1, <2>4 DEF OwnerOK
      <4>. QED
        BY <4>1, <4>2
    <3>. QED
      BY <3>1, <3>2, <2>3, <1>1 DEF OwnerOK
  <2>7. LC!Move(p, "NEW", "READY")
    BY <1>6 DEF Admits, Moves, LC!Move
  <2>8. \A n \in Partitions : LC!Fits(p, n) => sizes[m] <= sizes[n]
    BY <2>1, <2>2
  <2>9. LC!Admit(p, m)
    BY <1>2, <2>3, <2>4, <2>6, <2>7, <2>8 DEF LC!Admit
  <2>. QED
    BY <2>9, <2>3, <1>2 DEF LC!Next
<1>7. ASSUME NEW p \in Procs, Leaves(p) PROVE LC!Next
  <2> DEFINE m == partition_number[p]
  <2>1. job' = job /\ Procs' = Procs /\ UNCHANGED LC!fixed
    BY <1>7, <1>3, ProcsFixed DEF Leaves, Moves, LC!fixed
  <2>2. /\ Live(p) /\ ~Live(p)' /\ \A q \in Procs \ {p} : Live(q)' <=> Live(q)
        /\ partition_number' = partition_number
    BY <1>7 DEF Leaves, Moves, Live, TypeOK
  <2>3. m \in Partitions /\ occupied_by'[m] = FREE
    BY <1>7, <2>2 DEF OwnPartition, Leaves, TypeOK
  <2>4. Owner[m] = p /\ Owner'[m] = 0
    BY <1>1, <2>2, <2>3 DEF OwnerOK
  <2>5. Owner' = [Owner EXCEPT ![m] = 0]
    <3>1. ASSUME NEW n \in Partitions, n # m PROVE Owner'[n] = Owner[n]
      <4>1. \A q \in Procs : Owner'[n] = q <=> Owner[n] = q
        BY <1>1, <2>1, <2>2, <3>1 DEF OwnerOK
      <4>2. Owner'[n] \in Procs \cup {0} /\ Owner[n] \in Procs \cup {0}
        BY <1>1, <2>1 DEF OwnerOK
      <4>. QED
        BY <4>1, <4>2
    <3>. QED
      BY <3>1, <2>3, <2>4, <1>1 DEF OwnerOK
  <2>6. LC!Move(p, "RUNNING", "TERMINATED")
    BY <1>7 DEF Leaves, Moves, LC!Move
  <2>7. LC!Exit(p)
    BY <1>2, <2>1, <2>3, <2>4, <2>5, <2>6 DEF LC!Exit
  <2>. QED
    BY <2>7, <1>2 DEF LC!Next
<1>. QED
  BY <1>4, <1>5, <1>6, <1>7 DEF StepKind

(* Each scheduler implements the five-state model, and run_fcfs the one    *)
(* without preemption.                                                     *)
THEOREM SchedulersImplementLifecycle == Spec => ImplementsLifecycle
<1>1. InitSimulator => LC!Init
  <2> SUFFICES ASSUME InitSimulator PROVE LC!Init
    OBVIOUS
  <2>1. Init
    BY DEF InitSimulator, InitRR
  <2>2. (TYPE # "FCFS") \in BOOLEAN
    OBVIOUS
  <2>3. state = [p \in LC!Procs |-> "NEW"]
    BY <2>1 DEF Init, LC!Procs, Procs
  <2>4. Owner = [m \in LC!Partitions |-> 0]
    <3>1. \A p \in Procs : ~Live(p)
      BY <2>1 DEF Init, Live
    <3>. HIDE DEF Live
    <3>. QED
      BY <3>1 DEF Owner, LC!Partitions, Partitions
  <2>. QED
    BY <2>2, <2>3, <2>4 DEF LC!Init
<1>2. IInv /\ IInv' /\ [NextSimulator]_vars => [LC!Next]_LC!lvars
  <2> SUFFICES ASSUME IInv, IInv', [NextSimulator]_vars PROVE [LC!Next]_LC!lvars
    OBVIOUS
  <2>1. AnyStep /\ UNCHANGED TYPE
    BY EveryScheduler DEF vars, AnyStep
  <2>2. StepKind
    BY <2>1, StepKinds
  <2>. QED
    BY <2>1, <2>2, LifecycleStep DEF IInv
<1>. QED
  BY <1>1, <1>2, Inductive, PTL DEF Spec, ImplementsLifecycle, LC!Spec

-----------------------------------------------------------------------------
(***************************************************************************)
(* The external-priority scheduler orders the ready queue by pid and       *)
(* compares lines of the input; where the pids grow with the lines the two *)
(* are one order, and a process that gives way does so to a higher one.    *)
(***************************************************************************)
PidsGrow == \A w \in Workloads : \A p, q \in 1 .. Len(w) : p < q => w[p].pid < w[q].pid

LEMMA StaysBehindHead ==
  ASSUME PidsGrow, TypeOK, NEW p \in Procs, HeadGoesFirst(p)
  PROVE  /\ InsertByPid(ready_queue, p) # <<>>
         /\ Head(InsertByPid(ready_queue, p)) = Head(ready_queue)
<1> DEFINE q == ready_queue
<1>1. q \in Seq(Procs) /\ q # <<>> /\ Head(q) < p
  BY DEF TypeOK, HeadGoesFirst, priority
<1>2. Len(q) \in Nat /\ Len(q) >= 1 /\ Head(q) = q[1] /\ q[1] \in Procs
  BY <1>1, LenProperties, ElementOfSeq, EmptySeq
<1>3. job[q[1]].pid < job[p].pid
  <2>1. job \in Workloads /\ Procs = 1 .. Len(job)
    BY DEF TypeOK, Procs
  <2>. QED
    BY <1>1, <1>2, <2>1 DEF PidsGrow
<1>4. job[q[1]].pid \in Int /\ job[p].pid \in Int
  <2>1. job[q[1]] \in Lines /\ job[p] \in Lines /\ UINT \in Nat
    BY <1>2, JobType, SchedulerAssumption
  <2>. QED
    BY <2>1, LineType
<1>5. PICK k \in 1 .. Len(q) + 1 :
        /\ InsertByPid(q, p) = InsertAt(q, k, p)
        /\ k <= Len(q) => job[q[k]].pid >= job[p].pid
  BY InsertionPoint
<1>6. k # 1
  BY <1>2, <1>3, <1>4, <1>5
<1> DEFINE r == InsertAt(q, k, p)
<1>7. r \in Seq(Procs) /\ Len(r) = Len(q) + 1 /\ r[1] = q[1]
  <2>1. /\ r \in Seq(Procs) /\ Len(r) = Len(q) + 1
        /\ \A j \in 1 .. Len(q) + 1 :
             r[j] = IF j < k THEN q[j] ELSE IF j = k THEN p ELSE q[j - 1]
    BY <1>1, JoinAt
  <2>2. 1 \in 1 .. Len(q) + 1 /\ 1 < k
    BY <1>2, <1>6
  <2>. HIDE DEF r, q
  <2>. QED
    BY <2>1, <2>2
<1> HIDE DEF r
<1>8. r # <<>> /\ Head(r) = r[1]
  BY <1>2, <1>7
<1>. QED
  BY <1>2, <1>5, <1>7, <1>8 DEF r

(* A process that is put back leaves the processor to one of higher        *)
(* priority, when the pids grow with the lines.                            *)
THEOREM PreemptedByHigher == PidsGrow => (Spec => GivesWayToHigher)
<1> SUFFICES ASSUME PidsGrow PROVE Spec => GivesWayToHigher
  OBVIOUS
<1> DEFINE Gives == TYPE = "EP" => \A p \in Procs :
             state[p] = "RUNNING" /\ state'[p] = "READY" =>
               ready_queue' # <<>> /\ priority(Head(ready_queue')) < priority(p)
<1>1. IInv /\ [NextSimulator]_vars => [Gives]_vars
  <2> SUFFICES ASSUME IInv, NextSimulator, TYPE = "EP", NEW p \in Procs,
                      state[p] = "RUNNING", state'[p] = "READY"
               PROVE  ready_queue' # <<>> /\ priority(Head(ready_queue')) < priority(p)
    OBVIOUS
  <2>1. NextPriority /\ TypeOK /\ OnePlace
    BY DEF NextSimulator, IInv
  <2>2. state \in [Procs -> ProcessStates] /\ state' # state
    BY <2>1 DEF TypeOK
  <2>3. ASSUME NEW x \in Procs, NEW s, state' = [state EXCEPT ![x] = s]
        PROVE  x = p /\ s = "READY"
    BY <2>2, <2>3
  <2>4. CASE \E x \in Procs : Admit(x, InsertByPid(ready_queue, x))
    <3>1. PICK x \in Procs : Admit(x, InsertByPid(ready_queue, x))
      BY <2>4
    <3>2. state[x] = "NEW" /\ state' = [state EXCEPT ![x] = "READY"]
      BY <3>1, AdmitMoves DEF Joined, Admit
    <3>. QED
      BY <2>3, <3>2
  <2>5. CASE Arrivals
    BY <2>2, <2>5 DEF Arrivals, find_memory_partition, PassOver, LookAt, ArrivalsDone
  <2>6. CASE Wake
    <3>1. /\ blocked_queue[i] \in Procs /\ state[blocked_queue[i]] = "WAITING"
          /\ state' = [state EXCEPT ![blocked_queue[i]] = "READY"]
      BY <2>6, WakeMoves DEF Wake
    <3>. QED
      BY <2>3, <3>1
  <2>7. CASE StillBlocked \/ IODone("select") \/ NoDispatch("execute")
    BY <2>2, <2>7 DEF StillBlocked, IODone, NoDispatch
  <2>8. CASE Dispatch("execute")
    <3>1. /\ Head(ready_queue) \in Procs
          /\ state' = [state EXCEPT ![Head(ready_queue)] = "RUNNING"]
      BY <2>8, DispatchMoves DEF Dispatch
    <3>. QED
      BY <2>3, <3>1
  <2>9. ASSUME NEW x \in Procs, Block(x, "advance") PROVE FALSE
    BY <2>3, <2>9 DEF Block
  <2>10. ASSUME NEW x \in Procs, Complete(x, "advance") PROVE FALSE
    BY <2>3, <2>10 DEF Complete
  <2>11. ASSUME NEW x \in Procs, RunOrGiveWay(x)
         PROVE  ready_queue' # <<>> /\ priority(Head(ready_queue')) < priority(p)
    <3>1. CASE HeadGoesFirst(x) /\ Preempt(x, InsertByPid(ready_queue, x), "advance")
      <4>1. /\ state' = [state EXCEPT ![x] = "READY"]
            /\ ready_queue' = InsertByPid(ready_queue, x)
        BY <3>1 DEF Preempt
      <4>2. x = p
        BY <2>3, <4>1
      <4>3. ready_queue' # <<>> /\ Head(ready_queue') = Head(ready_queue)
        BY <2>1, <3>1, <4>1, StaysBehindHead
      <4>4. priority(Head(ready_queue)) < priority(p)
        BY <3>1, <4>2 DEF HeadGoesFirst
      <4>. QED
        BY <4>3, <4>4
    <3>2. ~KeepRunning(x, "advance")
      BY <2>2 DEF KeepRunning
    <3>. QED
      BY <2>11, <3>1, <3>2 DEF RunOrGiveWay
  <2>12. ASSUME NEW x \in Procs PROVE ~Crash(x)
    BY <2>2 DEF Crash
  <2>13. CASE Idle("advance") \/ Advance \/ Terminated \/ Crashed
    BY <2>2, <2>13 DEF Idle, Advance, Terminated, Crashed, svars
  <2>. QED
    BY <2>1, <2>4, <2>5, <2>6, <2>7, <2>8, <2>9, <2>10, <2>11, <2>12, <2>13 DEF NextPriority
<1>. QED
  BY <1>1, Inductive, PTL DEF Spec, GivesWayToHigher

=============================================================================
