----------------------------- MODULE Interrupts -----------------------------
(***************************************************************************)
(* Assignment1/Part2/interrupts.cpp: the trace and the vector table are    *)
(* read line by line; then each activity of the trace is simulated, one    *)
(* step per line of the log, whose texts are left out.  A context switch   *)
(* takes a random time.  Sums stay far from the limits of an int.          *)
(***************************************************************************)
EXTENDS Integers, Sequences, FiniteSets

CONSTANTS
  Inputs,      \* the command lines considered, with the files they name
  AnyAddress   \* what may be read as the ISR address past the vector table

(* Lines of a trace.  "OTHER" is passed over, "GARBLED" is a SYSCALL or an *)
(* END_IO whose number does not parse; a line whose duration does not      *)
(* parse is "UNREADABLE".                                                  *)
Activities ==
  [type : {"CPU", "OTHER", "GARBLED"}, duration : Int] \cup
  [type : {"SYSCALL", "END_IO"}, number : Int, duration : Int]

Addresses == [isr_address : Int]
Unreadable == [type : {"UNREADABLE"}]

(* A command line: argc, the range of the context switch times, 1 to 3 if  *)
(* none is given, and the two files.  main does not compare the ends of    *)
(* the range, but uniform_int_distribution is undefined when the first is  *)
(* the larger: such a command line is left out.                            *)
Readable(cmd) ==
  /\ cmd.argc \in Nat
  /\ cmd.min_context_time \in Int /\ cmd.max_context_time \in Int
  /\ cmd.min_context_time <= cmd.max_context_time
  /\ cmd.argc = 4 => cmd.min_context_time = 1 /\ cmd.max_context_time = 3
  /\ cmd.trace_file \in Seq(Activities \cup Unreadable)
  /\ cmd.vector_file \in Seq(Addresses \cup Unreadable)

ASSUME InterruptsAssumption ==
  /\ AnyAddress \subseteq Int
  /\ \A cmd \in Inputs : Readable(cmd)

VARIABLES
  input,
  trace,              \* the activities read,
  vectorTable,        \* the vectors read,
  i,                  \* and the line read next
  pc,
  n,                  \* the activity at hand
  currentTime,
  isr_address,        \* the address loaded last, 0 for none
  syscallStartTime,   \* locals of an interrupt
  contextSwitchTime,
  metrics,            \* PerformanceMetrics: the times and the counts,
  ioResponseTimes,    \* and the two collections
  syscallStartTimes

reading == <<input, trace, vectorTable, i>>
locals == <<syscallStartTime, contextSwitchTime>>
responses == <<ioResponseTimes, syscallStartTimes>>
simulation == <<currentTime, isr_address, locals, metrics, responses>>
vars == <<reading, pc, n, simulation>>

Metrics ==
  {"totalExecutionTime", "totalContextSwitches", "totalISRExecutions",
   "timeSpentOnVectorTableLookups", "timeSpentInInterruptHandling",
   "timeSpentInCPUOperations", "timeSpentInIOOperations", "totalContextSwitchTime",
   "totalSyscallTime", "totalISRExecutionTime"}

Init ==
  /\ input \in Inputs
  /\ trace = <<>> /\ vectorTable = <<>> /\ i = 1
  /\ pc = "main" /\ n = 1
  /\ currentTime = 0 /\ isr_address = 0
  /\ syscallStartTime = 0 /\ contextSwitchTime = 0
  /\ metrics = [m \in Metrics |-> 0]
  /\ ioResponseTimes = <<>>
  /\ syscallStartTimes = [number \in {} |-> 0]

-----------------------------------------------------------------------------
(***************************************************************************)
(* main, readTrace and readVectorTable.  A file may fail to open, and a    *)
(* number on the command line to parse: main ends with an error.           *)
(***************************************************************************)
Start ==
  /\ pc = "main"
  /\ pc' = IF input.argc \in 4 .. 6 THEN "trace" ELSE "error"
  /\ UNCHANGED <<reading, n, simulation>>

TraceNotOpened == pc = "trace" /\ i = 1
VectorsNotOpened == pc = "vectors" /\ i = 1
OutputNotOpened == pc = "output"

Fail ==
  /\ TraceNotOpened \/ VectorsNotOpened \/ OutputNotOpened
  /\ pc' = "error"
  /\ UNCHANGED <<reading, n, simulation>>

readTrace ==
  /\ pc = "trace" /\ i <= Len(input.trace_file)
  /\ \/ /\ input.trace_file[i] \in Activities
        /\ trace' = Append(trace, input.trace_file[i])
     \/ input.trace_file[i] \in Unreadable /\ UNCHANGED trace
  /\ i' = i + 1
  /\ UNCHANGED <<input, vectorTable, pc, n, simulation>>

readTraceDone ==
  /\ pc = "trace" /\ i > Len(input.trace_file)
  /\ pc' = "vectors" /\ i' = 1
  /\ UNCHANGED <<input, trace, vectorTable, n, simulation>>

(* The number of a vector is the number of vectors before it; a line that  *)
(* is no number has none.                                                  *)
readVectorTable ==
  /\ pc = "vectors" /\ i <= Len(input.vector_file)
  /\ \/ /\ input.vector_file[i] \in Addresses
        /\ vectorTable' = Append(vectorTable, input.vector_file[i].isr_address)
     \/ input.vector_file[i] \in Unreadable /\ UNCHANGED vectorTable
  /\ i' = i + 1
  /\ UNCHANGED <<input, trace, pc, n, simulation>>

readVectorTableDone ==
  /\ pc = "vectors" /\ i > Len(input.vector_file)
  /\ pc' = IF input.argc = 5 THEN "error" ELSE "output"
  /\ UNCHANGED <<reading, n, simulation>>

OpenOutput ==
  /\ pc = "output"
  /\ pc' = "next"
  /\ UNCHANGED <<reading, n, simulation>>

-----------------------------------------------------------------------------
(***************************************************************************)
(* simulateInterrupts: the loop over the activities.                       *)
(***************************************************************************)
activity == trace[n]
AtActivity(type) == pc = "next" /\ n <= Len(trace) /\ activity.type = type

contextDist == input.min_context_time .. input.max_context_time

(* The clock moves on, and `added` is added to the metrics.                *)
Spend(duration, added) ==
  /\ currentTime' = currentTime + duration
  /\ metrics' = [m \in Metrics |->
                   IF m \in DOMAIN added THEN metrics[m] + added[m] ELSE metrics[m]]

(* An inner step of an interrupt.                                          *)
Step(from, to) ==
  /\ pc = from /\ pc' = to
  /\ UNCHANGED <<reading, n, isr_address, locals, responses>>

CPU ==
  /\ AtActivity("CPU")
  /\ Spend(activity.duration,
           [totalExecutionTime |-> activity.duration,
            timeSpentInCPUOperations |-> activity.duration])
  /\ n' = n + 1
  /\ UNCHANGED <<reading, pc, isr_address, locals, responses>>

(* Mutant: the line after the loop's own increment is taken.               *)
PassOverTwice ==
  /\ AtActivity("OTHER")
  /\ n' = n + 2
  /\ UNCHANGED <<reading, pc, simulation>>

(* Mutant: the loop stays at a line it does not know.                      *)
PassOverNever ==
  /\ AtActivity("OTHER")
  /\ UNCHANGED <<reading, pc, n, simulation>>

PassOver ==
  /\ AtActivity("OTHER")
  /\ n' = n + 1
  /\ UNCHANGED <<reading, pc, simulation>>

(* stoi throws, and main catches it.                                       *)
Throw ==
  /\ AtActivity("GARBLED")
  /\ pc' = "error"
  /\ UNCHANGED <<reading, n, simulation>>

(* The checks of an END_IO are added to the total with the switch.         *)
CheckPriority ==
  /\ AtActivity("END_IO")
  /\ Step("next", "mask")
  /\ Spend(1, <<>>)

CheckMask ==
  /\ Step("mask", "switch")
  /\ Spend(1, <<>>)

SwitchToKernel(checks) ==
  /\ \E time \in contextDist :
       /\ Spend(time,
              [totalContextSwitches |-> 1,
               totalExecutionTime |-> time + checks,
               totalContextSwitchTime |-> time])
       /\ contextSwitchTime' = time
  /\ pc' = "find"
  /\ UNCHANGED <<reading, n, isr_address, responses>>

EnterSyscall ==
  /\ AtActivity("SYSCALL")
  /\ syscallStartTime' = currentTime
  /\ SwitchToKernel(0)

(* Mutant: the checks before the switch are not added.                     *)
EnterEndIOUnchecked ==
  /\ pc = "switch"
  /\ SwitchToKernel(0)
  /\ UNCHANGED syscallStartTime

EnterEndIO ==
  /\ pc = "switch"
  /\ SwitchToKernel(2)
  /\ UNCHANGED syscallStartTime

FindVector ==
  /\ Step("find", "load")
  /\ Spend(1, [timeSpentOnVectorTableLookups |-> 1, totalExecutionTime |-> 1])

Listed(number) == number \in 0 .. Len(vectorTable) - 1

(* Mutant: the vectors are counted from 1.                                 *)
ISRAddressFrom1(number) ==
  IF number \in 1 .. Len(vectorTable) THEN {vectorTable[number]} ELSE AnyAddress

(* vectorTable[number], with no check of its range.                        *)
ISRAddress(number) ==
  IF Listed(number) THEN {vectorTable[number + 1]} ELSE AnyAddress

LoadAddress ==
  /\ pc = "load"
  /\ isr_address' \in ISRAddress(activity.number)
  /\ Spend(1, [totalISRExecutions |-> 1, totalExecutionTime |-> 1])
  /\ pc' = IF activity.type = "SYSCALL" THEN "run" ELSE "end_io"
  /\ UNCHANGED <<reading, n, locals, responses>>

Crash ==
  /\ pc = "load" /\ ~Listed(activity.number)
  /\ pc' = "crashed"
  /\ UNCHANGED <<reading, n, simulation>>

(* Mutant: up, away from zero.                                             *)
QuotientUp(a, b) == -((-a) \div b)

(* Division of int: toward zero.                                           *)
Quotient(a, b) == IF a >= 0 THEN a \div b ELSE -((-a) \div b)

totalIsrTime == activity.duration - 2 - contextSwitchTime
runIsrTime == Quotient(totalIsrTime * 2, 5)
transferDataTime == Quotient(totalIsrTime * 2, 5)

(* Mutant: a fifth, whatever the rounding of the other two parts has left. *)
checkErrorsFifth == Quotient(totalIsrTime, 5)

checkErrorsTime == totalIsrTime - runIsrTime - transferDataTime

RunISR ==
  /\ Step("run", "transfer")
  /\ Spend(runIsrTime,
         [timeSpentInInterruptHandling |-> runIsrTime, totalExecutionTime |-> runIsrTime])

TransferData ==
  /\ Step("transfer", "check")
  /\ Spend(transferDataTime,
         [timeSpentInIOOperations |-> transferDataTime, totalExecutionTime |-> transferDataTime])

CheckErrors ==
  /\ Step("check", "iret")
  /\ Spend(checkErrorsTime,
         [timeSpentInInterruptHandling |-> checkErrorsTime, totalExecutionTime |-> checkErrorsTime])

ioHandlingTime == activity.duration - 4 - contextSwitchTime

HandleEndIO ==
  /\ Step("end_io", "end_iret")
  /\ Spend(ioHandlingTime,
         [timeSpentInInterruptHandling |-> ioHandlingTime, totalExecutionTime |-> ioHandlingTime,
          totalISRExecutionTime |-> ioHandlingTime])

ToNextActivity ==
  /\ pc' = "next" /\ n' = n + 1
  /\ UNCHANGED <<reading, isr_address, locals>>

(* Mutant: response times count from the start of the SYSCALL.             *)
ReturnFromSyscallEarly(iretTime) ==
  /\ pc = "iret"
  /\ Spend(iretTime,
           [totalExecutionTime |-> iretTime, totalContextSwitchTime |-> iretTime,
            totalSyscallTime |-> currentTime + iretTime - syscallStartTime,
            totalISRExecutionTime |-> totalIsrTime])
  /\ syscallStartTimes' =
       [m \in DOMAIN syscallStartTimes \cup {activity.number} |->
          IF m = activity.number THEN syscallStartTime ELSE syscallStartTimes[m]]
  /\ ToNextActivity
  /\ UNCHANGED ioResponseTimes

(* Response times count from the end of the SYSCALL.                       *)
ReturnFromSyscall(iretTime) ==
  /\ pc = "iret"
  /\ Spend(iretTime,
         [totalExecutionTime |-> iretTime, totalContextSwitchTime |-> iretTime,
          totalSyscallTime |-> currentTime + iretTime - syscallStartTime,
          totalISRExecutionTime |-> totalIsrTime])
  /\ syscallStartTimes' =
       [m \in DOMAIN syscallStartTimes \cup {activity.number} |->
          IF m = activity.number THEN currentTime' ELSE syscallStartTimes[m]]
  /\ ToNextActivity
  /\ UNCHANGED ioResponseTimes

Open(number) == number \in DOMAIN syscallStartTimes

(* Mutant: the SYSCALL stays open.                                         *)
AnswerAndKeep(number) ==
  /\ Open(number)
  /\ ioResponseTimes' = Append(ioResponseTimes, currentTime' - syscallStartTimes[number])
  /\ UNCHANGED syscallStartTimes

Answer(number) ==
  /\ Open(number)
  /\ ioResponseTimes' = Append(ioResponseTimes, currentTime' - syscallStartTimes[number])
  /\ syscallStartTimes' =
       [m \in DOMAIN syscallStartTimes \ {number} |-> syscallStartTimes[m]]

ReturnFromEndIO(iretTime) ==
  /\ pc = "end_iret"
  /\ Spend(iretTime,
         [totalExecutionTime |-> iretTime, totalContextSwitchTime |-> iretTime])
  /\ \/ Answer(activity.number)
     \/ ~Open(activity.number) /\ UNCHANGED responses
  /\ ToNextActivity

(* The metrics are written to the file, and nothing changes any more.      *)
WriteMetrics ==
  /\ pc = "next" /\ n > Len(trace)
  /\ pc' = "done"
  /\ UNCHANGED <<reading, n, simulation>>

Terminated == pc \in {"done", "error", "crashed"} /\ UNCHANGED vars

Next ==
  \/ Start \/ Fail
  \/ readTrace \/ readTraceDone \/ readVectorTable \/ readVectorTableDone \/ OpenOutput
  \/ CPU \/ PassOver \/ Throw
  \/ CheckPriority \/ CheckMask
  \/ EnterSyscall \/ EnterEndIO \/ FindVector \/ LoadAddress \/ Crash
  \/ RunISR \/ TransferData \/ CheckErrors \/ HandleEndIO
  \/ \E iretTime \in contextDist :
       ReturnFromSyscall(iretTime) \/ ReturnFromEndIO(iretTime)
  \/ WriteMetrics
  \/ Terminated

Spec == Init /\ [][Next]_vars /\ WF_vars(Next)

-----------------------------------------------------------------------------
(***************************************************************************)
(* Properties.                                                             *)
(***************************************************************************)
(* Every variable has its type.                                            *)
TypeOK ==
  /\ Readable(input)
  /\ trace \in Seq(Activities)
  /\ vectorTable \in Seq(Int)
  /\ i \in Nat \ {0}
  /\ pc \in {"main", "trace", "vectors", "output", "next", "mask", "switch", "find", "load",
             "run", "transfer", "check", "iret", "end_io", "end_iret",
             "done", "error", "crashed"}
  /\ n \in 1 .. Len(trace) + 1
  /\ currentTime \in Int
  /\ isr_address \in Int
  /\ syscallStartTime \in Int
  /\ contextSwitchTime \in Int
  /\ metrics \in [Metrics -> Int]
  /\ ioResponseTimes \in Seq(Int)
  /\ DOMAIN syscallStartTimes \subseteq Int
  /\ syscallStartTimes \in [DOMAIN syscallStartTimes -> Int]

IsEndIO(k) == trace[k].type = "END_IO"
IsInterrupt(k) == trace[k].type \in {"SYSCALL", "END_IO"}
Before(k) == 1 .. k - 1

(* Before an activity, at the end and after a throw.                       *)
Between == pc \in {"next", "done", "error"}

(* The printed totals agree with one another and with the clock: the total *)
(* is the clock, its parts add up to it but for the two checks of each     *)
(* END_IO, and there is one switch, one look-up and one ISR per interrupt. *)
MetricsAddUp ==
  Between =>
    /\ metrics.totalExecutionTime = currentTime
    /\ metrics.totalExecutionTime =
         metrics.timeSpentInCPUOperations + metrics.timeSpentInIOOperations
         + metrics.timeSpentInInterruptHandling + metrics.totalContextSwitchTime
         + metrics.timeSpentOnVectorTableLookups + metrics.totalISRExecutions
         + 2 * Cardinality({k \in Before(n) : IsEndIO(k)})
    /\ metrics.totalISRExecutionTime =
         metrics.timeSpentInInterruptHandling + metrics.timeSpentInIOOperations
    /\ metrics.totalContextSwitches = Cardinality({k \in Before(n) : IsInterrupt(k)})
    /\ metrics.totalISRExecutions = metrics.totalContextSwitches
    /\ metrics.timeSpentOnVectorTableLookups = metrics.totalContextSwitches

(* Activity j is a SYSCALL, and no later one before k is an interrupt of   *)
(* its number: an END_IO would have answered it, a SYSCALL replaced it.    *)
OpenUntil(j, k) ==
  /\ trace[j].type = "SYSCALL"
  /\ \A l \in j + 1 .. k - 1 : IsInterrupt(l) => trace[l].number # trace[j].number

Answers(k, j) == IsEndIO(k) /\ OpenUntil(j, k) /\ trace[j].number = trace[k].number

Answered == {k \in Before(n) : \E j \in Before(k) : Answers(k, j)}

(* Each END_IO of a number answers one SYSCALL of that number: of two      *)
(* SYSCALLs the later one, and of two END_IOs only the first counts.       *)
ResponsesMatched ==
  Between =>
    /\ DOMAIN syscallStartTimes = {trace[j].number : j \in {j \in Before(n) : OpenUntil(j, n)}}
    /\ Len(ioResponseTimes) = Cardinality(Answered)

(* The time of activity k, but for the return from an interrupt.           *)
timeOf(k) == IF IsInterrupt(k) \/ trace[k].type = "CPU" THEN trace[k].duration ELSE 0

timeUpTo[k \in 0 .. Len(trace)] == IF k = 0 THEN 0 ELSE timeUpTo[k - 1] + timeOf(k)

(* The times that the activities after the j-th and up to the k-th may     *)
(* take together: their durations, and the return from each interrupt,     *)
(* which is not part of its duration.                                      *)
Takes(j, k) ==
  LET durations == timeUpTo[k] - timeUpTo[j]
      returns == Cardinality({l \in j + 1 .. k : IsInterrupt(l)})
  IN  durations + returns * input.min_context_time
      .. durations + returns * input.max_context_time

(* The activities take their durations together, whatever the random       *)
(* switches and the rounding of the parts of an ISR, and only the returns  *)
(* are on top of that.                                                     *)
TimeBounded == Between => currentTime \in Takes(0, n - 1)

(* The response times are, in the order of the END_IOs that answer a       *)
(* SYSCALL, what the activities after that SYSCALL take up to and with the *)
(* END_IO.                                                                 *)
ResponsesBounded ==
  Between =>
    \A k \in Answered : \A j \in Before(k) :
      Answers(k, j) =>
        ioResponseTimes[Cardinality({l \in Answered : l <= k})] \in Takes(j, k)

(* The ISR of vector m is the one on line m of the file, counted from 0,   *)
(* when every line up to it is an address.                                 *)
LoadsListedVector ==
  pc \in {"run", "end_io"} =>
    LET line == activity.number + 1
    IN  /\ line \in 1 .. Len(input.vector_file)
        /\ \A k \in 1 .. line : input.vector_file[k] \in Addresses
        => isr_address = input.vector_file[line].isr_address

(* Every activity is as long as its fixed steps at least.                  *)
LongEnough ==
  /\ input.min_context_time >= 0
  /\ \A k \in DOMAIN trace :
       /\ trace[k].type = "CPU" => trace[k].duration >= 0
       /\ trace[k].type = "SYSCALL" => trace[k].duration >= 2 + input.max_context_time
       /\ trace[k].type = "END_IO" => trace[k].duration >= 4 + input.max_context_time

(* The clock never goes back, unless an activity is shorter than the fixed *)
(* steps it is made of.                                                    *)
ClockForward ==
  [][LongEnough => currentTime' >= currentTime]_vars

(* The program ends: with the metrics, an error message or a crash.        *)
Ends == <>(pc \in {"done", "error", "crashed"})

=============================================================================
