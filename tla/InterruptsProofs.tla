-------------------------- MODULE InterruptsProofs --------------------------
(***************************************************************************)
(* Whatever the trace, the vector table, the random times of the context   *)
(* switches and the addresses read past the table: the totals that         *)
(* interrupts.cpp prints agree, response times belong to the right         *)
(* SYSCALLs, the activities and the response times take the time they      *)
(* should, and the clock goes forward.                                     *)
(***************************************************************************)
EXTENDS Interrupts, QueueTheorems, FiniteSetTheorems

-----------------------------------------------------------------------------
(* The lines of the trace.                                                 *)
LEMMA ActivityType ==
  ASSUME NEW a \in Activities
  PROVE  /\ a.type \in {"CPU", "OTHER", "GARBLED", "SYSCALL", "END_IO"}
         /\ a.duration \in Int
         /\ a.type \in {"SYSCALL", "END_IO"} => a.number \in Int
<1>1. CASE a \in [type : {"CPU", "OTHER", "GARBLED"}, duration : Int]
  BY <1>1
<1>2. CASE a \in [type : {"SYSCALL", "END_IO"}, number : Int, duration : Int]
  BY <1>2
<1>. QED
  BY <1>1, <1>2 DEF Activities

LEMMA TraceType ==
  ASSUME TypeOK
  PROVE  /\ Len(trace) \in Nat
         /\ \A k \in 1 .. Len(trace) : trace[k] \in Activities
  BY LenProperties, ElementOfSeq DEF TypeOK

LEMMA TimeType == ASSUME TypeOK PROVE contextDist \subseteq Int
  BY DEF TypeOK, Readable, contextDist

LEMMA QuotientType == ASSUME NEW a \in Int PROVE Quotient(a, 5) \in Int
  BY DEF Quotient

(* What a step adds to the metrics keeps them integers.                    *)
LEMMA SpendType ==
  ASSUME TypeOK, NEW duration \in Int, NEW added, Spend(duration, added),
         \A m \in DOMAIN added : added[m] \in Int
  PROVE  currentTime' \in Int /\ metrics' \in [Metrics -> Int]
<1>1. currentTime' \in Int
  BY DEF TypeOK, Spend
<1>2. \A m \in Metrics :
        (IF m \in DOMAIN added THEN metrics[m] + added[m] ELSE metrics[m]) \in Int
  BY DEF TypeOK
<1>3. metrics' \in [Metrics -> Int]
  BY <1>2 DEF Spend
<1>. QED
  BY <1>1, <1>3

-----------------------------------------------------------------------------
(***************************************************************************)
(* Where the program is: the kind of the activity at hand goes with pc.    *)
(***************************************************************************)
Reading == {"main", "trace", "vectors", "output"}
InSyscall == {"run", "transfer", "check", "iret"}
InEndIO == {"mask", "switch", "end_io", "end_iret"}
InEither == {"find", "load", "crashed"}

Where ==
  /\ pc \in Reading => n = 1
  /\ pc \in InSyscall \cup InEndIO \cup InEither => n <= Len(trace)
  /\ pc \in InSyscall => trace[n].type = "SYSCALL"
  /\ pc \in InEndIO => trace[n].type = "END_IO"
  /\ pc \in InEither => IsInterrupt(n)

(* The time of the switch into the kernel is in the range asked for.       *)
Switched ==
  pc \in {"find", "load", "end_io"} \cup InSyscall => contextSwitchTime \in contextDist

(* The steps, by the part of the program they are in.                      *)
ReadStep ==
  \/ Start \/ Fail
  \/ readTrace \/ readTraceDone \/ readVectorTable \/ readVectorTableDone \/ OpenOutput

PlainStep == PassOver \/ Throw \/ Crash \/ WriteMetrics \/ UNCHANGED vars

EnterStep == CheckPriority \/ CheckMask \/ EnterSyscall \/ EnterEndIO \/ FindVector \/ LoadAddress

HandleStep == RunISR \/ TransferData \/ CheckErrors \/ HandleEndIO

ReturnStep == \E iretTime \in contextDist : ReturnFromSyscall(iretTime) \/ ReturnFromEndIO(iretTime)

LEMMA Steps ==
  ASSUME [Next]_vars
  PROVE  ReadStep \/ PlainStep \/ CPU \/ EnterStep \/ HandleStep \/ ReturnStep
  BY DEF Next, Terminated, ReadStep, PlainStep, EnterStep, HandleStep, ReturnStep

-----------------------------------------------------------------------------
(* Types.                                                                  *)
LEMMA InitType == Init => TypeOK
<1> SUFFICES ASSUME Init PROVE TypeOK
  OBVIOUS
<1>1. Readable(input)
  BY InterruptsAssumption DEF Init
<1>2. trace \in Seq(Activities) /\ vectorTable \in Seq(Int) /\ ioResponseTimes \in Seq(Int)
      /\ n \in 1 .. Len(trace) + 1
  BY EmptySeq DEF Init
<1>3. metrics \in [Metrics -> Int]
  BY DEF Init
<1>4. DOMAIN syscallStartTimes = {} /\ syscallStartTimes \in [{} -> Int]
  BY DEF Init
<1>. QED
  BY <1>1, <1>2, <1>3, <1>4 DEF Init, TypeOK

LEMMA ReadType == ASSUME TypeOK, ReadStep PROVE TypeOK'
<1>1. UNCHANGED <<input, n, simulation>>
  BY DEF ReadStep, Start, Fail, readTrace, readTraceDone, readVectorTable,
         readVectorTableDone, OpenOutput, reading
<1>2. pc' \in {"trace", "vectors", "output", "next", "error"}
  BY DEF ReadStep, Start, Fail, readTrace, readTraceDone, readVectorTable,
         readVectorTableDone, OpenOutput
<1>3. i' \in Nat \ {0}
  <2>1. i' \in {i, i + 1, 1}
    BY DEF ReadStep, Start, Fail, readTrace, readTraceDone, readVectorTable,
           readVectorTableDone, OpenOutput, reading
  <2>. QED
    BY <2>1 DEF TypeOK
<1>4. trace' \in Seq(Activities) /\ Len(trace') \in Nat /\ Len(trace') >= Len(trace)
  <2>1. CASE trace' = trace
    BY <2>1, LenProperties DEF TypeOK
  <2>2. CASE readTrace /\ trace' # trace
    <3>1. PICK a \in Activities : trace' = Append(trace, a)
      BY <2>2 DEF readTrace
    <3>. QED
      BY <3>1, AppendProperties, LenProperties DEF TypeOK
  <2>. QED
    BY <2>1, <2>2 DEF ReadStep, Start, Fail, readTraceDone, readVectorTable,
         readVectorTableDone, OpenOutput, reading
<1>5. vectorTable' \in Seq(Int)
  <2>1. CASE vectorTable' = vectorTable
    BY <2>1 DEF TypeOK
  <2>2. CASE readVectorTable /\ vectorTable' # vectorTable
    <3>1. vectorTable' = Append(vectorTable, input.vector_file[i].isr_address)
          /\ input.vector_file[i].isr_address \in Int
      BY <2>2 DEF readVectorTable, Addresses
    <3>. QED
      BY <3>1, AppendProperties DEF TypeOK
  <2>. QED
    BY <2>1, <2>2 DEF ReadStep, Start, Fail, readTrace, readTraceDone,
         readVectorTableDone, OpenOutput, reading
<1>6. n' \in 1 .. Len(trace') + 1
  BY <1>1, <1>4, TraceType DEF TypeOK
<1>. QED
  BY <1>1, <1>2, <1>3, <1>4, <1>5, <1>6 DEF TypeOK, simulation, locals, responses

LEMMA PlainType == ASSUME TypeOK, PlainStep PROVE TypeOK'
<1>1. UNCHANGED <<reading, simulation>>
  BY DEF PlainStep, PassOver, Throw, Crash, WriteMetrics, vars
<1>2. pc' \in {"next", "error", "crashed", "done", pc}
  BY DEF PlainStep, PassOver, Throw, Crash, WriteMetrics, vars
<1>3. n' \in 1 .. Len(trace) + 1
  <2>1. Len(trace) \in Nat
    BY TraceType
  <2>. QED
    BY <2>1 DEF PlainStep, PassOver, AtActivity, Throw, Crash, WriteMetrics, vars, TypeOK
<1>. QED
  BY <1>1, <1>2, <1>3 DEF TypeOK, reading, simulation, locals, responses

(* The activity at hand.                                                   *)
LEMMA AtHand ==
  ASSUME TypeOK, n <= Len(trace)
  PROVE  /\ n \in 1 .. Len(trace) /\ n + 1 \in 1 .. Len(trace) + 1
         /\ activity.type \in {"CPU", "OTHER", "GARBLED", "SYSCALL", "END_IO"}
         /\ activity.duration \in Int
         /\ activity.type \in {"SYSCALL", "END_IO"} => activity.number \in Int
<1>1. Len(trace) \in Nat /\ n \in 1 .. Len(trace) /\ n + 1 \in 1 .. Len(trace) + 1
  BY TraceType DEF TypeOK
<1>2. activity \in Activities
  BY <1>1, TraceType DEF activity
<1>. QED
  BY <1>1, <1>2, ActivityType

LEMMA CPUType == ASSUME TypeOK, CPU PROVE TypeOK'
<1>1. n <= Len(trace) /\ n' = n + 1
  BY DEF CPU, AtActivity
<1>2. activity.duration \in Int /\ n' \in 1 .. Len(trace) + 1
  BY <1>1, AtHand
<1>3. currentTime' \in Int /\ metrics' \in [Metrics -> Int]
  BY <1>2, SpendType DEF CPU
<1>. QED
  BY <1>2, <1>3 DEF CPU, TypeOK, reading, locals, responses

LEMMA EnterType == ASSUME TypeOK, Where, EnterStep PROVE TypeOK'
<1>1. UNCHANGED <<reading, n, responses>>
  BY DEF EnterStep, CheckPriority, CheckMask, EnterSyscall, EnterEndIO, SwitchToKernel,
         FindVector, LoadAddress, Step
<1>2. pc' \in {"mask", "switch", "find", "load", "run", "end_io"}
  BY DEF EnterStep, CheckPriority, CheckMask, EnterSyscall, EnterEndIO, SwitchToKernel,
         FindVector, LoadAddress, Step
<1>3. ASSUME NEW checks \in Int, SwitchToKernel(checks)
      PROVE  /\ currentTime' \in Int /\ metrics' \in [Metrics -> Int]
             /\ contextSwitchTime' \in Int /\ isr_address' \in Int
  <2>1. PICK time \in contextDist :
          /\ Spend(time,
                   [totalContextSwitches |-> 1,
                    totalExecutionTime |-> time + checks,
                    totalContextSwitchTime |-> time])
          /\ contextSwitchTime' = time
    BY <1>3 DEF SwitchToKernel
  <2>2. time \in Int
    BY TimeType
  <2>3. currentTime' \in Int /\ metrics' \in [Metrics -> Int]
    BY <2>1, <2>2, SpendType
  <2>. QED
    BY <1>3, <2>1, <2>2, <2>3 DEF SwitchToKernel, TypeOK
<1>4. CASE CheckPriority \/ CheckMask \/ FindVector
  <2>1. /\ \/ Spend(1, <<>>)
           \/ Spend(1, [timeSpentOnVectorTableLookups |-> 1, totalExecutionTime |-> 1])
        /\ UNCHANGED <<isr_address, locals>>
    BY <1>4 DEF CheckPriority, CheckMask, FindVector, Step
  <2>2. currentTime' \in Int /\ metrics' \in [Metrics -> Int]
    BY <2>1, SpendType
  <2>. QED
    BY <1>1, <1>2, <2>1, <2>2 DEF TypeOK, reading, locals, responses
<1>5. CASE EnterSyscall
  <2>1. SwitchToKernel(0) /\ syscallStartTime' = currentTime
    BY <1>5 DEF EnterSyscall
  <2>. QED
    BY <1>1, <1>2, <1>3, <2>1 DEF TypeOK, reading, responses
<1>6. CASE EnterEndIO
  <2>1. SwitchToKernel(2) /\ syscallStartTime' = syscallStartTime
    BY <1>6 DEF EnterEndIO
  <2>. QED
    BY <1>1, <1>2, <1>3, <2>1 DEF TypeOK, reading, responses
<1>7. CASE LoadAddress
  <2>1. /\ isr_address' \in ISRAddress(activity.number) /\ UNCHANGED locals
        /\ Spend(1, [totalISRExecutions |-> 1, totalExecutionTime |-> 1])
        /\ pc = "load"
    BY <1>7 DEF LoadAddress
  <2>2. currentTime' \in Int /\ metrics' \in [Metrics -> Int]
    BY <2>1, SpendType
  <2>3. activity.number \in Int
    BY <2>1, AtHand DEF Where, InEither, IsInterrupt, activity
  <2>4. isr_address' \in Int
    <3>1. CASE Listed(activity.number)
      <4>1. vectorTable \in Seq(Int) /\ Len(vectorTable) \in Nat
        BY LenProperties DEF TypeOK
      <4>2. activity.number + 1 \in 1 .. Len(vectorTable)
        BY <2>3, <3>1, <4>1 DEF Listed
      <4>. QED
        BY <2>1, <3>1, <4>1, <4>2, ElementOfSeq DEF ISRAddress
    <3>2. CASE ~Listed(activity.number)
      BY <2>1, <3>2, InterruptsAssumption DEF ISRAddress
    <3>. QED
      BY <3>1, <3>2
  <2>. QED
    BY <1>1, <1>2, <2>1, <2>2, <2>4 DEF TypeOK, reading, locals, responses
<1>. QED
  BY <1>4, <1>5, <1>6, <1>7 DEF EnterStep

(* The parts of an ISR.                                                    *)
LEMMA PartsType ==
  ASSUME TypeOK, activity.duration \in Int
  PROVE  /\ totalIsrTime \in Int /\ runIsrTime \in Int /\ transferDataTime \in Int
         /\ checkErrorsTime \in Int /\ ioHandlingTime \in Int
<1>0. contextSwitchTime \in Int
  BY DEF TypeOK
<1>. HIDE DEF activity
<1>1. totalIsrTime \in Int /\ ioHandlingTime \in Int /\ totalIsrTime * 2 \in Int
  BY <1>0 DEF totalIsrTime, ioHandlingTime
<1>. HIDE DEF totalIsrTime
<1>2. runIsrTime \in Int /\ transferDataTime \in Int
  BY <1>1, QuotientType DEF runIsrTime, transferDataTime
<1>. QED
  BY <1>1, <1>2 DEF checkErrorsTime

LEMMA HandleType == ASSUME TypeOK, Where, HandleStep PROVE TypeOK'
<1>1. UNCHANGED <<reading, n, isr_address, locals, responses>>
  BY DEF HandleStep, RunISR, TransferData, CheckErrors, HandleEndIO, Step
<1>2. pc' \in {"transfer", "check", "iret", "end_iret"}
  BY DEF HandleStep, RunISR, TransferData, CheckErrors, HandleEndIO, Step
<1>3. pc \in InSyscall \cup InEndIO
  BY DEF HandleStep, RunISR, TransferData, CheckErrors, HandleEndIO, Step, InSyscall, InEndIO
<1>4. activity.duration \in Int
  BY <1>3, AtHand DEF Where
<1>5. /\ totalIsrTime \in Int /\ runIsrTime \in Int /\ transferDataTime \in Int
      /\ checkErrorsTime \in Int /\ ioHandlingTime \in Int
  BY <1>4, PartsType
<1>6. currentTime' \in Int /\ metrics' \in [Metrics -> Int]
  <2>1. CASE RunISR
    <3>. HIDE DEF runIsrTime
    <3>. QED
      BY <2>1, <1>5, SpendType DEF RunISR
  <2>2. CASE TransferData
    <3>. HIDE DEF transferDataTime
    <3>. QED
      BY <2>2, <1>5, SpendType DEF TransferData
  <2>3. CASE CheckErrors
    <3>. HIDE DEF checkErrorsTime
    <3>. QED
      BY <2>3, <1>5, SpendType DEF CheckErrors
  <2>4. CASE HandleEndIO
    <3>. HIDE DEF ioHandlingTime
    <3>. QED
      BY <2>4, <1>5, SpendType DEF HandleEndIO
  <2>. QED
    BY <2>1, <2>2, <2>3, <2>4 DEF HandleStep
<1>. QED
  BY <1>1, <1>2, <1>6 DEF TypeOK, reading, locals, responses

LEMMA ReturnType == ASSUME TypeOK, Where, ReturnStep PROVE TypeOK'
<1>1. PICK iretTime \in contextDist : ReturnFromSyscall(iretTime) \/ ReturnFromEndIO(iretTime)
  BY DEF ReturnStep
<1>2. iretTime \in Int /\ syscallStartTime \in Int /\ currentTime \in Int
  BY TimeType DEF TypeOK
<1>3. pc \in InSyscall \cup InEndIO
  BY <1>1 DEF ReturnFromSyscall, ReturnFromEndIO, InSyscall, InEndIO
<1>4. n <= Len(trace) /\ activity.type \in {"SYSCALL", "END_IO"}
  BY <1>3 DEF Where, activity
<1>5. activity.duration \in Int /\ activity.number \in Int /\ n + 1 \in 1 .. Len(trace) + 1
  BY <1>4, AtHand
<1>6. /\ pc' = "next" /\ n' = n + 1 /\ UNCHANGED <<reading, isr_address, locals>>
  BY <1>1 DEF ReturnFromSyscall, ReturnFromEndIO, ToNextActivity
<1>7. CASE ReturnFromSyscall(iretTime)
  <2>1. totalIsrTime \in Int
    BY <1>5, PartsType
  <2>. HIDE DEF totalIsrTime
  <2>2. currentTime' \in Int /\ metrics' \in [Metrics -> Int]
    BY <1>2, <1>7, <2>1, SpendType DEF ReturnFromSyscall
  <2>3. /\ DOMAIN syscallStartTimes' \subseteq Int
        /\ syscallStartTimes' \in [DOMAIN syscallStartTimes' -> Int]
    BY <1>5, <1>7, <2>2 DEF ReturnFromSyscall, TypeOK
  <2>. QED
    BY <1>5, <1>6, <1>7, <2>2, <2>3 DEF ReturnFromSyscall, TypeOK, reading, locals
<1>8. CASE ReturnFromEndIO(iretTime)
  <2>1. currentTime' \in Int /\ metrics' \in [Metrics -> Int]
    BY <1>2, <1>8, SpendType DEF ReturnFromEndIO
  <2>2. /\ ioResponseTimes' \in Seq(Int)
        /\ DOMAIN syscallStartTimes' \subseteq Int
        /\ syscallStartTimes' \in [DOMAIN syscallStartTimes' -> Int]
    <3>1. CASE Answer(activity.number)
      <4>1. syscallStartTimes[activity.number] \in Int
        BY <3>1 DEF Answer, Open, TypeOK
      <4>2. ioResponseTimes' \in Seq(Int)
        BY <3>1, <4>1, <2>1, AppendProperties DEF Answer, TypeOK
      <4> DEFINE D == DOMAIN syscallStartTimes \ {activity.number}
                 f == [m \in D |-> syscallStartTimes[m]]
      <4>3. D \subseteq Int /\ \A m \in D : syscallStartTimes[m] \in Int
        BY DEF TypeOK
      <4>4. syscallStartTimes' = f
        BY <3>1 DEF Answer
      <4>. HIDE DEF D
      <4>5. f \in [D -> Int] /\ DOMAIN f = D
        BY <4>3
      <4>. HIDE DEF f
      <4>. QED
        BY <4>2, <4>3, <4>4, <4>5
    <3>2. CASE UNCHANGED responses
      BY <3>2 DEF TypeOK, responses
    <3>. QED
      BY <1>8, <3>1, <3>2 DEF ReturnFromEndIO
  <2>. QED
    BY <1>5, <1>6, <2>1, <2>2 DEF TypeOK, reading, locals
<1>. QED
  BY <1>1, <1>7, <1>8

LEMMA StepType == ASSUME TypeOK, Where, [Next]_vars PROVE TypeOK'
  BY Steps, ReadType, PlainType, CPUType, EnterType, HandleType, ReturnType

-----------------------------------------------------------------------------
(* The kind of the activity at hand, and the time of the switch.           *)
LEMMA WhereStep == ASSUME TypeOK, Where, [Next]_vars PROVE Where'
<1>1. CASE ReadStep
  <2>1. pc' \in Reading \cup {"next", "error"} /\ n' = n /\ pc \in Reading
    BY <1>1 DEF ReadStep, Start, Fail, readTrace, readTraceDone, readVectorTable,
           readVectorTableDone, OpenOutput, Reading, simulation,
           TraceNotOpened, VectorsNotOpened, OutputNotOpened
  <2>. QED
    BY <2>1 DEF Where, Reading, InSyscall, InEndIO, InEither
<1>2. CASE PassOver \/ Throw \/ WriteMetrics \/ CPU
  <2>1. pc' \in {"next", "error", "done"}
    BY <1>2 DEF PassOver, Throw, WriteMetrics, CPU, AtActivity
  <2>. QED
    BY <2>1 DEF Where, Reading, InSyscall, InEndIO, InEither
<1>3. CASE Crash
  <2>1. pc = "load" /\ pc' = "crashed" /\ UNCHANGED <<n, trace>>
    BY <1>3 DEF Crash, reading
  <2>. QED
    BY <2>1 DEF Where, Reading, InSyscall, InEndIO, InEither, IsInterrupt
<1>4. CASE UNCHANGED vars
  BY <1>4 DEF vars, reading, Where, IsInterrupt
<1>5. CASE EnterStep
  <2>1. UNCHANGED <<n, trace>>
    BY <1>5 DEF EnterStep, CheckPriority, CheckMask, EnterSyscall, EnterEndIO, SwitchToKernel,
           FindVector, LoadAddress, Step, reading
  <2>2. CASE CheckPriority
    <3>1. n <= Len(trace) /\ trace[n].type = "END_IO" /\ pc' = "mask"
      BY <2>2 DEF CheckPriority, AtActivity, activity, Step
    <3>. QED
      BY <2>1, <3>1 DEF Where, Reading, InSyscall, InEndIO, InEither
  <2>3. CASE CheckMask
    <3>1. pc = "mask" /\ pc' = "switch"
      BY <2>3 DEF CheckMask, Step
    <3>. QED
      BY <2>1, <3>1 DEF Where, Reading, InSyscall, InEndIO, InEither
  <2>4. CASE EnterSyscall
    <3>1. n <= Len(trace) /\ trace[n].type = "SYSCALL" /\ pc' = "find"
      BY <2>4 DEF EnterSyscall, AtActivity, activity, SwitchToKernel
    <3>. QED
      BY <2>1, <3>1 DEF Where, Reading, InSyscall, InEndIO, InEither, IsInterrupt
  <2>5. CASE EnterEndIO
    <3>1. pc = "switch" /\ pc' = "find"
      BY <2>5 DEF EnterEndIO, SwitchToKernel
    <3>. QED
      BY <2>1, <3>1 DEF Where, Reading, InSyscall, InEndIO, InEither, IsInterrupt
  <2>6. CASE FindVector
    <3>1. pc = "find" /\ pc' = "load"
      BY <2>6 DEF FindVector, Step
    <3>. QED
      BY <2>1, <3>1 DEF Where, Reading, InSyscall, InEndIO, InEither, IsInterrupt
  <2>7. CASE LoadAddress
    <3>1. pc = "load" /\ pc' = IF trace[n].type = "SYSCALL" THEN "run" ELSE "end_io"
      BY <2>7 DEF LoadAddress, activity
    <3>. QED
      BY <2>1, <3>1 DEF Where, Reading, InSyscall, InEndIO, InEither, IsInterrupt
  <2>. QED
    BY <1>5, <2>2, <2>3, <2>4, <2>5, <2>6, <2>7 DEF EnterStep
<1>6. CASE HandleStep
  <2>1. /\ UNCHANGED <<n, trace>>
        /\ \/ pc = "run" /\ pc' = "transfer"
           \/ pc = "transfer" /\ pc' = "check"
           \/ pc = "check" /\ pc' = "iret"
           \/ pc = "end_io" /\ pc' = "end_iret"
    BY <1>6 DEF HandleStep, RunISR, TransferData, CheckErrors, HandleEndIO, Step, reading
  <2>. QED
    BY <2>1 DEF Where, Reading, InSyscall, InEndIO, InEither
<1>7. CASE ReturnStep
  <2>1. pc' = "next"
    BY <1>7 DEF ReturnStep, ReturnFromSyscall, ReturnFromEndIO, ToNextActivity
  <2>. QED
    BY <2>1 DEF Where, Reading, InSyscall, InEndIO, InEither
<1>. QED
  BY <1>1, <1>2, <1>3, <1>4, <1>5, <1>6, <1>7, Steps DEF PlainStep

LEMMA SwitchedStep == ASSUME Switched, [Next]_vars PROVE Switched'
<1>1. CASE EnterSyscall \/ EnterEndIO
  <2>1. contextSwitchTime' \in contextDist /\ input' = input
    BY <1>1 DEF EnterSyscall, EnterEndIO, SwitchToKernel, reading
  <2>. QED
    BY <2>1 DEF Switched, contextDist
<1>2. CASE FindVector \/ LoadAddress \/ HandleStep \/ UNCHANGED vars
  <2>1. UNCHANGED <<input, contextSwitchTime>>
    BY <1>2 DEF FindVector, LoadAddress, HandleStep, RunISR, TransferData, CheckErrors,
           HandleEndIO, Step, vars, reading, simulation, locals
  <2>2. pc' \in {"find", "load", "end_io"} \cup InSyscall
          => pc \in {"find", "load", "end_io"} \cup InSyscall
    BY <1>2 DEF FindVector, LoadAddress, HandleStep, RunISR, TransferData, CheckErrors,
           HandleEndIO, Step, vars, InSyscall
  <2>. QED
    BY <2>1, <2>2 DEF Switched, contextDist
<1>3. CASE \/ ReadStep \/ PassOver \/ Throw \/ Crash \/ WriteMetrics \/ CPU
           \/ CheckPriority \/ CheckMask \/ ReturnStep
  <2>1. pc' \in {"trace", "vectors", "output", "next", "error", "crashed", "done", "mask", "switch"}
    BY <1>3 DEF ReadStep, Start, Fail, readTrace, readTraceDone, readVectorTable,
         readVectorTableDone, OpenOutput, PassOver, Throw, Crash, WriteMetrics, CPU, AtActivity,
         CheckPriority, CheckMask, Step, ReturnStep, ReturnFromSyscall, ReturnFromEndIO,
         ToNextActivity
  <2>. QED
    BY <2>1 DEF Switched, InSyscall
<1>. QED
  BY <1>1, <1>2, <1>3, Steps DEF PlainStep, EnterStep

-----------------------------------------------------------------------------
(***************************************************************************)
(* The totals.  In the middle of an interrupt some of them are ahead of    *)
(* the others: by the checks of an END_IO that are not in the total yet,   *)
(* the parts of an ISR that are not in its sum yet, and the switch, the    *)
(* look-up and the ISR of the activity at hand.                            *)
(***************************************************************************)
EndIOs == Cardinality({k \in Before(n) : IsEndIO(k)})
Interrupts == Cardinality({k \in Before(n) : IsInterrupt(k)})

Unchecked == IF pc = "mask" THEN 1 ELSE IF pc = "switch" THEN 2 ELSE 0

Checked ==
  IF pc \in {"find", "load", "end_io", "end_iret", "crashed"} /\ IsEndIO(n) THEN 2 ELSE 0

PartsDone ==
  IF pc = "transfer" THEN runIsrTime
  ELSE IF pc = "check" THEN runIsrTime + transferDataTime
  ELSE IF pc = "iret" THEN totalIsrTime
  ELSE 0

Loaded == IF pc \in {"run", "transfer", "check", "iret", "end_io", "end_iret"} THEN 1 ELSE 0
LookedUp == IF pc \in {"load", "crashed"} THEN 1 ELSE Loaded
SwitchedIn == IF pc = "find" THEN 1 ELSE LookedUp

Totals ==
  /\ metrics.totalExecutionTime = currentTime - Unchecked
  /\ metrics.totalExecutionTime =
       metrics.timeSpentInCPUOperations + metrics.timeSpentInIOOperations
       + metrics.timeSpentInInterruptHandling + metrics.totalContextSwitchTime
       + metrics.timeSpentOnVectorTableLookups + metrics.totalISRExecutions
       + 2 * EndIOs + Checked
  /\ metrics.totalISRExecutionTime + PartsDone =
       metrics.timeSpentInInterruptHandling + metrics.timeSpentInIOOperations
  /\ metrics.totalContextSwitches = Interrupts + SwitchedIn
  /\ metrics.timeSpentOnVectorTableLookups = Interrupts + LookedUp
  /\ metrics.totalISRExecutions = Interrupts + Loaded

LEMMA MetricsType ==
  ASSUME TypeOK
  PROVE  /\ metrics.totalExecutionTime \in Int /\ metrics.totalContextSwitches \in Int
         /\ metrics.totalISRExecutions \in Int /\ metrics.timeSpentOnVectorTableLookups \in Int
         /\ metrics.timeSpentInInterruptHandling \in Int /\ metrics.timeSpentInCPUOperations \in Int
         /\ metrics.timeSpentInIOOperations \in Int /\ metrics.totalContextSwitchTime \in Int
         /\ metrics.totalSyscallTime \in Int /\ metrics.totalISRExecutionTime \in Int
         /\ currentTime \in Int
  BY DEF TypeOK, Metrics

(* The numbers of interrupts before the activity at hand.                  *)
LEMMA Counts ==
  ASSUME TypeOK
  PROVE  /\ EndIOs \in Nat /\ Interrupts \in Nat
         /\ IsFiniteSet({k \in Before(n) : IsEndIO(k)})
         /\ IsFiniteSet({k \in Before(n) : IsInterrupt(k)})
<1>1. n - 1 \in Int
  BY TraceType DEF TypeOK
<1>2. IsFiniteSet(Before(n))
  BY <1>1, FS_Interval DEF Before
<1>3. IsFiniteSet({k \in Before(n) : IsEndIO(k)})
      /\ IsFiniteSet({k \in Before(n) : IsInterrupt(k)})
  BY <1>2, FS_Subset
<1>. QED
  BY <1>3, FS_CardinalityType DEF EndIOs, Interrupts

LEMMA NoneBefore == ASSUME n = 1 PROVE EndIOs = 0 /\ Interrupts = 0
<1>1. Before(n) = {}
  BY DEF Before
<1>. QED
  BY <1>1, FS_EmptySet DEF EndIOs, Interrupts

LEMMA SameCounts ==
  ASSUME UNCHANGED <<n, trace>>
  PROVE  EndIOs' = EndIOs /\ Interrupts' = Interrupts
  BY DEF EndIOs, Interrupts, IsEndIO, IsInterrupt

LEMMA NextCounts ==
  ASSUME TypeOK, n' = n + 1, trace' = trace
  PROVE  /\ EndIOs' = EndIOs + (IF IsEndIO(n) THEN 1 ELSE 0)
         /\ Interrupts' = Interrupts + (IF IsInterrupt(n) THEN 1 ELSE 0)
<1>1. n \in Nat /\ n >= 1
  BY TraceType DEF TypeOK
<1>2. Before(n') = Before(n) \cup {n} /\ n \notin Before(n)
  BY <1>1 DEF Before
<1>3. \A k : (IsEndIO(k)' <=> IsEndIO(k)) /\ (IsInterrupt(k)' <=> IsInterrupt(k))
  BY DEF IsEndIO, IsInterrupt
<1>. DEFINE E == {k \in Before(n) : IsEndIO(k)}  I == {k \in Before(n) : IsInterrupt(k)}
<1>4. IsFiniteSet(E) /\ n \notin E /\ Cardinality(E) \in Nat
  BY <1>2, Counts DEF EndIOs
<1>5. IsFiniteSet(I) /\ n \notin I /\ Cardinality(I) \in Nat
  BY <1>2, Counts DEF Interrupts
<1>6. {k \in Before(n') : IsEndIO(k)'} = IF IsEndIO(n) THEN E \cup {n} ELSE E
  BY <1>2, <1>3
<1>7. {k \in Before(n') : IsInterrupt(k)'} = IF IsInterrupt(n) THEN I \cup {n} ELSE I
  BY <1>2, <1>3
<1>8. EndIOs' = Cardinality({k \in Before(n') : IsEndIO(k)'}) /\ EndIOs = Cardinality(E)
  BY DEF EndIOs, Before
<1>9. Interrupts' = Cardinality({k \in Before(n') : IsInterrupt(k)'})
      /\ Interrupts = Cardinality(I)
  BY DEF Interrupts, Before
<1>. HIDE DEF E, I
<1>10. Cardinality(E \cup {n}) = Cardinality(E) + 1
  BY <1>4, FS_AddElement
<1>11. Cardinality(I \cup {n}) = Cardinality(I) + 1
  BY <1>5, FS_AddElement
<1>. QED
  BY <1>4, <1>5, <1>6, <1>7, <1>8, <1>9, <1>10, <1>11

(* What a step adds to the clock and to the metrics.                       *)
Adds(clock, total, cpu, io, handling, switching, lookups, isrs, isrTotal, switches) ==
  /\ currentTime' = currentTime + clock
  /\ metrics'.totalExecutionTime = metrics.totalExecutionTime + total
  /\ metrics'.timeSpentInCPUOperations = metrics.timeSpentInCPUOperations + cpu
  /\ metrics'.timeSpentInIOOperations = metrics.timeSpentInIOOperations + io
  /\ metrics'.timeSpentInInterruptHandling = metrics.timeSpentInInterruptHandling + handling
  /\ metrics'.totalContextSwitchTime = metrics.totalContextSwitchTime + switching
  /\ metrics'.timeSpentOnVectorTableLookups = metrics.timeSpentOnVectorTableLookups + lookups
  /\ metrics'.totalISRExecutions = metrics.totalISRExecutions + isrs
  /\ metrics'.totalISRExecutionTime = metrics.totalISRExecutionTime + isrTotal
  /\ metrics'.totalContextSwitches = metrics.totalContextSwitches + switches

LEMMA SumGrows ==
  ASSUME NEW a \in Int, NEW b \in Int, NEW c \in Int, NEW d \in Int, NEW e \in Int, NEW f \in Int,
         NEW da \in Int, NEW db \in Int, NEW dc \in Int, NEW dd \in Int, NEW de \in Int,
         NEW df \in Int
  PROVE  /\ (a + da) + (b + db) + (c + dc) + (d + dd) + (e + de) + (f + df)
              = (a + b + c + d + e + f) + (da + db + dc + dd + de + df)
         /\ a + b + c + d + e + f \in Int
         /\ da + db + dc + dd + de + df \in Int
  OBVIOUS

(* The totals go on agreeing when what they are ahead by makes up for it.  *)
LEMMA TotalsGrow ==
  ASSUME TypeOK, Totals, PartsDone \in Int, EndIOs' \in Int, Interrupts' \in Int,
         NEW clock \in Int, NEW total \in Int, NEW cpu \in Int, NEW io \in Int,
         NEW handling \in Int, NEW switching \in Int, NEW lookups \in Int,
         NEW isrs \in Int, NEW isrTotal \in Int, NEW switches \in Int,
         Adds(clock, total, cpu, io, handling, switching, lookups, isrs, isrTotal, switches),
         Unchecked' = Unchecked + clock - total,
         2 * EndIOs' + Checked' = 2 * EndIOs + Checked
            + total - (cpu + io + handling + switching + lookups + isrs),
         PartsDone' = PartsDone + handling + io - isrTotal,
         Interrupts' + SwitchedIn' = Interrupts + SwitchedIn + switches,
         Interrupts' + LookedUp' = Interrupts + LookedUp + lookups,
         Interrupts' + Loaded' = Interrupts + Loaded + isrs
  PROVE  Totals'
<1>1. /\ Unchecked \in Int /\ Checked \in Int
      /\ SwitchedIn \in Int /\ LookedUp \in Int /\ Loaded \in Int
      /\ Checked' \in Int /\ SwitchedIn' \in Int /\ LookedUp' \in Int /\ Loaded' \in Int
  BY DEF Unchecked, Checked, SwitchedIn, LookedUp, Loaded
<1>2. EndIOs \in Int /\ Interrupts \in Int
  BY Counts
<1>3. metrics'.totalExecutionTime = currentTime' - Unchecked'
  BY <1>1, MetricsType DEF Totals, Adds
<1>4. metrics'.totalExecutionTime =
        metrics'.timeSpentInCPUOperations + metrics'.timeSpentInIOOperations
        + metrics'.timeSpentInInterruptHandling + metrics'.totalContextSwitchTime
        + metrics'.timeSpentOnVectorTableLookups + metrics'.totalISRExecutions
        + 2 * EndIOs' + Checked'
  <2>1. metrics.totalExecutionTime =
          metrics.timeSpentInCPUOperations + metrics.timeSpentInIOOperations
          + metrics.timeSpentInInterruptHandling + metrics.totalContextSwitchTime
          + metrics.timeSpentOnVectorTableLookups + metrics.totalISRExecutions
          + 2 * EndIOs + Checked
    BY DEF Totals
  <2>2. /\ metrics'.totalExecutionTime = metrics.totalExecutionTime + total
        /\ metrics'.timeSpentInCPUOperations = metrics.timeSpentInCPUOperations + cpu
        /\ metrics'.timeSpentInIOOperations = metrics.timeSpentInIOOperations + io
        /\ metrics'.timeSpentInInterruptHandling = metrics.timeSpentInInterruptHandling + handling
        /\ metrics'.totalContextSwitchTime = metrics.totalContextSwitchTime + switching
        /\ metrics'.timeSpentOnVectorTableLookups = metrics.timeSpentOnVectorTableLookups + lookups
        /\ metrics'.totalISRExecutions = metrics.totalISRExecutions + isrs
    BY DEF Adds
  <2> DEFINE sum == metrics.timeSpentInCPUOperations + metrics.timeSpentInIOOperations
               + metrics.timeSpentInInterruptHandling + metrics.totalContextSwitchTime
               + metrics.timeSpentOnVectorTableLookups + metrics.totalISRExecutions
             growth == cpu + io + handling + switching + lookups + isrs
             checks == 2 * EndIOs + Checked
  <2>3. sum' = sum + growth /\ sum \in Int
    BY <2>2, SumGrows, MetricsType
  <2>4. growth \in Int
    BY SumGrows
  <2>5. checks \in Int
    BY <1>1, <1>2
  <2>6. checks' = checks + total - growth
    OBVIOUS
  <2>7. metrics.totalExecutionTime = sum + checks
    BY <1>1, <1>2, <2>1, MetricsType
  <2>. HIDE DEF growth
  <2>8. sum' + checks' = sum' + 2 * EndIOs' + Checked'
    BY <1>1, <2>3, <2>4, MetricsType
  <2>. HIDE DEF sum, checks
  <2>9. metrics'.totalExecutionTime = sum' + checks'
    BY <2>2, <2>3, <2>4, <2>5, <2>6, <2>7
  <2>. QED
    BY <2>8, <2>9 DEF sum
<1>5. metrics'.totalISRExecutionTime + PartsDone' =
        metrics'.timeSpentInInterruptHandling + metrics'.timeSpentInIOOperations
  <2>1. metrics.totalISRExecutionTime + PartsDone =
          metrics.timeSpentInInterruptHandling + metrics.timeSpentInIOOperations
    BY DEF Totals
  <2>2. /\ metrics'.timeSpentInIOOperations = metrics.timeSpentInIOOperations + io
        /\ metrics'.timeSpentInInterruptHandling = metrics.timeSpentInInterruptHandling + handling
        /\ metrics'.totalISRExecutionTime = metrics.totalISRExecutionTime + isrTotal
    BY DEF Adds
  <2>. QED
    BY <2>1, <2>2, MetricsType
<1>6. /\ metrics'.totalContextSwitches = Interrupts' + SwitchedIn'
      /\ metrics'.timeSpentOnVectorTableLookups = Interrupts' + LookedUp'
      /\ metrics'.totalISRExecutions = Interrupts' + Loaded'
  BY <1>1, <1>2, MetricsType DEF Totals, Adds
<1>. QED
  BY <1>3, <1>4, <1>5, <1>6 DEF Totals

(* What an interrupt is ahead by does not change with the totals.          *)
LEMMA TotalsAlike ==
  ASSUME TypeOK, Totals, UNCHANGED <<currentTime, metrics>>,
         EndIOs' = EndIOs, Interrupts' = Interrupts,
         Unchecked' = Unchecked, Checked' = Checked, PartsDone' = PartsDone,
         SwitchedIn' = SwitchedIn, LookedUp' = LookedUp, Loaded' = Loaded
  PROVE  Totals'
  BY DEF Totals

LEMMA TotalsRead == ASSUME TypeOK, Where, Totals, ReadStep PROVE Totals'
<1>1. UNCHANGED <<n, currentTime, metrics>> /\ pc \in Reading
      /\ pc' \in Reading \cup {"next", "error"}
  BY DEF ReadStep, Start, Fail, readTrace, readTraceDone, readVectorTable,
         readVectorTableDone, OpenOutput, Reading, simulation,
         TraceNotOpened, VectorsNotOpened, OutputNotOpened
<1>2. EndIOs' = EndIOs /\ Interrupts' = Interrupts
  <2>1. n = 1 /\ n' = 1
    BY <1>1 DEF Where
  <2>2. EndIOs = 0 /\ Interrupts = 0
    BY <2>1, NoneBefore
  <2>3. EndIOs' = 0 /\ Interrupts' = 0
    <3>1. (n = 1 => EndIOs = 0 /\ Interrupts = 0)'
      BY NoneBefore, PTL
    <3>. QED
      BY <2>1, <3>1
  <2>. QED
    BY <2>2, <2>3
<1>3. /\ Unchecked = 0 /\ Checked = 0 /\ PartsDone = 0
      /\ SwitchedIn = 0 /\ LookedUp = 0 /\ Loaded = 0
  BY <1>1 DEF Reading, Unchecked, Checked, PartsDone, SwitchedIn, LookedUp, Loaded
<1>4. /\ Unchecked' = 0 /\ Checked' = 0 /\ PartsDone' = 0
      /\ SwitchedIn' = 0 /\ LookedUp' = 0 /\ Loaded' = 0
  BY <1>1 DEF Reading, Unchecked, Checked, PartsDone, SwitchedIn, LookedUp, Loaded
<1>. QED
  BY <1>1, <1>2, <1>3, <1>4, TotalsAlike

LEMMA TotalsPlain == ASSUME TypeOK, Where, Totals, PlainStep PROVE Totals'
<1>1. CASE PassOver
  <2>1. /\ pc = "next" /\ pc' = "next" /\ n' = n + 1 /\ trace' = trace
        /\ trace[n].type = "OTHER" /\ UNCHANGED <<currentTime, metrics>>
    BY <1>1 DEF PassOver, AtActivity, activity, reading, simulation
  <2>2. EndIOs' = EndIOs /\ Interrupts' = Interrupts
    BY <2>1, NextCounts, Counts DEF IsEndIO, IsInterrupt
  <2>3. /\ Unchecked' = Unchecked /\ Checked' = Checked /\ PartsDone' = PartsDone
        /\ SwitchedIn' = SwitchedIn /\ LookedUp' = LookedUp /\ Loaded' = Loaded
    BY <2>1 DEF Unchecked, Checked, PartsDone, SwitchedIn, LookedUp, Loaded
  <2>. QED
    BY <2>1, <2>2, <2>3, TotalsAlike
<1>2. CASE Throw \/ Crash \/ WriteMetrics \/ UNCHANGED vars
  <2>1. /\ UNCHANGED <<n, trace, currentTime, metrics, locals>>
        /\ \/ pc = "next" /\ pc' \in {"error", "done"}
           \/ pc = "load" /\ pc' = "crashed"
           \/ pc' = pc
    BY <1>2 DEF Throw, AtActivity, Crash, WriteMetrics, vars, reading, simulation
  <2>2. EndIOs' = EndIOs /\ Interrupts' = Interrupts
    BY <2>1, SameCounts
  <2>3. PartsDone' = PartsDone
    BY <2>1 DEF PartsDone, runIsrTime, transferDataTime, totalIsrTime, activity, locals
  <2>4. /\ Unchecked' = Unchecked /\ Checked' = Checked
        /\ SwitchedIn' = SwitchedIn /\ LookedUp' = LookedUp /\ Loaded' = Loaded
    BY <2>1 DEF Unchecked, Checked, SwitchedIn, LookedUp, Loaded, IsEndIO
  <2>. QED
    BY <2>1, <2>2, <2>3, <2>4, TotalsAlike
<1>. QED
  BY <1>1, <1>2 DEF PlainStep

LEMMA TotalsCPU == ASSUME TypeOK, Totals, CPU PROVE Totals'
<1> DEFINE d == activity.duration
<1>1. /\ pc = "next" /\ pc' = "next" /\ n' = n + 1 /\ trace' = trace
      /\ n <= Len(trace) /\ trace[n].type = "CPU"
  BY DEF CPU, AtActivity, activity, reading
<1>2. d \in Int
  BY <1>1, AtHand
<1>3. EndIOs' = EndIOs /\ Interrupts' = Interrupts /\ EndIOs \in Int /\ Interrupts \in Int
  BY <1>1, NextCounts, Counts DEF IsEndIO, IsInterrupt
<1>4. Adds(d, d, d, 0, 0, 0, 0, 0, 0, 0)
  BY MetricsType DEF CPU, Spend, Metrics, Adds
<1>5. /\ Unchecked = 0 /\ Checked = 0 /\ PartsDone = 0
      /\ SwitchedIn = 0 /\ LookedUp = 0 /\ Loaded = 0
      /\ Unchecked' = 0 /\ Checked' = 0 /\ PartsDone' = 0
      /\ SwitchedIn' = 0 /\ LookedUp' = 0 /\ Loaded' = 0
  BY <1>1 DEF Unchecked, Checked, PartsDone, SwitchedIn, LookedUp, Loaded
<1>. HIDE DEF d
<1>. QED
  BY <1>2, <1>3, <1>4, <1>5, TotalsGrow

LEMMA TotalsEnter == ASSUME TypeOK, Where, Totals, EnterStep PROVE Totals'
<1>1. UNCHANGED <<n, trace>>
  BY DEF EnterStep, CheckPriority, CheckMask, EnterSyscall, EnterEndIO, SwitchToKernel,
         FindVector, LoadAddress, Step, reading
<1>2. EndIOs' = EndIOs /\ Interrupts' = Interrupts /\ EndIOs \in Int /\ Interrupts \in Int
  BY <1>1, SameCounts, Counts
<1>3. PartsDone = 0 /\ PartsDone' = 0
  BY DEF EnterStep, CheckPriority, CheckMask, EnterSyscall, EnterEndIO, SwitchToKernel,
         FindVector, LoadAddress, Step, AtActivity, PartsDone
<1>4. IsEndIO(n)' <=> IsEndIO(n)
  BY <1>1 DEF IsEndIO
<1>5. CASE CheckPriority \/ CheckMask
  <2>1. Adds(1, 0, 0, 0, 0, 0, 0, 0, 0, 0)
    BY <1>5, MetricsType DEF CheckPriority, CheckMask, Spend, Metrics, Adds
  <2>2. \/ pc = "next" /\ pc' = "mask"
        \/ pc = "mask" /\ pc' = "switch"
    BY <1>5 DEF CheckPriority, CheckMask, Step
  <2>3. /\ Unchecked \in Int /\ Unchecked' = Unchecked + 1 /\ Checked = 0 /\ Checked' = 0
        /\ SwitchedIn = 0 /\ LookedUp = 0 /\ Loaded = 0
        /\ SwitchedIn' = 0 /\ LookedUp' = 0 /\ Loaded' = 0
    BY <2>2 DEF Unchecked, Checked, SwitchedIn, LookedUp, Loaded
  <2>. QED
    BY <1>2, <1>3, <2>1, <2>3, TotalsGrow
<1>6. ASSUME NEW checks \in Int, SwitchToKernel(checks)
      PROVE  \E time \in Int : Adds(time, time + checks, 0, 0, 0, time, 0, 0, 0, 1)
  <2>1. PICK time \in contextDist :
          Spend(time, [totalContextSwitches |-> 1,
                       totalExecutionTime |-> time + checks,
                       totalContextSwitchTime |-> time])
    BY <1>6 DEF SwitchToKernel
  <2>2. time \in Int
    BY TimeType
  <2>3. Adds(time, time + checks, 0, 0, 0, time, 0, 0, 0, 1)
    BY <2>1, <2>2, MetricsType DEF Spend, Metrics, Adds
  <2>. QED
    BY <2>2, <2>3
<1>7. CASE EnterSyscall
  <2>1. PICK time \in Int : Adds(time, time + 0, 0, 0, 0, time, 0, 0, 0, 1)
    BY <1>6, <1>7 DEF EnterSyscall
  <2>2. pc = "next" /\ pc' = "find" /\ ~IsEndIO(n)
    BY <1>7 DEF EnterSyscall, AtActivity, SwitchToKernel, activity, IsEndIO
  <2>3. /\ Unchecked = 0 /\ Unchecked' = 0 /\ Checked = 0 /\ Checked' = 0
        /\ SwitchedIn = 0 /\ LookedUp = 0 /\ Loaded = 0
        /\ SwitchedIn' = 1 /\ LookedUp' = 0 /\ Loaded' = 0
    BY <1>1, <1>4, <2>2 DEF Unchecked, Checked, SwitchedIn, LookedUp, Loaded, IsEndIO
  <2>4. time + 0 = time
    OBVIOUS
  <2>. QED
    BY <1>2, <1>3, <2>1, <2>3, <2>4, TotalsGrow
<1>8. CASE EnterEndIO
  <2>1. PICK time \in Int : Adds(time, time + 2, 0, 0, 0, time, 0, 0, 0, 1)
    BY <1>6, <1>8 DEF EnterEndIO
  <2>2. pc = "switch" /\ pc' = "find"
    BY <1>8 DEF EnterEndIO, SwitchToKernel
  <2>3. IsEndIO(n)
    BY <2>2 DEF Where, InEndIO, IsEndIO
  <2>4. /\ Unchecked = 2 /\ Unchecked' = 0 /\ Checked = 0 /\ Checked' = 2
        /\ SwitchedIn = 0 /\ LookedUp = 0 /\ Loaded = 0
        /\ SwitchedIn' = 1 /\ LookedUp' = 0 /\ Loaded' = 0
    BY <1>1, <2>2, <2>3 DEF Unchecked, Checked, SwitchedIn, LookedUp, Loaded, IsEndIO
  <2>. QED
    BY <1>2, <1>3, <2>1, <2>4, TotalsGrow
<1>9. CASE FindVector
  <2>1. Adds(1, 1, 0, 0, 0, 0, 1, 0, 0, 0)
    BY <1>9, MetricsType DEF FindVector, Spend, Metrics, Adds
  <2>2. pc = "find" /\ pc' = "load"
    BY <1>9 DEF FindVector, Step
  <2>3. /\ Unchecked = 0 /\ Unchecked' = 0 /\ Checked' = Checked /\ Checked \in Int
        /\ SwitchedIn = 1 /\ LookedUp = 0 /\ Loaded = 0
        /\ SwitchedIn' = 1 /\ LookedUp' = 1 /\ Loaded' = 0
    BY <1>1, <2>2 DEF Unchecked, Checked, SwitchedIn, LookedUp, Loaded, IsEndIO
  <2>. QED
    BY <1>2, <1>3, <2>1, <2>3, TotalsGrow
<1>10. CASE LoadAddress
  <2>1. Adds(1, 1, 0, 0, 0, 0, 0, 1, 0, 0)
    BY <1>10, MetricsType DEF LoadAddress, Spend, Metrics, Adds
  <2>2. pc = "load" /\ pc' = IF trace[n].type = "SYSCALL" THEN "run" ELSE "end_io"
    BY <1>10 DEF LoadAddress, activity
  <2>3. IsInterrupt(n)
    BY <2>2 DEF Where, InEither
  <2>4. /\ Unchecked = 0 /\ Unchecked' = 0 /\ Checked' = Checked /\ Checked \in Int
        /\ SwitchedIn = 1 /\ LookedUp = 1 /\ Loaded = 0
        /\ SwitchedIn' = 1 /\ LookedUp' = 1 /\ Loaded' = 1
    BY <1>1, <2>2, <2>3 DEF Unchecked, Checked, SwitchedIn, LookedUp, Loaded, IsEndIO, IsInterrupt
  <2>. QED
    BY <1>2, <1>3, <2>1, <2>4, TotalsGrow
<1>. QED
  BY <1>5, <1>7, <1>8, <1>9, <1>10 DEF EnterStep

LEMMA TotalsHandle == ASSUME TypeOK, Where, Totals, HandleStep PROVE Totals'
<1>1. UNCHANGED <<n, trace, contextSwitchTime>>
  BY DEF HandleStep, RunISR, TransferData, CheckErrors, HandleEndIO, Step, reading, locals
<1>2. EndIOs' = EndIOs /\ Interrupts' = Interrupts /\ EndIOs \in Int /\ Interrupts \in Int
  BY <1>1, SameCounts, Counts
<1>3. pc \in InSyscall \cup InEndIO
  BY DEF HandleStep, RunISR, TransferData, CheckErrors, HandleEndIO, Step, InSyscall, InEndIO
<1>4. activity.duration \in Int
  BY <1>3, AtHand DEF Where
<1>5. /\ totalIsrTime \in Int /\ runIsrTime \in Int /\ transferDataTime \in Int
      /\ checkErrorsTime \in Int /\ ioHandlingTime \in Int
      /\ checkErrorsTime = totalIsrTime - runIsrTime - transferDataTime
  BY <1>4, PartsType DEF checkErrorsTime
<1>6. totalIsrTime' = totalIsrTime /\ runIsrTime' = runIsrTime /\ transferDataTime' = transferDataTime
  BY <1>1 DEF totalIsrTime, runIsrTime, transferDataTime, activity
<1>. HIDE DEF totalIsrTime, runIsrTime, transferDataTime, checkErrorsTime, ioHandlingTime
<1>7. CASE RunISR
  <2>1. Adds(runIsrTime, runIsrTime, 0, 0, runIsrTime, 0, 0, 0, 0, 0)
    BY <1>5, <1>7, MetricsType DEF RunISR, Spend, Metrics, Adds
  <2>2. pc = "run" /\ pc' = "transfer"
    BY <1>7 DEF RunISR, Step
  <2>3. PartsDone = 0 /\ PartsDone' = runIsrTime
    BY <1>6, <2>2 DEF PartsDone
  <2>4. /\ Unchecked = 0 /\ Unchecked' = 0 /\ Checked = 0 /\ Checked' = 0
        /\ SwitchedIn = 1 /\ LookedUp = 1 /\ Loaded = 1
        /\ SwitchedIn' = 1 /\ LookedUp' = 1 /\ Loaded' = 1
    BY <2>2 DEF Unchecked, Checked, SwitchedIn, LookedUp, Loaded
  <2>. QED
    BY <1>2, <1>5, <2>1, <2>3, <2>4, TotalsGrow
<1>8. CASE TransferData
  <2>1. Adds(transferDataTime, transferDataTime, 0, transferDataTime, 0, 0, 0, 0, 0, 0)
    BY <1>5, <1>8, MetricsType DEF TransferData, Spend, Metrics, Adds
  <2>2. pc = "transfer" /\ pc' = "check"
    BY <1>8 DEF TransferData, Step
  <2>3. PartsDone = runIsrTime /\ PartsDone' = runIsrTime + transferDataTime
    BY <1>6, <2>2 DEF PartsDone
  <2>4. /\ Unchecked = 0 /\ Unchecked' = 0 /\ Checked = 0 /\ Checked' = 0
        /\ SwitchedIn = 1 /\ LookedUp = 1 /\ Loaded = 1
        /\ SwitchedIn' = 1 /\ LookedUp' = 1 /\ Loaded' = 1
    BY <2>2 DEF Unchecked, Checked, SwitchedIn, LookedUp, Loaded
  <2>. QED
    BY <1>2, <1>5, <2>1, <2>3, <2>4, TotalsGrow
<1>9. CASE CheckErrors
  <2>1. Adds(checkErrorsTime, checkErrorsTime, 0, 0, checkErrorsTime, 0, 0, 0, 0, 0)
    BY <1>5, <1>9, MetricsType DEF CheckErrors, Spend, Metrics, Adds
  <2>2. pc = "check" /\ pc' = "iret"
    BY <1>9 DEF CheckErrors, Step
  <2>3. PartsDone = runIsrTime + transferDataTime /\ PartsDone' = totalIsrTime
    BY <1>6, <2>2 DEF PartsDone
  <2>4. /\ Unchecked = 0 /\ Unchecked' = 0 /\ Checked = 0 /\ Checked' = 0
        /\ SwitchedIn = 1 /\ LookedUp = 1 /\ Loaded = 1
        /\ SwitchedIn' = 1 /\ LookedUp' = 1 /\ Loaded' = 1
    BY <2>2 DEF Unchecked, Checked, SwitchedIn, LookedUp, Loaded
  <2>5. PartsDone' = PartsDone + checkErrorsTime
    BY <1>5, <2>3
  <2>6. PartsDone \in Int
    BY <1>5, <2>3
  <2>. HIDE DEF PartsDone
  <2>. QED
    BY <1>2, <1>5, <2>1, <2>4, <2>5, <2>6, TotalsGrow
<1>10. CASE HandleEndIO
  <2>1. Adds(ioHandlingTime, ioHandlingTime, 0, 0, ioHandlingTime, 0, 0, 0, ioHandlingTime, 0)
    BY <1>5, <1>10, MetricsType DEF HandleEndIO, Spend, Metrics, Adds
  <2>2. pc = "end_io" /\ pc' = "end_iret"
    BY <1>10 DEF HandleEndIO, Step
  <2>3. IsEndIO(n)
    BY <2>2 DEF Where, InEndIO, IsEndIO
  <2>4. PartsDone = 0 /\ PartsDone' = 0
    BY <2>2 DEF PartsDone
  <2>5. /\ Unchecked = 0 /\ Unchecked' = 0 /\ Checked = 2 /\ Checked' = 2
        /\ SwitchedIn = 1 /\ LookedUp = 1 /\ Loaded = 1
        /\ SwitchedIn' = 1 /\ LookedUp' = 1 /\ Loaded' = 1
    BY <1>1, <2>2, <2>3 DEF Unchecked, Checked, SwitchedIn, LookedUp, Loaded, IsEndIO
  <2>. QED
    BY <1>2, <1>5, <2>1, <2>4, <2>5, TotalsGrow
<1>. QED
  BY <1>7, <1>8, <1>9, <1>10 DEF HandleStep

LEMMA TotalsReturn == ASSUME TypeOK, Where, Totals, ReturnStep PROVE Totals'
<1>1. PICK iretTime \in contextDist : ReturnFromSyscall(iretTime) \/ ReturnFromEndIO(iretTime)
  BY DEF ReturnStep
<1>2. iretTime \in Int /\ syscallStartTime \in Int /\ currentTime \in Int
  BY TimeType DEF TypeOK
<1>3. pc \in {"iret", "end_iret"} /\ pc' = "next" /\ n' = n + 1 /\ trace' = trace
  BY <1>1 DEF ReturnFromSyscall, ReturnFromEndIO, ToNextActivity, reading
<1>4. /\ Unchecked = 0 /\ Unchecked' = 0 /\ Checked' = 0 /\ PartsDone' = 0
      /\ SwitchedIn = 1 /\ LookedUp = 1 /\ Loaded = 1
      /\ SwitchedIn' = 0 /\ LookedUp' = 0 /\ Loaded' = 0
  BY <1>3 DEF Unchecked, Checked, PartsDone, SwitchedIn, LookedUp, Loaded
<1>5. EndIOs \in Int /\ Interrupts \in Int
  BY Counts
<1>6. CASE ReturnFromSyscall(iretTime)
  <2>1. pc = "iret"
    BY <1>6 DEF ReturnFromSyscall
  <2>2. ~IsEndIO(n) /\ IsInterrupt(n) /\ n <= Len(trace)
    BY <2>1 DEF Where, InSyscall, IsEndIO, IsInterrupt
  <2>3. EndIOs' = EndIOs /\ Interrupts' = Interrupts + 1
    BY <1>3, <1>5, <2>2, NextCounts
  <2>4. totalIsrTime \in Int
    BY <2>2, AtHand, PartsType
  <2>5. Checked = 0 /\ PartsDone = totalIsrTime
    BY <2>1 DEF Checked, PartsDone
  <2>. HIDE DEF totalIsrTime
  <2>6. Adds(iretTime, iretTime, 0, 0, 0, iretTime, 0, 0, totalIsrTime, 0)
    BY <1>2, <1>6, <2>4, MetricsType DEF ReturnFromSyscall, Spend, Metrics, Adds
  <2>. QED
    BY <1>2, <1>4, <1>5, <2>3, <2>4, <2>5, <2>6, TotalsGrow
<1>7. CASE ReturnFromEndIO(iretTime)
  <2>1. pc = "end_iret"
    BY <1>7 DEF ReturnFromEndIO
  <2>2. IsEndIO(n) /\ IsInterrupt(n)
    BY <2>1 DEF Where, InEndIO, IsEndIO, IsInterrupt
  <2>3. EndIOs' = EndIOs + 1 /\ Interrupts' = Interrupts + 1
    BY <1>3, <1>5, <2>2, NextCounts
  <2>4. Checked = 2 /\ PartsDone = 0
    BY <2>1, <2>2 DEF Checked, PartsDone
  <2>5. Adds(iretTime, iretTime, 0, 0, 0, iretTime, 0, 0, 0, 0)
    BY <1>2, <1>7, MetricsType DEF ReturnFromEndIO, Spend, Metrics, Adds
  <2>. QED
    BY <1>2, <1>4, <1>5, <2>3, <2>4, <2>5, TotalsGrow
<1>. QED
  BY <1>1, <1>6, <1>7

LEMMA TotalsStep == ASSUME TypeOK, Where, Totals, [Next]_vars PROVE Totals'
  BY Steps, TotalsRead, TotalsPlain, TotalsCPU, TotalsEnter, TotalsHandle, TotalsReturn

-----------------------------------------------------------------------------
(***************************************************************************)
(* The response times.                                                     *)
(***************************************************************************)
OpenNumbers == {trace[j].number : j \in {j \in Before(n) : OpenUntil(j, n)}}

Matched ==
  /\ DOMAIN syscallStartTimes = OpenNumbers
  /\ Len(ioResponseTimes) = Cardinality(Answered)

LEMMA AnsweredFinite ==
  ASSUME TypeOK
  PROVE  IsFiniteSet(Answered) /\ Cardinality(Answered) \in Nat /\ n \notin Answered
<1>1. n \in Nat /\ n - 1 \in Int
  BY TraceType DEF TypeOK
<1>2. IsFiniteSet(Before(n)) /\ n \notin Before(n)
  BY <1>1, FS_Interval DEF Before
<1>3. Answered \subseteq Before(n)
  BY DEF Answered
<1>. QED
  BY <1>2, <1>3, FS_Subset, FS_CardinalityType

(* What is open up to the next activity.                                   *)
LEMMA StillOpen ==
  ASSUME TypeOK
  PROVE  /\ \A j \in Before(n) :
              OpenUntil(j, n + 1) <=>
                /\ OpenUntil(j, n)
                /\ IsInterrupt(n) => trace[n].number # trace[j].number
         /\ OpenUntil(n, n + 1) <=> trace[n].type = "SYSCALL"
<1>1. n \in Nat /\ n >= 1
  BY TraceType DEF TypeOK
<1>2. \A j \in Before(n) : j \in Nat /\ j < n
  BY <1>1 DEF Before
<1>3. ASSUME NEW j \in Before(n)
      PROVE  OpenUntil(j, n + 1) <=>
               /\ OpenUntil(j, n)
               /\ IsInterrupt(n) => trace[n].number # trace[j].number
  <2>1. j + 1 .. (n + 1) - 1 = (j + 1 .. n - 1) \cup {n}
    BY <1>1, <1>2
  <2>. QED
    BY <2>1 DEF OpenUntil
<1>4. OpenUntil(n, n + 1) <=> trace[n].type = "SYSCALL"
  <2>1. n + 1 .. (n + 1) - 1 = {}
    BY <1>1
  <2>. QED
    BY <2>1 DEF OpenUntil
<1>. QED
  BY <1>3, <1>4

(* Going on to the next activity.                                          *)
LEMMA NextOpen ==
  ASSUME TypeOK, n' = n + 1, trace' = trace
  PROVE  OpenNumbers' =
           IF trace[n].type = "SYSCALL" THEN OpenNumbers \cup {trace[n].number}
           ELSE IF IsEndIO(n) THEN OpenNumbers \ {trace[n].number}
           ELSE OpenNumbers
<1>1. n \in Nat /\ n >= 1
  BY TraceType DEF TypeOK
<1>2. Before(n') = Before(n) \cup {n} /\ \A j \in Before(n) : j \in Nat /\ j < n
  BY <1>1 DEF Before
<1>3. \A j, k : OpenUntil(j, k)' <=> OpenUntil(j, k)
  BY DEF OpenUntil, IsInterrupt
<1>4. /\ \A j \in Before(n) :
           OpenUntil(j, n + 1) <=>
             /\ OpenUntil(j, n)
             /\ IsInterrupt(n) => trace[n].number # trace[j].number
      /\ OpenUntil(n, n + 1) <=> trace[n].type = "SYSCALL"
  BY StillOpen
<1>6. OpenNumbers' = {trace[j].number : j \in {j \in Before(n + 1) : OpenUntil(j, n + 1)}}
  BY <1>3 DEF OpenNumbers, Before
<1>7. \A x : x \in OpenNumbers' <=>
        \/ \E j \in Before(n) : OpenUntil(j, n + 1) /\ x = trace[j].number
        \/ OpenUntil(n, n + 1) /\ x = trace[n].number
  BY <1>2, <1>6
<1>8. \A x : x \in OpenNumbers <=> \E j \in Before(n) : OpenUntil(j, n) /\ x = trace[j].number
  BY DEF OpenNumbers
<1>9. CASE trace[n].type = "SYSCALL"
  <2>1. IsInterrupt(n)
    BY <1>9 DEF IsInterrupt
  <2>2. \A x : x \in OpenNumbers' <=> x \in OpenNumbers \cup {trace[n].number}
    BY <1>4, <1>7, <1>8, <1>9, <2>1
  <2>. QED
    BY <1>9, <2>2
<1>10. CASE trace[n].type # "SYSCALL" /\ IsEndIO(n)
  <2>1. IsInterrupt(n)
    BY <1>10 DEF IsInterrupt, IsEndIO
  <2>2. \A x : x \in OpenNumbers' <=> x \in OpenNumbers \ {trace[n].number}
    BY <1>4, <1>7, <1>8, <1>10, <2>1
  <2>. QED
    BY <1>10, <2>2
<1>11. CASE trace[n].type # "SYSCALL" /\ ~IsEndIO(n)
  <2>1. ~IsInterrupt(n)
    BY <1>11 DEF IsInterrupt, IsEndIO
  <2>2. \A x : x \in OpenNumbers' <=> x \in OpenNumbers
    BY <1>4, <1>7, <1>8, <1>11, <2>1
  <2>. QED
    BY <1>11, <2>2
<1>. QED
  BY <1>9, <1>10, <1>11

LEMMA AnsweredNext ==
  ASSUME TypeOK, n' = n + 1, trace' = trace
  PROVE  Answered' = IF IsEndIO(n) /\ trace[n].number \in OpenNumbers
                     THEN Answered \cup {n} ELSE Answered
<1>1. n \in Nat /\ n >= 1
  BY TraceType DEF TypeOK
<1>2. Before(n') = Before(n) \cup {n}
  BY <1>1 DEF Before
<1>3. \A k, j : Answers(k, j)' <=> Answers(k, j)
  BY DEF Answers, IsEndIO, OpenUntil, IsInterrupt
<1>4. Answered' = {k \in Before(n) \cup {n} : \E j \in Before(k) : Answers(k, j)}
  BY <1>2, <1>3 DEF Answered, Before
<1>5. (\E j \in Before(n) : Answers(n, j)) <=> IsEndIO(n) /\ trace[n].number \in OpenNumbers
  BY DEF Answers, OpenNumbers
<1>. QED
  BY <1>4, <1>5 DEF Answered

LEMMA NextAnswered ==
  ASSUME TypeOK, n' = n + 1, trace' = trace
  PROVE  Cardinality(Answered') = Cardinality(Answered)
           + (IF IsEndIO(n) /\ trace[n].number \in OpenNumbers THEN 1 ELSE 0)
<1>1. Answered' = IF IsEndIO(n) /\ trace[n].number \in OpenNumbers
                  THEN Answered \cup {n} ELSE Answered
  BY AnsweredNext
<1>2. IsFiniteSet(Answered) /\ Cardinality(Answered) \in Nat /\ n \notin Answered
  BY AnsweredFinite
<1>3. Cardinality(Answered \cup {n}) = Cardinality(Answered) + 1
  BY <1>2, FS_AddElement
<1>. QED
  BY <1>1, <1>2, <1>3

LEMMA NothingOpen == ASSUME n = 1 PROVE OpenNumbers = {} /\ Cardinality(Answered) = 0
<1>1. Before(n) = {}
  BY DEF Before
<1>2. OpenNumbers = {} /\ Answered = {}
  BY <1>1 DEF OpenNumbers, Answered
<1>. QED
  BY <1>2, FS_EmptySet

LEMMA MatchedStep == ASSUME TypeOK, Where, Matched, [Next]_vars PROVE Matched'
<1>1. CASE UNCHANGED <<n, trace, responses>>
  BY <1>1 DEF Matched, OpenNumbers, OpenUntil, Answered, Answers, IsEndIO, IsInterrupt, responses
<1>2. CASE ReadStep
  <2>1. pc \in Reading /\ n' = n /\ UNCHANGED responses
    BY <1>2 DEF ReadStep, Start, Fail, readTrace, readTraceDone, readVectorTable,
           readVectorTableDone, OpenOutput, Reading, simulation,
           TraceNotOpened, VectorsNotOpened, OutputNotOpened
  <2>2. n = 1 /\ n' = 1
    BY <2>1 DEF Where
  <2>3. (n = 1 => OpenNumbers = {} /\ Cardinality(Answered) = 0)'
    BY NothingOpen, PTL
  <2>4. OpenNumbers = {} /\ Cardinality(Answered) = 0
    BY <2>2, NothingOpen
  <2>. QED
    BY <2>1, <2>2, <2>3, <2>4 DEF Matched, responses
<1>3. CASE CPU \/ PassOver
  <2>1. /\ n' = n + 1 /\ trace' = trace /\ UNCHANGED responses
        /\ trace[n].type # "SYSCALL" /\ ~IsEndIO(n)
    BY <1>3 DEF CPU, PassOver, AtActivity, activity, IsEndIO, reading, simulation
  <2>2. OpenNumbers' = OpenNumbers
    BY <2>1, NextOpen
  <2>3. Cardinality(Answered') = Cardinality(Answered)
    BY <2>1, NextAnswered, AnsweredFinite
  <2>. QED
    BY <2>1, <2>2, <2>3 DEF Matched, responses
<1>4. ASSUME NEW iretTime \in contextDist, ReturnFromSyscall(iretTime) PROVE Matched'
  <2>1. /\ n' = n + 1 /\ trace' = trace /\ ioResponseTimes' = ioResponseTimes /\ pc = "iret"
        /\ DOMAIN syscallStartTimes' = DOMAIN syscallStartTimes \cup {trace[n].number}
    BY <1>4 DEF ReturnFromSyscall, ToNextActivity, reading, activity
  <2>2. trace[n].type = "SYSCALL" /\ ~IsEndIO(n)
    BY <2>1 DEF Where, InSyscall, IsEndIO
  <2>3. OpenNumbers' = OpenNumbers \cup {trace[n].number}
    BY <2>1, <2>2, NextOpen
  <2>4. Cardinality(Answered') = Cardinality(Answered)
    BY <2>1, <2>2, NextAnswered, AnsweredFinite
  <2>. QED
    BY <2>1, <2>3, <2>4 DEF Matched
<1>5. ASSUME NEW iretTime \in contextDist, ReturnFromEndIO(iretTime) PROVE Matched'
  <2>1. n' = n + 1 /\ trace' = trace /\ pc = "end_iret"
    BY <1>5 DEF ReturnFromEndIO, ToNextActivity, reading
  <2>2. trace[n].type # "SYSCALL" /\ IsEndIO(n)
    BY <2>1 DEF Where, InEndIO, IsEndIO
  <2>3. OpenNumbers' = OpenNumbers \ {trace[n].number}
    BY <2>1, <2>2, NextOpen
  <2>4. CASE Answer(trace[n].number)
    <3>1. /\ trace[n].number \in DOMAIN syscallStartTimes
          /\ DOMAIN syscallStartTimes' = DOMAIN syscallStartTimes \ {trace[n].number}
      BY <2>4 DEF Answer, Open
    <3>2. Len(ioResponseTimes') = Len(ioResponseTimes) + 1
      <4>1. PICK r : ioResponseTimes' = Append(ioResponseTimes, r) /\ r \in Int
        <5>1. currentTime' \in Int
          BY <1>5, StepType DEF TypeOK
        <5>2. syscallStartTimes[trace[n].number] \in Int
          BY <3>1 DEF TypeOK
        <5>. QED
          BY <2>4, <5>1, <5>2 DEF Answer
      <4>2. ioResponseTimes \in Seq(Int)
        BY DEF TypeOK
      <4>. QED
        BY <4>1, <4>2, AppendProperties
    <3>3. Cardinality(Answered') = Cardinality(Answered) + 1
      BY <2>1, <2>2, <3>1, NextAnswered DEF Matched
    <3>. QED
      BY <2>3, <3>1, <3>2, <3>3 DEF Matched
  <2>5. CASE ~Open(trace[n].number) /\ UNCHANGED responses
    <3>1. trace[n].number \notin OpenNumbers
      BY <2>5 DEF Matched, Open
    <3>2. OpenNumbers' = OpenNumbers
      BY <2>3, <3>1
    <3>3. Cardinality(Answered') = Cardinality(Answered)
      BY <2>1, <3>1, NextAnswered, AnsweredFinite
    <3>. QED
      BY <2>5, <3>2, <3>3 DEF Matched, responses
  <2>. QED
    BY <1>5, <2>4, <2>5 DEF ReturnFromEndIO, activity
<1>6. \/ UNCHANGED <<n, trace, responses>> \/ ReadStep \/ CPU \/ PassOver \/ ReturnStep
  BY Steps DEF PlainStep, Throw, Crash, WriteMetrics, vars, EnterStep, CheckPriority, CheckMask,
       EnterSyscall, EnterEndIO, SwitchToKernel, FindVector, LoadAddress, HandleStep, RunISR,
       TransferData, CheckErrors, HandleEndIO, Step, reading, simulation
<1>. QED
  BY <1>1, <1>2, <1>3, <1>4, <1>5, <1>6 DEF ReturnStep

-----------------------------------------------------------------------------
(***************************************************************************)
(* The vectors.  As long as every line is an address, vector k is on line  *)
(* k; afterwards the table is shorter than the file.                       *)
(***************************************************************************)
AllAddresses(k) == \A l \in 1 .. k : input.vector_file[l] \in Addresses

VectorsUpTo(r) ==
  /\ Len(vectorTable) <= r
  /\ AllAddresses(r) => Len(vectorTable) = r
  /\ \A k \in 1 .. r : AllAddresses(k) =>
       k <= Len(vectorTable) /\ vectorTable[k] = input.vector_file[k].isr_address

Simulating ==
  {"output", "next", "mask", "switch", "find", "load", "run", "transfer", "check", "iret",
   "end_io", "end_iret"}

Vectors ==
  /\ pc \in {"main", "trace"} => vectorTable = <<>>
  /\ pc = "vectors" => i <= Len(input.vector_file) + 1 /\ VectorsUpTo(i - 1)
  /\ pc \in Simulating => VectorsUpTo(Len(input.vector_file))

LEMMA VectorFileType ==
  ASSUME TypeOK
  PROVE  /\ Len(input.vector_file) \in Nat /\ Len(vectorTable) \in Nat
         /\ \A k \in 1 .. Len(input.vector_file) : input.vector_file[k] \in Addresses \cup Unreadable
<1>1. input.vector_file \in Seq(Addresses \cup Unreadable) /\ vectorTable \in Seq(Int)
  BY DEF TypeOK, Readable
<1>. QED
  BY <1>1, LenProperties, ElementOfSeq

LEMMA NoAddress == ASSUME NEW l \in Unreadable PROVE l \notin Addresses
<1>1. DOMAIN l = {"type"}
  BY DEF Unreadable
<1>2. \A a \in Addresses : DOMAIN a = {"isr_address"}
  BY DEF Addresses
<1>. QED
  BY <1>1, <1>2

LEMMA VectorRead ==
  ASSUME TypeOK, Vectors, readVectorTable
  PROVE  i' <= Len(input.vector_file) + 1 /\ VectorsUpTo(i - 1)'
<1>1. /\ pc = "vectors" /\ i <= Len(input.vector_file) /\ i' = i + 1 /\ input' = input
      /\ i \in Nat /\ i >= 1
  BY DEF readVectorTable, TypeOK
<1>2. Len(input.vector_file) \in Nat /\ Len(vectorTable) \in Nat /\ vectorTable \in Seq(Int)
  BY VectorFileType DEF TypeOK
<1>3. /\ Len(vectorTable) <= i - 1
      /\ AllAddresses(i - 1) => Len(vectorTable) = i - 1
      /\ \A k \in 1 .. i - 1 : AllAddresses(k) =>
           k <= Len(vectorTable) /\ vectorTable[k] = input.vector_file[k].isr_address
  BY <1>1 DEF Vectors, VectorsUpTo
<1>4. AllAddresses(i) <=> AllAddresses(i - 1) /\ input.vector_file[i] \in Addresses
  <2>1. 1 .. i = (1 .. i - 1) \cup {i}
    BY <1>1
  <2>. QED
    BY <2>1 DEF AllAddresses
<1>5. \A k \in 1 .. i : k \in 1 .. i - 1 \/ k = i
  BY <1>1
<1>6. \A k : AllAddresses(k)' <=> AllAddresses(k)
  BY <1>1 DEF AllAddresses
<1>7. CASE /\ input.vector_file[i] \in Addresses
           /\ vectorTable' = Append(vectorTable, input.vector_file[i].isr_address)
  <2>1. input.vector_file[i].isr_address \in Int
    BY <1>7 DEF Addresses
  <2>2. /\ Len(vectorTable') = Len(vectorTable) + 1
        /\ \A k \in 1 .. Len(vectorTable) : vectorTable'[k] = vectorTable[k]
        /\ vectorTable'[Len(vectorTable) + 1] = input.vector_file[i].isr_address
    BY <1>2, <1>7, <2>1, AppendProperties
  <2>3. Len(vectorTable') <= i
    BY <1>1, <1>2, <1>3, <2>2
  <2>4. AllAddresses(i) => Len(vectorTable') = i
    BY <1>1, <1>3, <1>4, <2>2
  <2>5. ASSUME NEW k \in 1 .. i, AllAddresses(k)
        PROVE  k <= Len(vectorTable') /\ vectorTable'[k] = input.vector_file[k].isr_address
    <3>1. CASE k \in 1 .. i - 1
      <4>1. k <= Len(vectorTable) /\ vectorTable[k] = input.vector_file[k].isr_address
        BY <1>3, <2>5, <3>1
      <4>2. k \in 1 .. Len(vectorTable)
        BY <1>2, <3>1, <4>1
      <4>. QED
        BY <1>2, <2>2, <4>1, <4>2
    <3>2. CASE k = i
      BY <1>1, <1>2, <1>3, <1>4, <2>2, <2>5, <3>2
    <3>. QED
      BY <1>5, <3>1, <3>2
  <2>6. i' - 1 = i
    BY <1>1
  <2>. QED
    BY <1>1, <1>2, <1>6, <2>3, <2>4, <2>5, <2>6 DEF VectorsUpTo
<1>8. CASE input.vector_file[i] \in Unreadable /\ vectorTable' = vectorTable
  <2>1. ~AllAddresses(i)
    BY <1>4, <1>8, NoAddress
  <2>2. Len(vectorTable) <= i
    BY <1>1, <1>2, <1>3
  <2>3. \A k \in 1 .. i : AllAddresses(k) =>
          k <= Len(vectorTable) /\ vectorTable[k] = input.vector_file[k].isr_address
    BY <1>3, <1>5, <2>1
  <2>4. i' - 1 = i
    BY <1>1
  <2>. QED
    BY <1>1, <1>2, <1>6, <1>8, <2>1, <2>2, <2>3, <2>4 DEF VectorsUpTo
<1>. QED
  BY <1>7, <1>8 DEF readVectorTable

LEMMA VectorsStep == ASSUME TypeOK, Vectors, [Next]_vars PROVE Vectors'
<1>1. CASE readVectorTable
  <2>1. pc' = "vectors" /\ input' = input
    BY <1>1 DEF readVectorTable
  <2>. QED
    BY <1>1, <2>1, VectorRead DEF Vectors, Simulating
<1>2. CASE readVectorTableDone
  <2>1. /\ pc = "vectors" /\ i > Len(input.vector_file) /\ pc' \in {"error", "output"}
        /\ UNCHANGED <<input, vectorTable>>
    BY <1>2 DEF readVectorTableDone, reading
  <2>2. i - 1 = Len(input.vector_file)
    BY <2>1, VectorFileType DEF Vectors, TypeOK
  <2>3. VectorsUpTo(Len(input.vector_file))
    BY <2>1, <2>2 DEF Vectors
  <2>. QED
    BY <2>1, <2>3 DEF Vectors, VectorsUpTo, AllAddresses
<1>3. CASE readTraceDone
  <2>1. vectorTable = <<>> /\ pc' = "vectors" /\ i' = 1 /\ UNCHANGED <<input, vectorTable>>
    BY <1>3 DEF readTraceDone, Vectors
  <2>2. Len(input.vector_file) \in Nat /\ Len(vectorTable) = 0
    BY <2>1, VectorFileType, EmptySeq
  <2>3. i' - 1 = 0 /\ i' <= Len(input.vector_file) + 1 /\ 1 .. 0 = {}
    BY <2>1, <2>2
  <2>. QED
    BY <2>1, <2>2, <2>3 DEF Vectors, VectorsUpTo, Simulating
<1>4. CASE Start \/ readTrace \/ Fail
  <2>1. /\ UNCHANGED <<input, vectorTable>>
        /\ \/ pc' \in {"trace", "error"} /\ pc \in {"main", "trace"}
           \/ pc' = "error"
    BY <1>4 DEF Start, readTrace, Fail, reading
  <2>. QED
    BY <2>1 DEF Vectors, Simulating
<1>5. CASE UNCHANGED vars
  BY <1>5 DEF vars, reading, Vectors, VectorsUpTo, AllAddresses
<1>6. ASSUME ~ReadStep \/ OpenOutput, ~UNCHANGED vars, ReadStep => OpenOutput PROVE Vectors'
  <2>1. UNCHANGED <<input, vectorTable>>
    BY <1>6, Steps DEF OpenOutput, PlainStep, PassOver, Throw, Crash, WriteMetrics, CPU,
         EnterStep, CheckPriority, CheckMask, EnterSyscall, EnterEndIO, SwitchToKernel, FindVector,
         LoadAddress, HandleStep, RunISR, TransferData, CheckErrors, HandleEndIO, Step, ReturnStep,
         ReturnFromSyscall, ReturnFromEndIO, ToNextActivity, reading
  <2>2. /\ pc' \notin {"main", "trace", "vectors"}
        /\ pc' \in Simulating => pc \in Simulating
    BY <1>6, Steps DEF OpenOutput, PlainStep, PassOver, Throw, Crash, WriteMetrics, CPU, AtActivity,
         EnterStep, CheckPriority, CheckMask, EnterSyscall, EnterEndIO, SwitchToKernel, FindVector,
         LoadAddress, HandleStep, RunISR, TransferData, CheckErrors, HandleEndIO, Step, ReturnStep,
         ReturnFromSyscall, ReturnFromEndIO, ToNextActivity, Simulating
  <2>. QED
    BY <2>1, <2>2 DEF Vectors, VectorsUpTo, AllAddresses
<1>. QED
  BY <1>1, <1>2, <1>3, <1>4, <1>5, <1>6 DEF ReadStep

LEMMA LoadedStep ==
  ASSUME TypeOK, Where, Vectors, LoadsListedVector, [Next]_vars
  PROVE  LoadsListedVector'
<1>1. CASE LoadAddress
  <2> DEFINE line == trace[n].number + 1
  <2>1. /\ pc = "load" /\ UNCHANGED <<input, n, trace>>
        /\ isr_address' \in ISRAddress(trace[n].number)
    BY <1>1 DEF LoadAddress, reading, activity
  <2>2. trace[n].number \in Int
    BY <2>1, AtHand DEF Where, InEither, IsInterrupt, activity
  <2>3. ASSUME line \in 1 .. Len(input.vector_file), AllAddresses(line)
        PROVE  isr_address' = input.vector_file[line].isr_address
    <3>1. line <= Len(vectorTable) /\ vectorTable[line] = input.vector_file[line].isr_address
      BY <2>1, <2>3 DEF Vectors, Simulating, VectorsUpTo
    <3>2. Listed(trace[n].number)
      BY <2>2, <2>3, <3>1, VectorFileType DEF Listed
    <3>. QED
      BY <2>1, <3>1, <3>2 DEF ISRAddress
  <2>. QED
    BY <2>1, <2>3 DEF LoadsListedVector, AllAddresses, activity
<1>2. CASE UNCHANGED vars
  BY <1>2 DEF vars, reading, simulation, LoadsListedVector, activity
<1>3. ASSUME ~LoadAddress, ~UNCHANGED vars PROVE pc' \notin {"run", "end_io"}
  BY <1>3, Steps DEF ReadStep, Start, Fail, readTrace, readTraceDone, readVectorTable,
       readVectorTableDone, OpenOutput, PlainStep, PassOver, Throw, Crash, WriteMetrics, CPU, AtActivity,
       EnterStep, CheckPriority, CheckMask, EnterSyscall, EnterEndIO, SwitchToKernel, FindVector,
       HandleStep, RunISR, TransferData, CheckErrors, HandleEndIO, Step, ReturnStep,
       ReturnFromSyscall, ReturnFromEndIO, ToNextActivity
<1>. QED
  BY <1>1, <1>2, <1>3 DEF LoadsListedVector

-----------------------------------------------------------------------------
(***************************************************************************)
(* The clock.                                                              *)
(***************************************************************************)
LEMMA QuotientBounds ==
  ASSUME NEW a \in Int, a >= 0
  PROVE  Quotient(2 * a, 5) >= 0 /\ 2 * Quotient(2 * a, 5) <= a
<1>1. 2 * a \in Int /\ 2 * a >= 0
  OBVIOUS
<1>2. Quotient(2 * a, 5) = (2 * a) \div 5
  BY <1>1 DEF Quotient
<1>3. ((2 * a) \div 5) \in Int /\ 5 * ((2 * a) \div 5) <= 2 * a /\ 2 * a < 5 * ((2 * a) \div 5) + 5
  BY <1>1
<1>. QED
  BY <1>2, <1>3

LEMMA ForwardStep ==
  ASSUME TypeOK, Where, Switched, LongEnough, [Next]_vars
  PROVE  currentTime' >= currentTime
<1>0. currentTime \in Int /\ contextSwitchTime \in Int
      /\ input.min_context_time \in Int /\ input.max_context_time \in Int
      /\ input.min_context_time >= 0
  BY DEF TypeOK, Readable, LongEnough
<1>1. \A time \in contextDist :
        time \in Int /\ time >= 0 /\ time <= input.max_context_time
  BY <1>0 DEF contextDist
<1>2. ASSUME n <= Len(trace)
      PROVE  /\ activity.duration \in Int
             /\ activity.type = "CPU" => activity.duration >= 0
             /\ activity.type = "SYSCALL" => activity.duration >= 2 + input.max_context_time
             /\ activity.type = "END_IO" => activity.duration >= 4 + input.max_context_time
  <2>1. n \in DOMAIN trace
    BY <1>2, AtHand, LenProperties DEF TypeOK
  <2>. QED
    BY <1>2, <2>1, AtHand DEF LongEnough, activity
<1>3. CASE ReadStep \/ PlainStep
  BY <1>0, <1>3 DEF ReadStep, Start, Fail, readTrace, readTraceDone, readVectorTable,
       readVectorTableDone, OpenOutput, PlainStep, PassOver, Throw, Crash, WriteMetrics, vars,
       simulation
<1>4. CASE CPU
  <2>1. n <= Len(trace) /\ activity.type = "CPU" /\ currentTime' = currentTime + activity.duration
    BY <1>4 DEF CPU, AtActivity, Spend
  <2>2. activity.duration \in Int /\ activity.duration >= 0
    BY <1>2, <2>1
  <2>. QED
    BY <1>0, <2>1, <2>2
<1>5. CASE EnterStep
  <2>1. \/ currentTime' = currentTime + 1
        \/ \E time \in contextDist : currentTime' = currentTime + time
    BY <1>5 DEF EnterStep, CheckPriority, CheckMask, EnterSyscall, EnterEndIO, SwitchToKernel,
           FindVector, LoadAddress, Spend
  <2>. QED
    BY <1>0, <1>1, <2>1
<1>6. CASE HandleStep
  <2>1. /\ n <= Len(trace) /\ contextSwitchTime <= input.max_context_time
        /\ pc \in InSyscall => activity.type = "SYSCALL"
        /\ pc = "end_io" => activity.type = "END_IO"
        /\ pc \in InSyscall \cup {"end_io"}
    <3>1. pc \in InSyscall \cup {"end_io"}
      BY <1>6 DEF HandleStep, RunISR, TransferData, CheckErrors, HandleEndIO, Step, InSyscall
    <3>2. contextSwitchTime \in contextDist
      BY <3>1 DEF Switched
    <3>. QED
      BY <1>1, <3>1, <3>2 DEF Where, InEndIO, activity
  <2>2. CASE RunISR \/ TransferData \/ CheckErrors
    <3>1. pc \in InSyscall
      BY <2>2 DEF RunISR, TransferData, CheckErrors, Step, InSyscall
    <3>2. totalIsrTime \in Int /\ totalIsrTime >= 0
      <4>1. activity.duration \in Int /\ activity.duration >= 2 + input.max_context_time
        BY <1>2, <2>1, <3>1
      <4>. QED
        BY <1>0, <2>1, <4>1 DEF totalIsrTime
    <3>. HIDE DEF totalIsrTime
    <3> DEFINE q == Quotient(2 * totalIsrTime, 5)
    <3>3. q \in Int /\ q >= 0 /\ 2 * q <= totalIsrTime
      <4>1. 2 * totalIsrTime \in Int
        BY <3>2
      <4>. QED
        BY <3>2, <4>1, QuotientType, QuotientBounds
    <3>4. runIsrTime = q /\ transferDataTime = q
      <4>1. totalIsrTime * 2 = 2 * totalIsrTime
        BY <3>2
      <4>. QED
        BY <4>1 DEF runIsrTime, transferDataTime
    <3>. HIDE DEF q
    <3>5. checkErrorsTime = totalIsrTime - q - q
      BY <3>4 DEF checkErrorsTime
    <3>6. currentTime' \in {currentTime + q, currentTime + (totalIsrTime - q - q)}
      BY <2>2, <3>4, <3>5 DEF RunISR, TransferData, CheckErrors, Spend
    <3>. QED
      BY <1>0, <3>2, <3>3, <3>6
  <2>3. CASE HandleEndIO
    <3>1. pc = "end_io" /\ currentTime' = currentTime + ioHandlingTime
      BY <2>3 DEF HandleEndIO, Step, Spend
    <3>2. activity.duration \in Int /\ activity.duration >= 4 + input.max_context_time
      BY <1>2, <2>1, <3>1
    <3>3. ioHandlingTime \in Int /\ ioHandlingTime >= 0
      BY <1>0, <2>1, <3>2 DEF ioHandlingTime
    <3>. QED
      BY <1>0, <3>1, <3>3
  <2>. QED
    BY <1>6, <2>2, <2>3 DEF HandleStep
<1>7. CASE ReturnStep
  <2>1. PICK iretTime \in contextDist : currentTime' = currentTime + iretTime
    BY <1>7 DEF ReturnStep, ReturnFromSyscall, ReturnFromEndIO, Spend
  <2>. QED
    BY <1>0, <1>1, <2>1
<1>. QED
  BY <1>3, <1>4, <1>5, <1>6, <1>7, Steps

-----------------------------------------------------------------------------
(***************************************************************************)
(* What the activities take.                                               *)
(***************************************************************************)
LEMMA TimeOfType == ASSUME TypeOK PROVE \A k \in 1 .. Len(trace) : timeOf(k) \in Int
  BY TraceType, ActivityType DEF timeOf

(* The sum that timeUpTo stands for exists.                                *)
LEMMA TimeUpToExists ==
  ASSUME TypeOK
  PROVE  \E f : f = [k \in 0 .. Len(trace) |-> IF k = 0 THEN 0 ELSE f[k - 1] + timeOf(k)]
<1> DEFINE Sums(f, m) == f[0] = 0 /\ \A k \in 1 .. m : f[k] = f[k - 1] + timeOf(k)
           T == {m \in 0 .. Len(trace) : \E f \in [0 .. m -> Int] : Sums(f, m)}
<1>1. Len(trace) \in Nat
  BY TraceType
<1>2. 0 \in T
  <2>1. [k \in 0 .. 0 |-> 0] \in [0 .. 0 -> Int] /\ Sums([k \in 0 .. 0 |-> 0], 0)
    OBVIOUS
  <2>2. 0 \in 0 .. Len(trace)
    BY <1>1
  <2>. HIDE DEF Sums
  <2>. QED
    BY <2>1, <2>2
<1>3. ASSUME NEW m \in 0 .. Len(trace) - 1, m \in T PROVE m + 1 \in T
  <2>1. PICK f \in [0 .. m -> Int] : Sums(f, m)
    BY <1>3
  <2> DEFINE g == [k \in 0 .. m + 1 |-> IF k = m + 1 THEN f[m] + timeOf(m + 1) ELSE f[k]]
  <2>2. m + 1 \in 1 .. Len(trace) /\ m \in Nat
    BY <1>1
  <2>3. f[m] + timeOf(m + 1) \in Int
    BY <2>2, TimeOfType
  <2>4. g \in [0 .. m + 1 -> Int]
    BY <2>2, <2>3
  <2>5. Sums(g, m + 1)
    <3>1. g[0] = 0
      BY <2>1, <2>2
    <3>2. ASSUME NEW k \in 1 .. m + 1 PROVE g[k] = g[k - 1] + timeOf(k)
      <4>1. CASE k = m + 1
        BY <2>2, <4>1
      <4>2. CASE k # m + 1
        <5>1. k \in 1 .. m /\ k - 1 \in 0 .. m + 1 /\ k - 1 # m + 1 /\ k \in 0 .. m + 1
          BY <2>2, <4>2
        <5>. QED
          BY <2>1, <4>2, <5>1
      <4>. QED
        BY <4>1, <4>2
    <3>. QED
      BY <3>1, <3>2
  <2>. HIDE DEF Sums
  <2>. QED
    BY <1>1, <2>2, <2>4, <2>5
<1>4. Len(trace) \in T
  <2>. HIDE DEF T
  <2>1. \A k \in 0 .. Len(trace) : k \in T
    BY <1>1, <1>2, <1>3, UpTo
  <2>. QED
    BY <1>1, <2>1
<1>5. PICK f \in [0 .. Len(trace) -> Int] : Sums(f, Len(trace))
  BY <1>4
<1>6. f = [k \in 0 .. Len(trace) |-> IF k = 0 THEN 0 ELSE f[k - 1] + timeOf(k)]
  BY <1>1, <1>5
<1>. QED
  BY <1>6

LEMMA TimeUpTo ==
  ASSUME TypeOK
  PROVE  /\ timeUpTo[0] = 0
         /\ \A k \in 1 .. Len(trace) : timeUpTo[k] = timeUpTo[k - 1] + timeOf(k)
         /\ \A k \in 0 .. Len(trace) : timeUpTo[k] \in Int
<1> DEFINE P(f) == f = [k \in 0 .. Len(trace) |-> IF k = 0 THEN 0 ELSE f[k - 1] + timeOf(k)]
<1>1. P(timeUpTo)
  <2>1. timeUpTo = CHOOSE f : P(f)
    BY DEF timeUpTo
  <2>2. \E f : P(f)
    BY TimeUpToExists
  <2>. HIDE DEF P
  <2>3. P(CHOOSE f : P(f))
    BY <2>2, Zenon
  <2>. QED
    BY <2>1, <2>3
<1>2. Len(trace) \in Nat
  BY TraceType
<1>3. /\ timeUpTo[0] = 0
      /\ \A k \in 1 .. Len(trace) : timeUpTo[k] = timeUpTo[k - 1] + timeOf(k)
  <2> DEFINE t == timeUpTo
  <2>. HIDE DEF t
  <2>1. t = [k \in 0 .. Len(trace) |-> IF k = 0 THEN 0 ELSE t[k - 1] + timeOf(k)]
    BY <1>1 DEF t
  <2>2. t[0] = 0 /\ \A k \in 1 .. Len(trace) : t[k] = t[k - 1] + timeOf(k)
    BY <1>2, <2>1
  <2>. QED
    BY <2>2 DEF t
<1>4. \A k \in 0 .. Len(trace) : timeUpTo[k] \in Int
  <2> DEFINE T == {k \in 0 .. Len(trace) : timeUpTo[k] \in Int}
  <2>1. 0 \in T
    BY <1>2, <1>3
  <2>2. ASSUME NEW k \in 0 .. Len(trace) - 1, k \in T PROVE k + 1 \in T
    <3>1. k + 1 \in 1 .. Len(trace) /\ (k + 1) - 1 = k
      BY <1>2
    <3>2. timeUpTo[k + 1] = timeUpTo[k] + timeOf(k + 1)
      BY <1>3, <3>1
    <3>. QED
      BY <1>2, <2>2, <3>1, <3>2, TimeOfType
  <2>3. \A k \in 0 .. Len(trace) : k \in T
    <3>. HIDE DEF T
    <3>. QED
      BY <1>2, <2>1, <2>2, UpTo
  <2>. QED
    BY <2>3
<1>. QED
  BY <1>3, <1>4

Returns(j, k) == Cardinality({l \in j + 1 .. k : IsInterrupt(l)})

LEMMA ReturnsNext ==
  ASSUME TypeOK, n <= Len(trace), NEW j \in 0 .. n - 1
  PROVE  /\ Returns(j, n - 1) \in Nat /\ Returns(j, n) \in Nat
         /\ Returns(j, n) = Returns(j, n - 1) + (IF IsInterrupt(n) THEN 1 ELSE 0)
<1>1. n \in Nat /\ n >= 1 /\ j \in Int /\ n - 1 \in Int
  BY TraceType DEF TypeOK
<1> DEFINE I == {l \in j + 1 .. n - 1 : IsInterrupt(l)}
<1>2. IsFiniteSet(I) /\ Cardinality(I) \in Nat
  <2>1. IsFiniteSet(j + 1 .. n - 1)
    BY <1>1, FS_Interval
  <2>. QED
    BY <2>1, FS_Subset, FS_CardinalityType
<1>3. j + 1 .. n = (j + 1 .. n - 1) \cup {n} /\ n \notin j + 1 .. n - 1
  BY <1>1
<1>4. {l \in j + 1 .. n : IsInterrupt(l)} = IF IsInterrupt(n) THEN I \cup {n} ELSE I
  BY <1>3
<1>5. n \notin I
  BY <1>3
<1>6. Returns(j, n - 1) = Cardinality(I)
      /\ Returns(j, n) = Cardinality(IF IsInterrupt(n) THEN I \cup {n} ELSE I)
  BY <1>4 DEF Returns
<1>. HIDE DEF I
<1>7. Cardinality(I \cup {n}) = Cardinality(I) + 1
  BY <1>2, <1>5, FS_AddElement
<1>. QED
  BY <1>2, <1>6, <1>7

LEMMA TakesNone == ASSUME TypeOK, NEW j \in 0 .. Len(trace) PROVE Takes(j, j) = {0}
<1>1. Len(trace) \in Nat /\ j \in Int
  BY TraceType
<1>2. timeUpTo[j] - timeUpTo[j] = 0
  BY TimeUpTo
<1>3. {l \in j + 1 .. j : IsInterrupt(l)} = {}
  BY <1>1
<1>4. Cardinality({l \in j + 1 .. j : IsInterrupt(l)}) = 0
  BY <1>3, FS_EmptySet
<1>5. input.min_context_time \in Int /\ input.max_context_time \in Int
  BY DEF TypeOK, Readable
<1>6. Takes(j, j) = 0 + 0 * input.min_context_time .. 0 + 0 * input.max_context_time
  BY <1>2, <1>4 DEF Takes
<1>7. 0 * input.min_context_time = 0 /\ 0 * input.max_context_time = 0
  BY <1>5
<1>8. Takes(j, j) = 0 .. 0
  BY <1>6, <1>7
<1>. QED
  BY <1>8

LEMMA NothingTakes == ASSUME TypeOK PROVE Takes(0, 0) = {0}
<1>1. 0 \in 0 .. Len(trace)
  BY TraceType
<1>. QED
  BY <1>1, TakesNone

LEMMA OneReturnMore ==
  ASSUME NEW r \in Int, NEW t \in Int
  PROVE  r * t \in Int /\ (r + 1) * t = r * t + t
<1>1. (r + 1) * t = r * t + t
  BY SMT
<1>. QED
  BY <1>1

(* An activity more.                                                       *)
LEMMA TakesNext ==
  ASSUME TypeOK, n <= Len(trace), NEW j \in 0 .. n - 1, NEW x \in Takes(j, n - 1),
         NEW iretTime \in IF IsInterrupt(n) THEN contextDist ELSE {0}
  PROVE  x + timeOf(n) + iretTime \in Takes(j, n)
<1>1. n \in 1 .. Len(trace) /\ n - 1 \in 0 .. Len(trace) /\ j \in 0 .. Len(trace) /\ n \in 0 .. Len(trace)
  BY TraceType DEF TypeOK
<1> DEFINE d == timeUpTo[n - 1] - timeUpTo[j]
           r == Returns(j, n - 1)
           lo == input.min_context_time
           hi == input.max_context_time
<1>2. d \in Int /\ timeOf(n) \in Int /\ timeUpTo[n] - timeUpTo[j] = d + timeOf(n)
  BY <1>1, TimeUpTo, TimeOfType
<1>3. r \in Int /\ Returns(j, n) = r + (IF IsInterrupt(n) THEN 1 ELSE 0)
  BY ReturnsNext
<1>4. lo \in Int /\ hi \in Int /\ (IsInterrupt(n) => iretTime \in lo .. hi)
      /\ (~IsInterrupt(n) => iretTime = 0)
  BY DEF TypeOK, Readable, contextDist
<1>5. Takes(j, n - 1) = d + r * lo .. d + r * hi
  BY DEF Takes, Returns
<1>6. Takes(j, n) = (timeUpTo[n] - timeUpTo[j]) + Returns(j, n) * lo
                    .. (timeUpTo[n] - timeUpTo[j]) + Returns(j, n) * hi
  BY DEF Takes, Returns
<1>. HIDE DEF d, r, lo, hi
<1>7. r * lo \in Int /\ r * hi \in Int
      /\ (r + 1) * lo = r * lo + lo /\ (r + 1) * hi = r * hi + hi
  BY <1>3, <1>4, OneReturnMore
<1> DEFINE a == r * lo
           b == r * hi
<1>8. x \in d + a .. d + b /\ a \in Int /\ b \in Int
  BY <1>5, <1>7
<1>9. CASE IsInterrupt(n)
  <2>1. Takes(j, n) = (d + timeOf(n)) + (a + lo) .. (d + timeOf(n)) + (b + hi)
    BY <1>2, <1>3, <1>6, <1>7, <1>9
  <2>. HIDE DEF a, b
  <2>. QED
    BY <1>2, <1>4, <1>8, <1>9, <2>1
<1>10. CASE ~IsInterrupt(n)
  <2>1. r + 0 = r
    BY <1>3
  <2>2. Takes(j, n) = (d + timeOf(n)) + a .. (d + timeOf(n)) + b
    BY <1>2, <1>3, <1>6, <1>10, <2>1
  <2>. HIDE DEF a, b
  <2>. QED
    BY <1>2, <1>4, <1>8, <1>10, <2>2
<1>. QED
  BY <1>9, <1>10

LEMMA TakesAlike ==
  ASSUME UNCHANGED <<trace, input>>
  PROVE  /\ \A j, k : Takes(j, k)' = Takes(j, k)
         /\ \A k, j : Answers(k, j)' <=> Answers(k, j)
         /\ \A j, k : OpenUntil(j, k)' <=> OpenUntil(j, k)
<1>1. \A k : timeOf(k)' = timeOf(k)
  BY DEF timeOf, IsInterrupt
<1>2. timeUpTo' = timeUpTo
  BY DEF timeUpTo, timeOf, IsInterrupt
<1>. QED
  BY <1>2 DEF Takes, Answers, OpenUntil, IsEndIO, IsInterrupt

(***************************************************************************)
(* The clock without what the activity at hand has spent of its own time.  *)
(***************************************************************************)
Spent ==
  IF pc = "mask" THEN 1
  ELSE IF pc = "switch" THEN 2
  ELSE IF pc = "find" THEN contextSwitchTime + Checked
  ELSE IF pc \in {"load", "crashed"} THEN contextSwitchTime + Checked + 1
  ELSE IF pc \in {"run", "end_io"} THEN contextSwitchTime + Checked + 2
  ELSE IF pc = "transfer" THEN contextSwitchTime + 2 + runIsrTime
  ELSE IF pc = "check" THEN contextSwitchTime + 2 + runIsrTime + transferDataTime
  ELSE IF pc \in {"iret", "end_iret"} THEN activity.duration
  ELSE 0

Reached == currentTime - Spent

Timed ==
  /\ Reached \in Takes(0, n - 1)
  /\ \A j \in Before(n) :
       OpenUntil(j, n) => Reached - syscallStartTimes[trace[j].number] \in Takes(j, n - 1)
  /\ \A k \in Answered : \A j \in Before(k) :
       Answers(k, j) => ioResponseTimes[Cardinality({l \in Answered : l <= k})] \in Takes(j, k)

LEMMA SpentType == ASSUME TypeOK, Where PROVE Spent \in Int /\ Reached \in Int
<1>1. contextSwitchTime \in Int /\ Checked \in Int /\ currentTime \in Int
  BY DEF TypeOK, Checked
<1>2. ASSUME pc \in InSyscall \cup InEndIO PROVE activity.duration \in Int
  BY <1>2, AtHand DEF Where
<1>3. ASSUME pc \in InSyscall PROVE runIsrTime \in Int /\ transferDataTime \in Int
  BY <1>2, <1>3, PartsType
<1>. HIDE DEF Checked
<1>4. Spent \in Int
  BY <1>1, <1>2, <1>3 DEF Spent, InSyscall, InEndIO
<1>. QED
  BY <1>1, <1>4 DEF Reached

(* What a step within an activity takes is its own.                        *)
LEMMA ReachedEnter == ASSUME TypeOK, Where, EnterStep PROVE Reached' = Reached
<1>1. UNCHANGED <<n, trace>>
  BY DEF EnterStep, CheckPriority, CheckMask, EnterSyscall, EnterEndIO, SwitchToKernel,
         FindVector, LoadAddress, Step, reading
<1>2. currentTime \in Int /\ Spent \in Int /\ contextSwitchTime \in Int
  BY SpentType DEF TypeOK
<1>3. IsEndIO(n)' <=> IsEndIO(n)
  BY <1>1 DEF IsEndIO
<1>4. SUFFICES \E d \in Int : currentTime' = currentTime + d /\ Spent' = Spent + d
  BY <1>2 DEF Reached
<1>5. CASE CheckPriority \/ CheckMask
  <2>1. currentTime' = currentTime + 1
    BY <1>5 DEF CheckPriority, CheckMask, Spend
  <2>2. \/ pc = "next" /\ pc' = "mask"
        \/ pc = "mask" /\ pc' = "switch"
    BY <1>5 DEF CheckPriority, CheckMask, Step
  <2>. QED
    BY <2>1, <2>2 DEF Spent
<1>6. ASSUME NEW checks, SwitchToKernel(checks)
      PROVE  \E time \in Int : currentTime' = currentTime + time /\ contextSwitchTime' = time
  BY <1>6, TimeType DEF SwitchToKernel, Spend
<1>7. CASE EnterSyscall
  <2>1. PICK time \in Int : currentTime' = currentTime + time /\ contextSwitchTime' = time
    BY <1>6, <1>7 DEF EnterSyscall
  <2>2. pc = "next" /\ pc' = "find" /\ ~IsEndIO(n)
    BY <1>7 DEF EnterSyscall, AtActivity, SwitchToKernel, activity, IsEndIO
  <2>3. Checked' = 0 /\ Spent = 0
    BY <1>1, <1>3, <2>2 DEF Checked, Spent
  <2>4. Spent' = time + 0
    BY <2>1, <2>2, <2>3 DEF Spent
  <2>. QED
    BY <2>1, <2>3, <2>4
<1>8. CASE EnterEndIO
  <2>1. PICK time \in Int : currentTime' = currentTime + time /\ contextSwitchTime' = time
    BY <1>6, <1>8 DEF EnterEndIO
  <2>2. pc = "switch" /\ pc' = "find"
    BY <1>8 DEF EnterEndIO, SwitchToKernel
  <2>3. IsEndIO(n)
    BY <2>2 DEF Where, InEndIO, IsEndIO
  <2>4. Checked' = 2 /\ Spent = 2
    BY <1>1, <1>3, <2>2, <2>3 DEF Checked, Spent
  <2>5. Spent' = time + 2
    BY <2>1, <2>2, <2>4 DEF Spent
  <2>. QED
    BY <2>1, <2>4, <2>5
<1>9. CASE FindVector
  <2>1. currentTime' = currentTime + 1 /\ pc = "find" /\ pc' = "load"
        /\ contextSwitchTime' = contextSwitchTime
    BY <1>9 DEF FindVector, Step, Spend, locals
  <2>2. Checked' = Checked /\ Checked \in Int
    BY <1>1, <1>3, <2>1 DEF Checked
  <2>3. Spent' = contextSwitchTime + Checked + 1 /\ Spent = contextSwitchTime + Checked
    BY <2>1, <2>2 DEF Spent
  <2>. QED
    BY <1>2, <2>1, <2>2, <2>3
<1>10. CASE LoadAddress
  <2>1. /\ currentTime' = currentTime + 1 /\ contextSwitchTime' = contextSwitchTime
        /\ pc = "load" /\ pc' = IF trace[n].type = "SYSCALL" THEN "run" ELSE "end_io"
    BY <1>10 DEF LoadAddress, Spend, locals, activity
  <2>2. IsInterrupt(n)
    BY <2>1 DEF Where, InEither
  <2>3. Checked' = Checked /\ Checked \in Int
    BY <1>1, <1>3, <2>1, <2>2 DEF Checked, IsEndIO, IsInterrupt
  <2>4. Spent' = contextSwitchTime + Checked + 2 /\ Spent = contextSwitchTime + Checked + 1
    BY <2>1, <2>3 DEF Spent
  <2>. QED
    BY <1>2, <2>1, <2>3, <2>4
<1>. QED
  BY <1>5, <1>7, <1>8, <1>9, <1>10 DEF EnterStep

LEMMA ReachedHandle == ASSUME TypeOK, Where, HandleStep PROVE Reached' = Reached
<1>1. UNCHANGED <<n, trace, contextSwitchTime>>
  BY DEF HandleStep, RunISR, TransferData, CheckErrors, HandleEndIO, Step, reading, locals
<1>2. currentTime \in Int /\ Spent \in Int /\ contextSwitchTime \in Int
  BY SpentType DEF TypeOK
<1>3. pc \in InSyscall \cup InEndIO
  BY DEF HandleStep, RunISR, TransferData, CheckErrors, HandleEndIO, Step, InSyscall, InEndIO
<1>4. activity.duration \in Int /\ activity'.duration = activity.duration
  BY <1>1, <1>3, AtHand DEF Where, activity
<1>5. /\ runIsrTime \in Int /\ transferDataTime \in Int
      /\ checkErrorsTime = activity.duration - 2 - contextSwitchTime - runIsrTime - transferDataTime
      /\ ioHandlingTime = activity.duration - 4 - contextSwitchTime
  BY <1>4, PartsType DEF checkErrorsTime, totalIsrTime, ioHandlingTime
<1>6. runIsrTime' = runIsrTime /\ transferDataTime' = transferDataTime
  BY <1>1 DEF totalIsrTime, runIsrTime, transferDataTime, activity
<1>. HIDE DEF runIsrTime, transferDataTime, checkErrorsTime, ioHandlingTime
<1>7. CASE RunISR
  <2>1. currentTime' = currentTime + runIsrTime /\ pc = "run" /\ pc' = "transfer"
    BY <1>7 DEF RunISR, Step, Spend
  <2>2. Checked = 0
    BY <2>1 DEF Checked
  <2>3. Spent' = contextSwitchTime + 2 + runIsrTime /\ Spent = contextSwitchTime + 2
    BY <1>1, <1>2, <1>6, <2>1, <2>2 DEF Spent
  <2>. QED
    BY <1>2, <1>5, <2>1, <2>3 DEF Reached
<1>8. CASE TransferData
  <2>1. currentTime' = currentTime + transferDataTime /\ pc = "transfer" /\ pc' = "check"
    BY <1>8 DEF TransferData, Step, Spend
  <2>2. Spent' = contextSwitchTime + 2 + runIsrTime + transferDataTime
        /\ Spent = contextSwitchTime + 2 + runIsrTime
    BY <1>1, <1>6, <2>1 DEF Spent
  <2>. QED
    BY <1>2, <1>5, <2>1, <2>2 DEF Reached
<1>9. CASE CheckErrors
  <2>1. currentTime' = currentTime + checkErrorsTime /\ pc = "check" /\ pc' = "iret"
    BY <1>9 DEF CheckErrors, Step, Spend
  <2>2. Spent' = activity.duration /\ Spent = contextSwitchTime + 2 + runIsrTime + transferDataTime
    BY <1>4, <2>1 DEF Spent
  <2>. QED
    BY <1>2, <1>4, <1>5, <2>1, <2>2 DEF Reached
<1>10. CASE HandleEndIO
  <2>1. currentTime' = currentTime + ioHandlingTime /\ pc = "end_io" /\ pc' = "end_iret"
    BY <1>10 DEF HandleEndIO, Step, Spend
  <2>2. Checked = 2
    BY <2>1 DEF Checked, Where, InEndIO, IsEndIO
  <2>3. Spent' = activity.duration /\ Spent = contextSwitchTime + 2 + 2
    BY <1>4, <2>1, <2>2 DEF Spent
  <2>. QED
    BY <1>2, <1>4, <1>5, <2>1, <2>3 DEF Reached
<1>. QED
  BY <1>7, <1>8, <1>9, <1>10 DEF HandleStep

(* A step to the next activity: the time of this one has passed, and the   *)
(* return from an interrupt.                                               *)
LEMMA ReachedNext ==
  ASSUME TypeOK, Where, CPU \/ PassOver \/ ReturnStep
  PROVE  /\ n' = n + 1 /\ UNCHANGED <<trace, input>> /\ n <= Len(trace)
         /\ \E iretTime \in IF IsInterrupt(n) THEN contextDist ELSE {0} :
              Reached' = Reached + timeOf(n) + iretTime
<1>1. currentTime \in Int /\ Spent \in Int
  BY SpentType DEF TypeOK
<1>2. CASE CPU \/ PassOver
  <2>1. /\ n' = n + 1 /\ UNCHANGED <<trace, input>> /\ n <= Len(trace)
        /\ pc = "next" /\ pc' = "next" /\ trace[n].type \in {"CPU", "OTHER"}
    BY <1>2 DEF CPU, PassOver, AtActivity, activity, reading
  <2>2. ~IsInterrupt(n) /\ Spent = 0 /\ Spent' = 0
    BY <2>1 DEF IsInterrupt, Spent
  <2>3. timeOf(n) \in Int
    BY <2>1, AtHand, TimeOfType
  <2>4. currentTime' = currentTime + timeOf(n)
    <3>1. CASE CPU
      BY <3>1 DEF CPU, Spend, timeOf, AtActivity, activity
    <3>2. CASE PassOver
      <4>1. currentTime' = currentTime /\ timeOf(n) = 0
        BY <2>2, <3>2 DEF PassOver, timeOf, AtActivity, activity, simulation
      <4>. QED
        BY <1>1, <4>1
    <3>. QED
      BY <1>2, <3>1, <3>2
  <2>5. Reached' = Reached + timeOf(n) + 0
    BY <1>1, <2>2, <2>3, <2>4 DEF Reached
  <2>. QED
    BY <2>1, <2>2, <2>5
<1>3. CASE ReturnStep
  <2>1. PICK iretTime \in contextDist : ReturnFromSyscall(iretTime) \/ ReturnFromEndIO(iretTime)
    BY <1>3 DEF ReturnStep
  <2>2. /\ n' = n + 1 /\ UNCHANGED <<trace, input>> /\ currentTime' = currentTime + iretTime
        /\ pc \in {"iret", "end_iret"} /\ pc' = "next"
    BY <2>1 DEF ReturnFromSyscall, ReturnFromEndIO, ToNextActivity, Spend, reading
  <2>3. IsInterrupt(n) /\ n <= Len(trace)
    BY <2>2 DEF Where, InSyscall, InEndIO, IsInterrupt
  <2>4. Spent = timeOf(n) /\ Spent' = 0
    BY <2>2, <2>3 DEF Spent, timeOf, activity
  <2>5. iretTime \in Int
    BY TimeType
  <2>6. Reached' = Reached + timeOf(n) + iretTime
    BY <1>1, <2>2, <2>4, <2>5 DEF Reached
  <2>. QED
    BY <2>2, <2>3, <2>6
<1>. QED
  BY <1>2, <1>3

LEMMA BetweenReached == ASSUME TypeOK, Between PROVE Reached = currentTime
<1>1. Spent = 0 /\ currentTime \in Int
  BY DEF Between, Spent, TypeOK
<1>. QED
  BY <1>1 DEF Reached

LEMMA NothingTimed ==
  ASSUME n = 1, Takes(0, 0) = {0}, Reached = 0
  PROVE  Timed
<1>1. n - 1 = 0 /\ Before(n) = {}
  BY DEF Before
<1>2. Answered = {}
  BY <1>1 DEF Answered
<1>. QED
  BY <1>1, <1>2 DEF Timed

LEMMA TimedRead == ASSUME TypeOK, Where, Timed, ReadStep PROVE Timed'
<1>1. UNCHANGED <<n, currentTime>> /\ pc \in Reading /\ pc' \in Reading \cup {"next", "error"}
  BY DEF ReadStep, Start, Fail, readTrace, readTraceDone, readVectorTable,
         readVectorTableDone, OpenOutput, Reading, simulation,
         TraceNotOpened, VectorsNotOpened, OutputNotOpened
<1>2. n = 1 /\ n' = 1 /\ n - 1 = 0
  BY <1>1 DEF Where
<1>3. Takes(0, 0) = {0}
  BY NothingTakes
<1>4. Takes(0, 0)' = {0}
  <2>1. TypeOK'
    BY ReadType
  <2>2. (TypeOK => Takes(0, 0) = {0})'
    BY NothingTakes, PTL
  <2>. QED
    BY <2>1, <2>2
<1>5. Reached = 0
  BY <1>2, <1>3 DEF Timed
<1>6. Spent = 0 /\ Spent' = 0
  BY <1>1 DEF Reading, Spent
<1>7. Reached' = 0
  BY <1>1, <1>5, <1>6 DEF Reached
<1>8. (n = 1 /\ Takes(0, 0) = {0} /\ Reached = 0 => Timed)'
  BY NothingTimed, PTL
<1>. QED
  BY <1>2, <1>4, <1>7, <1>8

LEMMA TimedStays ==
  ASSUME Timed, UNCHANGED <<n, trace, input, responses>>, Reached' = Reached
  PROVE  Timed'
<1>1. /\ \A j, k : Takes(j, k)' = Takes(j, k)
      /\ \A k, j : Answers(k, j)' <=> Answers(k, j)
      /\ \A j, k : OpenUntil(j, k)' <=> OpenUntil(j, k)
  BY TakesAlike
<1>2. Answered' = Answered
  BY <1>1 DEF Answered, Before
<1>3. UNCHANGED <<n, trace, ioResponseTimes, syscallStartTimes>> /\ Before(n') = Before(n)
  BY DEF responses
<1>4. (Reached \in Takes(0, n - 1))'
  BY <1>1, <1>3 DEF Timed
<1>5. (\A j \in Before(n) :
         OpenUntil(j, n) => Reached - syscallStartTimes[trace[j].number] \in Takes(j, n - 1))'
  BY <1>1, <1>3 DEF Timed, Before
<1>6. (\A k \in Answered : \A j \in Before(k) :
         Answers(k, j) => ioResponseTimes[Cardinality({l \in Answered : l <= k})] \in Takes(j, k))'
  BY <1>1, <1>2, <1>3 DEF Timed, Before
<1>. QED
  BY <1>4, <1>5, <1>6 DEF Timed

(* What the next step does to the start times and the response times.      *)
LEMMA ResponsesNext ==
  ASSUME TypeOK, Where, Matched, CPU \/ PassOver \/ ReturnStep
  PROVE  /\ Reached' = currentTime'
         /\ \A number \in OpenNumbers :
              (IsInterrupt(n) => trace[n].number # number)
                => syscallStartTimes'[number] = syscallStartTimes[number]
         /\ trace[n].type = "SYSCALL" => syscallStartTimes'[trace[n].number] = currentTime'
         /\ IF IsEndIO(n) /\ trace[n].number \in OpenNumbers
            THEN ioResponseTimes' =
                   Append(ioResponseTimes, currentTime' - syscallStartTimes[trace[n].number])
            ELSE ioResponseTimes' = ioResponseTimes
<1>1. Reached' = currentTime'
  <2>1. TypeOK' /\ Between'
    BY StepType, CPUType, PlainType, ReturnType
       DEF CPU, PassOver, ReturnStep, ReturnFromSyscall, ReturnFromEndIO, ToNextActivity,
           PlainStep, AtActivity, Between
  <2>2. (TypeOK /\ Between => Reached = currentTime)'
    BY BetweenReached, PTL
  <2>. QED
    BY <2>1, <2>2
<1>2. DOMAIN syscallStartTimes = OpenNumbers
  BY DEF Matched
<1>3. CASE CPU \/ PassOver
  <2>1. UNCHANGED responses /\ trace[n].type \in {"CPU", "OTHER"}
    BY <1>3 DEF CPU, PassOver, AtActivity, activity, simulation
  <2>. QED
    BY <1>1, <2>1 DEF responses, IsEndIO
<1>4. ASSUME NEW iretTime \in contextDist, ReturnFromSyscall(iretTime)
      PROVE  /\ \A number \in OpenNumbers :
                  (IsInterrupt(n) => trace[n].number # number)
                    => syscallStartTimes'[number] = syscallStartTimes[number]
             /\ trace[n].type = "SYSCALL" /\ ioResponseTimes' = ioResponseTimes
             /\ syscallStartTimes'[trace[n].number] = currentTime'
  <2>1. /\ pc = "iret" /\ ioResponseTimes' = ioResponseTimes
        /\ syscallStartTimes' =
             [m \in DOMAIN syscallStartTimes \cup {trace[n].number} |->
                IF m = trace[n].number THEN currentTime' ELSE syscallStartTimes[m]]
    BY <1>4 DEF ReturnFromSyscall, activity
  <2>2. trace[n].type = "SYSCALL" /\ IsInterrupt(n)
    BY <2>1 DEF Where, InSyscall, IsInterrupt
  <2>. QED
    BY <1>2, <2>1, <2>2
<1>5. ASSUME NEW iretTime \in contextDist, ReturnFromEndIO(iretTime)
      PROVE  /\ \A number \in OpenNumbers :
                  (IsInterrupt(n) => trace[n].number # number)
                    => syscallStartTimes'[number] = syscallStartTimes[number]
             /\ trace[n].type = "END_IO"
             /\ IF trace[n].number \in OpenNumbers
                THEN ioResponseTimes' =
                       Append(ioResponseTimes, currentTime' - syscallStartTimes[trace[n].number])
                ELSE ioResponseTimes' = ioResponseTimes
  <2>1. pc = "end_iret"
    BY <1>5 DEF ReturnFromEndIO
  <2>2. trace[n].type = "END_IO" /\ IsInterrupt(n)
    BY <2>1 DEF Where, InEndIO, IsInterrupt
  <2>3. CASE Answer(trace[n].number)
    <3>1. /\ trace[n].number \in OpenNumbers
          /\ ioResponseTimes' =
               Append(ioResponseTimes, currentTime' - syscallStartTimes[trace[n].number])
          /\ syscallStartTimes' =
               [m \in DOMAIN syscallStartTimes \ {trace[n].number} |-> syscallStartTimes[m]]
      BY <1>2, <2>3 DEF Answer, Open
    <3>. QED
      BY <1>2, <2>2, <3>1
  <2>4. CASE ~Open(trace[n].number) /\ UNCHANGED responses
    BY <1>2, <2>2, <2>4 DEF Open, responses
  <2>. QED
    BY <1>5, <2>3, <2>4 DEF ReturnFromEndIO, activity
<1>6. CASE ReturnStep
  BY <1>1, <1>4, <1>5, <1>6 DEF ReturnStep, IsEndIO
<1>. QED
  BY <1>3, <1>6

LEMMA TimedNext ==
  ASSUME TypeOK, Where, Matched, Timed, CPU \/ PassOver \/ ReturnStep
  PROVE  Timed'
<1>1. n' = n + 1 /\ UNCHANGED <<trace, input>> /\ n <= Len(trace)
  BY ReachedNext
<1>2. PICK iretTime \in IF IsInterrupt(n) THEN contextDist ELSE {0} :
        Reached' = Reached + timeOf(n) + iretTime
  BY ReachedNext
<1>3. /\ n \in 1 .. Len(trace) /\ n \in Nat /\ n >= 1 /\ n' - 1 = n /\ n \in 0 .. Len(trace)
      /\ \A j \in Before(n) : j \in 0 .. n - 1
  BY <1>1, AtHand, TraceType DEF Before
<1>4. \A j \in 0 .. n - 1 : \A x \in Takes(j, n - 1) : x + timeOf(n) + iretTime \in Takes(j, n)
  BY <1>1, TakesNext
<1>5. /\ \A j, k : Takes(j, k)' = Takes(j, k)
      /\ \A k, j : Answers(k, j)' <=> Answers(k, j)
      /\ \A j, k : OpenUntil(j, k)' <=> OpenUntil(j, k)
  BY <1>1, TakesAlike
<1>6. Reached \in Int /\ timeOf(n) \in Int /\ iretTime \in Int
  BY <1>2, <1>3, SpentType, TimeOfType, TimeType
<1>7. DOMAIN syscallStartTimes = OpenNumbers /\ Len(ioResponseTimes) = Cardinality(Answered)
  BY DEF Matched
(* A SYSCALL that is open at n has been for the time of activity n more.   *)
<1>8. ASSUME NEW j \in Before(n), OpenUntil(j, n)
      PROVE  /\ trace[j].number \in OpenNumbers
             /\ Reached' - syscallStartTimes[trace[j].number] \in Takes(j, n)
  <2>1. trace[j].number \in OpenNumbers
    BY <1>8 DEF OpenNumbers
  <2>2. syscallStartTimes[trace[j].number] \in Int
    BY <1>7, <2>1 DEF TypeOK
  <2>3. Reached - syscallStartTimes[trace[j].number] \in Takes(j, n - 1)
    BY <1>8 DEF Timed
  <2>4. (Reached - syscallStartTimes[trace[j].number]) + timeOf(n) + iretTime \in Takes(j, n)
    BY <1>3, <1>4, <2>3
  <2>5. Reached' - syscallStartTimes[trace[j].number]
        = (Reached - syscallStartTimes[trace[j].number]) + timeOf(n) + iretTime
    BY <1>2, <1>6, <2>2
  <2>. QED
    BY <2>1, <2>4, <2>5
<1>9. Reached' \in Takes(0, n)
  <2>1. Reached \in Takes(0, n - 1) /\ 0 \in 0 .. n - 1
    BY <1>3 DEF Timed
  <2>. QED
    BY <1>2, <1>4, <2>1
<1>10. ASSUME NEW j \in Before(n) \cup {n}, OpenUntil(j, n + 1)
       PROVE  Reached' - syscallStartTimes'[trace[j].number] \in Takes(j, n)
  <2>1. CASE j \in Before(n)
    <3>1. OpenUntil(j, n) /\ (IsInterrupt(n) => trace[n].number # trace[j].number)
      BY <1>10, <2>1, StillOpen
    <3>2. trace[j].number \in OpenNumbers
          /\ Reached' - syscallStartTimes[trace[j].number] \in Takes(j, n)
      BY <1>8, <2>1, <3>1
    <3>3. syscallStartTimes'[trace[j].number] = syscallStartTimes[trace[j].number]
      BY <3>1, <3>2, ResponsesNext
    <3>. QED
      BY <3>2, <3>3
  <2>2. CASE j = n
    <3>1. trace[n].type = "SYSCALL"
      BY <1>10, <2>2, StillOpen
    <3>2. syscallStartTimes'[trace[n].number] = Reached'
      BY <3>1, ResponsesNext
    <3>3. Reached' \in Int
      BY <1>2, <1>6
    <3>4. Reached' - Reached' = 0
      <4>1. \A x \in Int : x - x = 0
        OBVIOUS
      <4>. QED
        BY <3>3, <4>1, Zenon
    <3>5. Takes(n, n) = {0}
      BY <1>3, TakesNone
    <3>. QED
      BY <2>2, <3>2, <3>4, <3>5
  <2>. QED
    BY <1>10, <2>1, <2>2
<1>11. Answered' = IF IsEndIO(n) /\ trace[n].number \in OpenNumbers
                   THEN Answered \cup {n} ELSE Answered
  BY <1>1, AnsweredNext
<1>12. IsFiniteSet(Answered) /\ Cardinality(Answered) \in Nat /\ n \notin Answered
       /\ \A k \in Answered : k \in Nat /\ k < n
  BY <1>3, AnsweredFinite DEF Answered, Before
(* The response times that there are stay where they are.                  *)
<1>13. ASSUME NEW k \in Answered
       PROVE  ioResponseTimes'[Cardinality({l \in Answered' : l <= k})]
                = ioResponseTimes[Cardinality({l \in Answered : l <= k})]
  <2> DEFINE A == {l \in Answered : l <= k}
  <2>1. {l \in Answered' : l <= k} = A
    BY <1>3, <1>11, <1>12
  <2>2. A \subseteq Answered /\ k \in A
    BY <1>12
  <2>. HIDE DEF A
  <2>3. IsFiniteSet(A) /\ Cardinality(A) \in Nat /\ Cardinality(A) <= Cardinality(Answered)
    BY <1>12, <2>2, FS_Subset, FS_CardinalityType
  <2>4. Cardinality(A) # 0
    BY <2>2, <2>3, FS_EmptySet
  <2>5. Cardinality(A) \in 1 .. Len(ioResponseTimes)
    BY <1>7, <1>12, <2>3, <2>4
  <2>6. ioResponseTimes'[Cardinality(A)] = ioResponseTimes[Cardinality(A)]
    <3>1. CASE IsEndIO(n) /\ trace[n].number \in OpenNumbers
      <4>1. ioResponseTimes' =
              Append(ioResponseTimes, currentTime' - syscallStartTimes[trace[n].number])
        BY <3>1, ResponsesNext
      <4>2. currentTime' - syscallStartTimes[trace[n].number] \in Int
        <5>1. Reached' \in Int /\ currentTime' = Reached'
          BY <1>2, <1>6, ResponsesNext
        <5>2. syscallStartTimes[trace[n].number] \in Int
          BY <1>7, <3>1 DEF TypeOK
        <5>. QED
          BY <5>1, <5>2
      <4>3. ioResponseTimes \in Seq(Int)
        BY DEF TypeOK
      <4>. QED
        BY <2>5, <4>1, <4>2, <4>3, AppendProperties
    <3>2. CASE ~(IsEndIO(n) /\ trace[n].number \in OpenNumbers)
      BY <3>2, ResponsesNext
    <3>. QED
      BY <3>1, <3>2
  <2>. QED
    BY <2>1, <2>6 DEF A
<1>14. ASSUME NEW k \in Answered', NEW j \in Before(k), Answers(k, j)
       PROVE  ioResponseTimes'[Cardinality({l \in Answered' : l <= k})] \in Takes(j, k)
  <2>1. CASE k \in Answered
    <3>1. ioResponseTimes[Cardinality({l \in Answered : l <= k})] \in Takes(j, k)
      BY <1>14, <2>1 DEF Timed
    <3>. QED
      BY <1>13, <2>1, <3>1
  <2>2. CASE k \notin Answered
    <3>1. k = n /\ IsEndIO(n) /\ trace[n].number \in OpenNumbers /\ Answered' = Answered \cup {n}
      BY <1>11, <2>2
    <3>2. OpenUntil(j, n) /\ trace[j].number = trace[n].number /\ j \in Before(n)
      BY <1>14, <3>1 DEF Answers
    <3>3. {l \in Answered' : l <= k} = Answered \cup {n}
      <4>1. \A l \in Answered \cup {n} : l <= n
        BY <1>3, <1>12
      <4>. QED
        BY <3>1, <4>1
    <3>4. Cardinality(Answered \cup {n}) = Len(ioResponseTimes) + 1
      BY <1>7, <1>12, FS_AddElement
    <3> DEFINE r == currentTime' - syscallStartTimes[trace[n].number]
    <3>5. r \in Takes(j, n) /\ ioResponseTimes' = Append(ioResponseTimes, r)
      BY <1>8, <3>1, <3>2, ResponsesNext
    <3>6. r \in Int
      <4>1. Reached' \in Int /\ currentTime' = Reached'
        BY <1>2, <1>6, ResponsesNext
      <4>2. syscallStartTimes[trace[n].number] \in Int
        BY <1>7, <3>1 DEF TypeOK
      <4>. QED
        BY <4>1, <4>2
    <3>. HIDE DEF r
    <3>7. ioResponseTimes'[Len(ioResponseTimes) + 1] = r
      <4>1. ioResponseTimes \in Seq(Int)
        BY DEF TypeOK
      <4>. QED
        BY <3>5, <3>6, <4>1, AppendProperties
    <3>. QED
      BY <3>1, <3>3, <3>4, <3>5, <3>7
  <2>. QED
    BY <2>1, <2>2
<1>15. (Reached \in Takes(0, n - 1))'
  BY <1>3, <1>5, <1>9
<1>16. (\A j \in Before(n) :
          OpenUntil(j, n) => Reached - syscallStartTimes[trace[j].number] \in Takes(j, n - 1))'
  <2>1. Before(n') = Before(n) \cup {n}
    BY <1>1, <1>3 DEF Before
  <2>. QED
    BY <1>1, <1>3, <1>5, <1>10, <2>1 DEF Before
<1>17. (\A k \in Answered : \A j \in Before(k) :
          Answers(k, j) => ioResponseTimes[Cardinality({l \in Answered : l <= k})] \in Takes(j, k))'
  BY <1>5, <1>14 DEF Before
<1>. QED
  BY <1>15, <1>16, <1>17 DEF Timed

LEMMA TimedStep == ASSUME TypeOK, Where, Matched, Timed, [Next]_vars PROVE Timed'
<1>1. CASE ReadStep
  BY <1>1, TimedRead
<1>2. CASE CPU \/ PassOver \/ ReturnStep
  BY <1>2, TimedNext
<1>3. CASE EnterStep
  <2>1. UNCHANGED <<n, trace, input, responses>>
    BY <1>3 DEF EnterStep, CheckPriority, CheckMask, EnterSyscall, EnterEndIO, SwitchToKernel,
           FindVector, LoadAddress, Step, reading
  <2>. QED
    BY <1>3, <2>1, ReachedEnter, TimedStays
<1>4. CASE HandleStep
  <2>1. UNCHANGED <<n, trace, input, responses>>
    BY <1>4 DEF HandleStep, RunISR, TransferData, CheckErrors, HandleEndIO, Step, reading
  <2>. QED
    BY <1>4, <2>1, ReachedHandle, TimedStays
<1>5. CASE Throw \/ Crash \/ WriteMetrics \/ UNCHANGED vars
  <2>1. /\ UNCHANGED <<n, trace, input, responses, currentTime, contextSwitchTime>>
        /\ \/ pc = "next" /\ pc' \in {"error", "done"}
           \/ pc = "load" /\ pc' = "crashed"
           \/ pc' = pc
    BY <1>5 DEF Throw, AtActivity, Crash, WriteMetrics, vars, reading, simulation, locals
  <2>2. Checked' = Checked
    BY <2>1 DEF Checked, IsEndIO
  <2>3. runIsrTime' = runIsrTime /\ transferDataTime' = transferDataTime
        /\ activity'.duration = activity.duration
    BY <2>1 DEF runIsrTime, transferDataTime, totalIsrTime, activity
  <2>. HIDE DEF Checked, runIsrTime, transferDataTime, activity
  <2>4. Spent' = Spent
    BY <2>1, <2>2, <2>3 DEF Spent
  <2>5. Reached' = Reached
    BY <2>1, <2>4 DEF Reached
  <2>. QED
    BY <2>1, <2>5, TimedStays
<1>. QED
  BY <1>1, <1>2, <1>3, <1>4, <1>5, Steps DEF PlainStep

-----------------------------------------------------------------------------
(***************************************************************************)
(* The inductive invariant and the theorems.                               *)
(***************************************************************************)
IInv ==
  TypeOK /\ Where /\ Switched /\ Totals /\ Matched /\ Timed /\ Vectors /\ LoadsListedVector

LEMMA InitIInv == Init => IInv
<1> SUFFICES ASSUME Init PROVE IInv
  OBVIOUS
<1>1. TypeOK
  BY InitType
<1>2. pc = "main" /\ n = 1
  BY DEF Init
<1>3. Where /\ Switched /\ Vectors /\ LoadsListedVector
  BY <1>2 DEF Init, Where, Switched, Vectors, LoadsListedVector, InSyscall, InEndIO, InEither,
       Simulating
<1>4. EndIOs = 0 /\ Interrupts = 0 /\ OpenNumbers = {} /\ Cardinality(Answered) = 0
  BY <1>2, NoneBefore, NothingOpen
<1>5. Matched
  <2>1. DOMAIN syscallStartTimes = {} /\ Len(ioResponseTimes) = 0
    BY DEF Init
  <2>. QED
    BY <1>4, <2>1 DEF Matched
<1>6. Totals
  <2>1. /\ Unchecked = 0 /\ Checked = 0 /\ PartsDone = 0
        /\ SwitchedIn = 0 /\ LookedUp = 0 /\ Loaded = 0
    BY <1>2 DEF Unchecked, Checked, PartsDone, SwitchedIn, LookedUp, Loaded
  <2>. QED
    BY <1>4, <2>1 DEF Totals, Init, Metrics
<1>7. Timed
  <2>1. Takes(0, 0) = {0}
    BY <1>1, NothingTakes
  <2>2. Reached = 0
    BY <1>2 DEF Init, Reached, Spent
  <2>. QED
    BY <1>2, <2>1, <2>2, NothingTimed
<1>. QED
  BY <1>1, <1>3, <1>5, <1>6, <1>7 DEF IInv

LEMMA StepIInv == ASSUME IInv, [Next]_vars PROVE IInv'
  BY StepType, WhereStep, SwitchedStep, TotalsStep, MatchedStep, TimedStep, VectorsStep, LoadedStep
     DEF IInv

LEMMA Inductive == Spec => []IInv
<1>1. Init => IInv
  BY InitIInv
<1>2. IInv /\ [Next]_vars => IInv'
  BY StepIInv
<1>. QED
  BY <1>1, <1>2, PTL DEF Spec

(* Every variable has its type; the loop never goes past the trace.        *)
THEOREM InterruptsTypeCorrect == Spec => []TypeOK
<1>1. IInv => TypeOK
  BY DEF IInv
<1>. QED
  BY <1>1, Inductive, PTL

(* The totals that are printed agree with one another and with the clock.  *)
THEOREM TotalsAgree == Spec => []MetricsAddUp
<1>1. IInv => MetricsAddUp
  <2> SUFFICES ASSUME IInv, Between PROVE MetricsAddUp
    BY DEF MetricsAddUp
  <2>1. TypeOK /\ Totals
    BY DEF IInv
  <2>2. /\ Unchecked = 0 /\ Checked = 0 /\ PartsDone = 0
        /\ SwitchedIn = 0 /\ LookedUp = 0 /\ Loaded = 0
    BY DEF Between, Unchecked, Checked, PartsDone, SwitchedIn, LookedUp, Loaded
  <2>3. EndIOs \in Nat /\ Interrupts \in Nat
    BY <2>1, Counts
  <2>4. /\ metrics.totalExecutionTime = currentTime
        /\ metrics.totalExecutionTime =
             metrics.timeSpentInCPUOperations + metrics.timeSpentInIOOperations
             + metrics.timeSpentInInterruptHandling + metrics.totalContextSwitchTime
             + metrics.timeSpentOnVectorTableLookups + metrics.totalISRExecutions
             + 2 * EndIOs
        /\ metrics.totalISRExecutionTime =
             metrics.timeSpentInInterruptHandling + metrics.timeSpentInIOOperations
        /\ metrics.totalContextSwitches = Interrupts
        /\ metrics.totalISRExecutions = Interrupts
        /\ metrics.timeSpentOnVectorTableLookups = Interrupts
    BY <2>1, <2>2, <2>3, MetricsType DEF Totals
  <2>. QED
    BY <2>4 DEF MetricsAddUp, EndIOs, Interrupts
<1>. QED
  BY <1>1, Inductive, PTL

(* Each END_IO answers the SYSCALL of its number that is open.             *)
THEOREM EveryResponseMatched == Spec => []ResponsesMatched
<1>1. IInv => ResponsesMatched
  BY DEF IInv, Matched, OpenNumbers, ResponsesMatched
<1>. QED
  BY <1>1, Inductive, PTL

(* Whatever the switches and the rounding, the activities take their       *)
(* durations, and the returns from the interrupts on top.                  *)
THEOREM ActivitiesTakeTheirTime == Spec => []TimeBounded
<1>1. IInv => TimeBounded
  <2> SUFFICES ASSUME IInv, Between PROVE currentTime \in Takes(0, n - 1)
    BY DEF TimeBounded
  <2>1. Reached = currentTime
    BY BetweenReached DEF IInv
  <2>. QED
    BY <2>1 DEF IInv, Timed
<1>. QED
  BY <1>1, Inductive, PTL

(* Each response time is what the activities after the SYSCALL it answers  *)
(* take, up to and with the END_IO.                                        *)
THEOREM ResponsesTakeTheirTime == Spec => []ResponsesBounded
<1>1. IInv => ResponsesBounded
  BY DEF IInv, Timed, ResponsesBounded
<1>. QED
  BY <1>1, Inductive, PTL

(* The address loaded is on the line of the vector's number.               *)
THEOREM VectorIsListed == Spec => []LoadsListedVector
<1>1. IInv => LoadsListedVector
  BY DEF IInv
<1>. QED
  BY <1>1, Inductive, PTL

(* The clock does not go back when every activity is long enough.          *)
THEOREM ClockGoesForward == Spec => ClockForward
<1>1. IInv /\ [Next]_vars => [LongEnough => currentTime' >= currentTime]_vars
  BY ForwardStep DEF IInv
<1>. QED
  BY <1>1, Inductive, PTL DEF Spec, ClockForward


=============================================================================
