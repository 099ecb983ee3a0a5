--------------------------- MODULE ForkExecProofs ---------------------------
(***************************************************************************)
(* Whatever the input and the partitions: EXEC finds the best fit if there *)
(* is any, processes share a partition only with their copies, and every   *)
(* line is executed in its place, at any depth, and charged to the clock.  *)
(***************************************************************************)
EXTENDS MCForkExec, QueueTheorems

(* The types of the constants.                                             *)
LEMMA SizesType ==
  /\ Len(sizes) \in Nat /\ Len(sizes) > 1
  /\ \A m \in Partitions : sizes[m] \in Nat /\ m \in Nat /\ m >= 1
  BY ForkExecAssumption DEF Partitions

(* While EXEC searches, its line is the one at hand.                       *)
AtExec ==
  pc = "search" => line[Len(line)] <= Len(File) /\ Line.op = "EXEC"

(* min_element: a partition that suits is the best of those looked at; if  *)
(* none does, it is the last one looked at.                                *)
Best(m) ==
  /\ Suits(m)
  /\ \A n \in 1 .. it - 1 : Suits(n) =>
       sizes[m] < sizes[n] \/ (sizes[m] = sizes[n] /\ m <= n)

SearchSoFar ==
  pc = "search" =>
    /\ it >= 2 /\ partition_it \in 1 .. it - 1
    /\ \/ Best(partition_it)
       \/ partition_it = it - 1 /\ \A n \in 1 .. it - 1 : ~Suits(n)

(* The current file and line.                                              *)
LEMMA LineType ==
  ASSUME TypeOK
  PROVE  /\ Len(line) \in 1 .. Len(line) /\ Len(calls) = Len(line)
         /\ line[Len(line)] \in Nat \ {0}
         /\ File \in Seq(Lines)
         /\ line[Len(line)] <= Len(File) => Line \in Lines
<1>1. Len(calls) \in Nat \ {0} /\ Len(calls) = Len(line)
  BY DEF TypeOK
<1>2. line[Len(line)] \in Nat \ {0}
  BY <1>1, ElementOfSeq DEF TypeOK
<1>3. calls[Len(calls)] \in Names \cup {"trace"}
  BY <1>1, ElementOfSeq DEF TypeOK
<1>4. File \in Seq(Lines)
  BY <1>3 DEF File, TypeOK, Readable
<1>5. line[Len(line)] <= Len(File) => Line \in Lines
  <2>1. Len(File) \in Nat
    BY <1>4
  <2>. HIDE DEF File
  <2>. QED
    BY <1>2, <1>4, <2>1, ElementOfSeq DEF Line
<1>. QED
  BY <1>1, <1>2, <1>4, <1>5

(* What a line holds.                                                      *)
LEMMA LineFields ==
  ASSUME NEW l \in Lines
  PROVE  /\ l.op = "EXEC" => l.name \in Names
         /\ l.op \in {"CPU", "SYSCALL"} => l.duration \in Int
  BY DEF Lines

(* The process at the end of the table.                                    *)
LEMMA BackType ==
  ASSUME TypeOK
  PROVE  /\ Len(pcb_table) \in 1 .. Len(pcb_table)
         /\ back.name \in Names \cup {"init"} /\ back.partition \in Partitions
         /\ back.size \in Nat /\ back.pid = current_pid /\ current_pid \in Nat
<1>1. Len(pcb_table) \in 1 .. Len(pcb_table)
  BY DEF TypeOK
<1>2. back \in PCBs
  BY <1>1, ElementOfSeq DEF TypeOK, back
<1>3. back.pid = current_pid /\ current_pid \in Nat
  BY <1>1 DEF TypeOK, back
<1>. QED
  BY <1>1, <1>2, <1>3 DEF PCBs

-----------------------------------------------------------------------------
(* Types.                                                                  *)
LEMMA NextLineType ==
  ASSUME TypeOK, NextLine
  PROVE  line' \in Seq(Nat \ {0}) /\ Len(line') = Len(line)
<1>1. line \in Seq(Nat \ {0}) /\ Len(line) \in 1 .. Len(line)
  BY LineType DEF TypeOK
<1>2. line[Len(line)] + 1 \in Nat \ {0}
  BY LineType
<1>. QED
  BY <1>1, <1>2, ExceptSeq DEF NextLine

LEMMA InitType == Init => TypeOK /\ AtExec
<1> SUFFICES ASSUME Init PROVE TypeOK /\ AtExec
  OBVIOUS
<1> USE SizesType
<1>1. Readable(input)
  BY ForkExecAssumption DEF Init
<1>2. Len(sizes) \in Partitions /\ 1 \in Partitions
  BY DEF Partitions
<1>3. PCB(0, "init", Len(sizes), 1) \in PCBs
  BY <1>2 DEF PCB, PCBs
<1>4. pcb_table \in Seq(PCBs) /\ Len(pcb_table) = 1 /\ pcb_table[1].pid = 0
  BY <1>3 DEF Init, PCB
<1>5. status \in [Partitions -> {"free", "occupied"}]
  BY DEF Init
<1>6. calls \in Seq(Names \cup {"trace"}) /\ line \in Seq(Nat \ {0})
      /\ Len(line) = Len(calls) /\ calls # <<>>
  BY DEF Init
<1>. QED
  BY <1>1, <1>2, <1>4, <1>5, <1>6 DEF Init, TypeOK, AtExec

LEMMA ForkType == TypeOK /\ simulate_fork => TypeOK'
<1> SUFFICES ASSUME TypeOK, simulate_fork PROVE TypeOK'
  OBVIOUS
<1>1. line' \in Seq(Nat \ {0}) /\ Len(line') = Len(line)
  BY NextLineType DEF simulate_fork
<1> DEFINE child == PCB(current_pid + 1, back.name, back.partition, back.size)
<1>2. child \in PCBs /\ child.pid = current_pid + 1
  BY BackType DEF PCB, PCBs
<1>3. pcb_table \in Seq(PCBs) /\ Len(pcb_table) = current_pid + 1 /\ current_pid \in Nat
  BY DEF TypeOK
<1>4. pcb_table' = Append(pcb_table, child)
  BY DEF simulate_fork
<1> HIDE DEF child
<1>5. /\ pcb_table' \in Seq(PCBs) /\ Len(pcb_table') = current_pid + 2
      /\ \A k \in 1 .. Len(pcb_table) : pcb_table'[k] = pcb_table[k]
      /\ pcb_table'[current_pid + 2] = child
  BY <1>2, <1>3, <1>4, AppendProperties
<1>6. \A k \in 1 .. Len(pcb_table') : pcb_table'[k].pid = k - 1
  <2>1. \A k \in 1 .. Len(pcb_table) : pcb_table[k].pid = k - 1
    BY DEF TypeOK
  <2>2. ASSUME NEW k \in 1 .. Len(pcb_table') PROVE pcb_table'[k].pid = k - 1
    <3>1. CASE k \in 1 .. Len(pcb_table)
      BY <2>1, <3>1, <1>5
    <3>2. CASE k = current_pid + 2
      BY <3>2, <1>2, <1>3, <1>5
    <3>. QED
      BY <3>1, <3>2, <1>3, <1>5
  <2>. QED
    BY <2>2
<1>7. current_pid' = current_pid + 1
  BY DEF simulate_fork
<1>8. current_time' \in Int
  BY DEF simulate_fork, TypeOK, VectorTime
<1>9. Len(pcb_table') = current_pid' + 1 /\ current_pid' \in Nat
  BY <1>3, <1>5, <1>7
<1>10. pcb_table' \in Seq(PCBs)
  BY <1>5
<1>. QED
  BY <1>1, <1>6, <1>8, <1>9, <1>10 DEF simulate_fork, TypeOK, Readable

(* The two parts of an ISR.                                                *)
LEMMA Thirds ==
  ASSUME NEW d \in Int
  PROVE  Third(d) \in Int /\ Third(d * 2) \in Int
  BY DEF Third

LEMMA LineOnlyType ==
  TypeOK /\ (simulate_cpu \/ simulate_syscall \/ PassOver) => TypeOK'
<1> SUFFICES ASSUME TypeOK, simulate_cpu \/ simulate_syscall \/ PassOver PROVE TypeOK'
  OBVIOUS
<1>1. line' \in Seq(Nat \ {0}) /\ Len(line') = Len(line)
  BY NextLineType DEF simulate_cpu, simulate_syscall, PassOver
<1>2. Line.op \in {"CPU", "SYSCALL"} /\ AtLine => Line.duration \in Int
  BY LineType, LineFields DEF AtLine
<1>3. current_time' \in Int
  <2>1. CASE simulate_cpu
    BY <2>1, <1>2 DEF simulate_cpu, TypeOK
  <2>2. CASE simulate_syscall
    <3> DEFINE d == Line.duration
    <3>1. d \in Int
      BY <2>2, <1>2 DEF simulate_syscall
    <3>2. current_time' = current_time + VectorTime + Third(d) + Third(d * 2) + 13 + 1
      BY <2>2 DEF simulate_syscall
    <3>3. current_time \in Int /\ VectorTime = 6
      BY DEF TypeOK, VectorTime
    <3> HIDE DEF d
    <3>. QED
      BY <3>1, <3>2, <3>3, Thirds
  <2>3. CASE PassOver
    BY <2>3 DEF PassOver, TypeOK
  <2>. QED
    BY <2>1, <2>2, <2>3
<1>. QED
  BY <1>1, <1>3 DEF simulate_cpu, simulate_syscall, PassOver, TypeOK

LEMMA LookupType == TypeOK /\ Lookup => TypeOK' /\ AtExec'
<1> SUFFICES ASSUME TypeOK, Lookup PROVE TypeOK' /\ AtExec'
  OBVIOUS
<1>1. SizeOf(Line.name) \subseteq Nat
  <2>1. input.external_files \in Seq([name : Names, size : Nat])
    BY DEF TypeOK, Readable
  <2>2. \A k \in Listed(Line.name) : input.external_files[k] \in [name : Names, size : Nat]
    BY <2>1, ElementOfSeq, LenProperties DEF Listed
  <2>3. \A k \in Listed(Line.name) : input.external_files[k].size \in Nat
    BY <2>2
  <2>4. AnySize \subseteq Nat
    BY ForkExecAssumption
  <2>. QED
    BY <2>3, <2>4 DEF SizeOf
<1>2. program_size' \in Nat
  BY <1>1 DEF Lookup
<1>3. current_time' \in Int
  BY DEF Lookup, TypeOK, VectorTime
<1>4. it' \in 1 .. Len(sizes) + 1 /\ partition_it' \in Partitions
  BY SizesType DEF Lookup, Partitions
<1>5. TypeOK'
  BY <1>2, <1>3, <1>4 DEF Lookup, TypeOK, Readable
<1>6. AtExec'
  BY DEF Lookup, AtExec, AtLine, Line, File
<1>. QED
  BY <1>5, <1>6

LEMMA CompareType == TypeOK /\ AtExec /\ Compare => TypeOK' /\ AtExec'
<1> SUFFICES ASSUME TypeOK, AtExec, Compare PROVE TypeOK' /\ AtExec'
  OBVIOUS
<1>1. it' \in 1 .. Len(sizes) + 1 /\ partition_it' \in Partitions
  BY SizesType DEF Compare, Partitions, TypeOK
<1>2. TypeOK'
  BY <1>1 DEF Compare, TypeOK, Readable
<1>3. AtExec'
  BY DEF Compare, AtExec, Line, File
<1>. QED
  BY <1>2, <1>3

(* What Load does to the process table.                                    *)
LEMMA LoadTable ==
  ASSUME TypeOK, AtExec, Load
  PROVE  /\ Line.name \in Names
         /\ pcb_table' \in Seq(PCBs) /\ Len(pcb_table') = Len(pcb_table)
         /\ pcb_table'[Len(pcb_table)] =
              PCB(current_pid, Line.name, partition_it, program_size)
         /\ \A k \in 1 .. Len(pcb_table) - 1 : pcb_table'[k] = pcb_table[k]
<1>1. Line.name \in Names
  BY LineType, LineFields DEF AtExec, Load
<1> DEFINE new == PCB(back.pid, Line.name, partition_it, program_size)
<1>2. new \in PCBs
  BY <1>1, BackType DEF PCB, PCBs, TypeOK
<1>3. pcb_table \in Seq(PCBs) /\ Len(pcb_table) \in 1 .. Len(pcb_table)
  BY BackType DEF TypeOK
<1>4. pcb_table' = [pcb_table EXCEPT ![Len(pcb_table)] = new]
  BY DEF Load
<1>5. new = PCB(current_pid, Line.name, partition_it, program_size)
  BY BackType
<1> HIDE DEF new
<1>6. /\ pcb_table' \in Seq(PCBs) /\ Len(pcb_table') = Len(pcb_table)
      /\ \A k \in 1 .. Len(pcb_table) :
           pcb_table'[k] = IF k = Len(pcb_table) THEN new ELSE pcb_table[k]
  BY <1>2, <1>3, <1>4, ExceptSeq
<1>7. \A k \in 1 .. Len(pcb_table) - 1 : k \in 1 .. Len(pcb_table) /\ k # Len(pcb_table)
  BY <1>3
<1>. QED
  BY <1>1, <1>3, <1>5, <1>6, <1>7

LEMMA LoadType == TypeOK /\ AtExec /\ Load => TypeOK'
<1> SUFFICES ASSUME TypeOK, AtExec, Load PROVE TypeOK'
  OBVIOUS
<1>1. /\ calls \in Seq(Names \cup {"trace"}) /\ line \in Seq(Nat \ {0})
      /\ Len(line) = Len(calls) /\ Len(line) \in 1 .. Len(line)
  BY LineType DEF TypeOK
<1>2. calls' = Append(calls, Line.name) /\ Line.name \in Names \cup {"trace"}
  BY LoadTable DEF Load
<1>3. /\ calls' \in Seq(Names \cup {"trace"}) /\ calls' # <<>>
      /\ Len(calls') = Len(calls) + 1
  BY <1>1, <1>2, AppendProperties
<1> DEFINE moved == [line EXCEPT ![Len(line)] = @ + 1]
<1>4. moved \in Seq(Nat \ {0}) /\ Len(moved) = Len(line)
  <2>1. line[Len(line)] + 1 \in Nat \ {0}
    BY LineType
  <2>. QED
    BY <1>1, <2>1, ExceptSeq
<1>5. line' = Append(moved, 1)
  BY DEF Load
<1> HIDE DEF moved
<1>6. line' \in Seq(Nat \ {0}) /\ Len(line') = Len(line) + 1
  BY <1>4, <1>5, AppendProperties
<1>7. /\ pcb_table' \in Seq(PCBs) /\ Len(pcb_table') = current_pid + 1
      /\ \A k \in 1 .. Len(pcb_table') : pcb_table'[k].pid = k - 1
  <2>1. Len(pcb_table) = current_pid + 1 /\ current_pid \in Nat
    BY DEF TypeOK
  <2>2. pcb_table'[Len(pcb_table)].pid = current_pid
    BY LoadTable DEF PCB
  <2>3. \A k \in 1 .. Len(pcb_table) - 1 : pcb_table'[k].pid = k - 1
    <3>1. \A k \in 1 .. Len(pcb_table) : pcb_table[k].pid = k - 1
      BY DEF TypeOK
    <3>2. \A k \in 1 .. Len(pcb_table) - 1 :
            k \in 1 .. Len(pcb_table) /\ pcb_table'[k] = pcb_table[k]
      BY <2>1, LoadTable
    <3>. QED
      BY <3>1, <3>2
  <2>. QED
    BY <2>1, <2>2, <2>3, LoadTable
<1>8. current_time' \in Int
  BY DEF Load, TypeOK
<1>9. status' \in [Partitions -> {"free", "occupied"}]
  BY DEF Load, TypeOK
<1>. QED
  BY <1>1, <1>3, <1>6, <1>7, <1>8, <1>9 DEF Load, TypeOK, Readable

LEMMA ReturnType == TypeOK /\ Return => TypeOK'
<1> SUFFICES ASSUME TypeOK, Return PROVE TypeOK'
  OBVIOUS
<1> DEFINE n == Len(calls)
<1>1. n \in Nat /\ n > 1 /\ Len(line) = n
  BY DEF TypeOK, Return
<1>2. \A k \in 1 .. n - 1 : calls[k] \in Names \cup {"trace"} /\ line[k] \in Nat \ {0}
  BY <1>1, ElementOfSeq DEF TypeOK
<1>3. calls' = SubSeq(calls, 1, n - 1) /\ line' = SubSeq(line, 1, n - 1)
  BY <1>1 DEF Return, Front
<1> HIDE DEF n
<1>4. calls' \in Seq(Names \cup {"trace"}) /\ Len(calls') = n - 1
  BY <1>1, <1>2, <1>3, SubSeqProperties
<1>5. line' \in Seq(Nat \ {0}) /\ Len(line') = n - 1
  BY <1>1, <1>2, <1>3, SubSeqProperties
<1>6. calls' # <<>>
  BY <1>1, <1>4
<1>. QED
  BY <1>4, <1>5, <1>6 DEF Return, TypeOK, Readable

LEMMA TypeStep == TypeOK /\ AtExec /\ [Next]_vars => TypeOK' /\ AtExec'
<1> SUFFICES ASSUME TypeOK, AtExec, [Next]_vars PROVE TypeOK' /\ AtExec'
  OBVIOUS
<1>1. CASE simulate_fork
  BY <1>1, ForkType DEF simulate_fork, AtLine, AtExec
<1>2. CASE simulate_cpu \/ simulate_syscall \/ PassOver
  BY <1>2, LineOnlyType DEF simulate_cpu, simulate_syscall, PassOver, AtLine, AtExec
<1>3. CASE Lookup
  BY <1>3, LookupType
<1>4. CASE Compare
  BY <1>4, CompareType
<1>5. CASE Load
  BY <1>5, LoadType DEF Load, AtExec
<1>6. CASE Return
  BY <1>6, ReturnType DEF Return, AtExec
<1>7. CASE Crash
  <2>1. current_time' \in Int
    BY <1>7 DEF Crash, VectorTime, TypeOK
  <2>. QED
    BY <1>7, <2>1 DEF Crash, TypeOK, Readable, AtExec
<1>9. CASE TraceEnds
  BY <1>9 DEF TraceEnds, TypeOK, Readable, AtExec
<1>8. CASE Terminated \/ UNCHANGED vars
  BY <1>8 DEF Terminated, vars, TypeOK, Readable, AtExec, Line, File
<1>. QED
  BY <1>1, <1>2, <1>3, <1>4, <1>5, <1>6, <1>7, <1>8, <1>9 DEF Next

(* Every variable keeps its type, for every input and every table.         *)
THEOREM TypeCorrect == Spec => []TypeOK
<1>1. Init => TypeOK /\ AtExec
  BY InitType
<1>2. TypeOK /\ AtExec /\ [Next]_vars => TypeOK' /\ AtExec'
  BY TypeStep
<1>. QED
  BY <1>1, <1>2, PTL DEF Spec
-----------------------------------------------------------------------------
(* The search.                                                             *)
LEMMA CompareKeepsBest == TypeOK /\ SearchSoFar /\ Compare => SearchSoFar'
<1> SUFFICES ASSUME TypeOK, SearchSoFar, Compare PROVE SearchSoFar'
  OBVIOUS
<1> USE SizesType
<1>1. /\ it \in Partitions /\ it \in Nat /\ it >= 2 /\ it' = it + 1
      /\ partition_it \in 1 .. it - 1 /\ partition_it \in Partitions
      /\ sizes[it] \in Nat /\ sizes[partition_it] \in Nat
  BY DEF Compare, SearchSoFar, TypeOK, Partitions
<1>2. \A n : Suits(n)' <=> Suits(n)
  BY DEF Compare, Suits
<1>3. \A n \in 1 .. it : n \in Partitions /\ n \in Nat /\ sizes[n] \in Nat
  BY <1>1 DEF Partitions
<1>4. \A n \in 1 .. it' - 1 : n \in 1 .. it - 1 \/ n = it
  BY <1>1
<1>5. it' - 1 = it
  BY <1>1
<1>6. CASE Best(partition_it)
  <2>1. CASE Suits(it) /\ sizes[it] < sizes[partition_it]
    <3>1. partition_it' = it
      BY <2>1 DEF Compare, Less
    <3>2. ASSUME NEW n \in 1 .. it, Suits(n)
          PROVE  sizes[it] < sizes[n] \/ (sizes[it] = sizes[n] /\ it <= n)
      <4>1. CASE n = it
        BY <4>1, <1>1
      <4>2. CASE n \in 1 .. it - 1
        BY <4>2, <3>2, <2>1, <1>6, <1>1, <1>3 DEF Best
      <4>. QED
        BY <4>1, <4>2, <1>1
    <3>3. Best(partition_it)'
      BY <2>1, <3>1, <3>2, <1>2, <1>5 DEF Best
    <3>. QED
      BY <3>1, <3>3, <1>1 DEF SearchSoFar
  <2>2. CASE ~(Suits(it) /\ sizes[it] < sizes[partition_it])
    <3>1. partition_it' = partition_it
      BY <2>2, <1>6 DEF Compare, Less, Best
    <3>2. ASSUME NEW n \in 1 .. it, Suits(n)
          PROVE  \/ sizes[partition_it] < sizes[n]
                 \/ sizes[partition_it] = sizes[n] /\ partition_it <= n
      <4>1. CASE n = it
        BY <4>1, <3>2, <2>2, <1>1
      <4>2. CASE n \in 1 .. it - 1
        BY <4>2, <3>2, <1>6 DEF Best
      <4>. QED
        BY <4>1, <4>2, <1>1
    <3>3. Best(partition_it)'
      BY <3>1, <3>2, <1>2, <1>5, <1>6 DEF Best
    <3>. QED
      BY <3>1, <3>3, <1>1 DEF SearchSoFar
  <2>. QED
    BY <2>1, <2>2
<1>7. CASE partition_it = it - 1 /\ \A n \in 1 .. it - 1 : ~Suits(n)
  <2>1. ~Suits(partition_it)
    BY <1>7, <1>1
  <2>2. partition_it' = it
    BY <2>1 DEF Compare, Less
  <2>3. CASE Suits(it)
    <3>1. \A n \in 1 .. it : Suits(n) => n = it
      BY <1>7, <1>1, <1>4
    <3>2. Best(partition_it)'
      BY <2>2, <2>3, <3>1, <1>2, <1>5, <1>1 DEF Best
    <3>. QED
      BY <2>2, <3>2, <1>1 DEF SearchSoFar
  <2>4. CASE ~Suits(it)
    <3>1. \A n \in 1 .. it' - 1 : ~Suits(n)'
      BY <2>4, <1>7, <1>2, <1>4
    <3>. QED
      BY <2>2, <3>1, <1>1 DEF SearchSoFar
  <2>. QED
    BY <2>3, <2>4
<1>8. pc = "search"
  BY DEF Compare
<1>. QED
  BY <1>6, <1>7, <1>8 DEF SearchSoFar

LEMMA LookupStartsSearch == TypeOK /\ Lookup => SearchSoFar'
<1> SUFFICES ASSUME TypeOK, Lookup PROVE SearchSoFar'
  OBVIOUS
<1>1. it' = 2 /\ partition_it' = 1
  BY DEF Lookup
<1>2. \A n \in 1 .. it' - 1 : n = 1
  BY <1>1
<1>3. CASE Suits(1)'
  <2>1. sizes[1] \in Nat
    BY SizesType DEF Partitions
  <2>. QED
    BY <1>1, <1>2, <1>3, <2>1 DEF SearchSoFar, Best
<1>4. CASE ~Suits(1)'
  BY <1>1, <1>2, <1>4 DEF SearchSoFar
<1>. QED
  BY <1>3, <1>4

LEMMA SearchStep ==
  TypeOK /\ SearchSoFar /\ [Next]_vars => SearchSoFar'
<1> SUFFICES ASSUME TypeOK, SearchSoFar, [Next]_vars PROVE SearchSoFar'
  OBVIOUS
<1>1. CASE Lookup
  BY <1>1, LookupStartsSearch
<1>2. CASE Compare
  BY <1>2, CompareKeepsBest
<1>3. CASE simulate_fork \/ simulate_cpu \/ simulate_syscall \/ PassOver
  BY <1>3 DEF simulate_fork, simulate_cpu, simulate_syscall, PassOver, AtLine, SearchSoFar
<1>4. CASE Load \/ Return \/ TraceEnds \/ Crash
  BY <1>4 DEF Load, Return, TraceEnds, Crash, SearchSoFar
<1>5. CASE Terminated \/ UNCHANGED vars
  BY <1>5 DEF Terminated, vars, SearchSoFar, Best, Suits
<1>. QED
  BY <1>1, <1>2, <1>3, <1>4, <1>5 DEF Next

(* At the end of the search all the partitions have been looked at.        *)
LEMMA AllLookedAt ==
  ASSUME TypeOK, SearchSoFar, pc = "search", it \notin Partitions
  PROVE  /\ it - 1 = Len(sizes)
         /\ \/ Best(partition_it)
            \/ partition_it = Len(sizes) /\ \A n \in Partitions : ~Suits(n)
<1>1. it = Len(sizes) + 1
  BY SizesType DEF TypeOK, Partitions
<1>. QED
  BY <1>1, SizesType DEF SearchSoFar, Partitions

LEMMA SearchIsBestFit == TypeOK /\ SearchSoFar => FindsBestFit
<1> SUFFICES ASSUME TypeOK, SearchSoFar, pc = "search", it \notin Partitions,
                    \E m \in Partitions : Suits(m)
             PROVE  Best(partition_it) /\ it - 1 = Len(sizes)
  BY DEF FindsBestFit, Best, Partitions
<1>. QED
  BY AllLookedAt

(* min_element finds the best fit, for every table, occupation and program,*)
(* although its comparison is not an order.                                *)
THEOREM MinElementIsBestFit == Spec => []FindsBestFit
<1>1. Init => TypeOK /\ AtExec /\ SearchSoFar
  <2>1. Init => SearchSoFar
    BY DEF Init, SearchSoFar
  <2>. QED
    BY <2>1, InitType
<1>2. TypeOK /\ AtExec /\ SearchSoFar /\ [Next]_vars => TypeOK' /\ AtExec' /\ SearchSoFar'
  BY TypeStep, SearchStep
<1>3. TypeOK /\ SearchSoFar => FindsBestFit
  BY SearchIsBestFit
<1>. QED
  BY <1>1, <1>2, <1>3, PTL DEF Spec

-----------------------------------------------------------------------------
(* The places of the processes.                                            *)
LEMMA ForkSharesPlace == TypeOK /\ ProcessesInPlace /\ simulate_fork => ProcessesInPlace'
<1> SUFFICES ASSUME TypeOK, ProcessesInPlace, simulate_fork PROVE ProcessesInPlace'
  OBVIOUS
<1> DEFINE n == Len(pcb_table)
           child == PCB(current_pid + 1, back.name, back.partition, back.size)
<1>1. n \in Nat /\ n \in 1 .. n /\ pcb_table \in Seq(PCBs) /\ child \in PCBs
  BY BackType DEF TypeOK, PCB, PCBs
<1>2. /\ child.name = pcb_table[n].name /\ child.partition = pcb_table[n].partition
      /\ child.size = pcb_table[n].size
  BY DEF PCB, back
<1>3. pcb_table' = Append(pcb_table, child) /\ status' = status
  BY DEF simulate_fork
<1> HIDE DEF child, n
<1>4. /\ Len(pcb_table') = n + 1 /\ pcb_table'[n + 1] = child
      /\ \A k \in 1 .. n : pcb_table'[k] = pcb_table[k]
  BY <1>1, <1>3, AppendProperties DEF n
<1>5. \A j \in 1 .. Len(pcb_table') : \E k \in 1 .. n :
        /\ pcb_table'[j].name = pcb_table[k].name
        /\ pcb_table'[j].partition = pcb_table[k].partition
        /\ pcb_table'[j].size = pcb_table[k].size
  <2>1. ASSUME NEW j \in 1 .. Len(pcb_table')
        PROVE  j \in 1 .. n \/ j = n + 1
    BY <1>1, <1>4
  <2>. QED
    BY <2>1, <1>1, <1>2, <1>4
<1>. QED
  BY <1>3, <1>5 DEF ProcessesInPlace, n

LEMMA LoadKeepsPlaces ==
  TypeOK /\ AtExec /\ SearchSoFar /\ ProcessesInPlace /\ Load => ProcessesInPlace'
<1> SUFFICES ASSUME TypeOK, AtExec, SearchSoFar, ProcessesInPlace, Load
             PROVE  ProcessesInPlace'
  OBVIOUS
<1> DEFINE n == Len(pcb_table)
           r == partition_it
<1>1. n \in Nat /\ n \in 1 .. n /\ r \in Partitions
  BY BackType DEF TypeOK
<1>2. /\ Len(pcb_table') = n
      /\ pcb_table'[n].partition = r /\ pcb_table'[n].size = program_size
      /\ \A k \in 1 .. n : k # n => pcb_table'[k] = pcb_table[k]
  <2>1. \A k \in 1 .. n : k # n => k \in 1 .. n - 1
    BY <1>1
  <2>. QED
    BY <2>1, LoadTable DEF PCB
<1>3. /\ status'[r] = "occupied"
      /\ \A m \in Partitions : m # r => status'[m] = status[m]
  BY <1>1 DEF Load, TypeOK
<1>4. \A k \in 1 .. n : pcb_table[k].partition \in Partitions
  <2>1. pcb_table \in Seq(PCBs)
    BY DEF TypeOK
  <2>2. \A k \in 1 .. n : pcb_table[k] \in PCBs
    BY <2>1, ElementOfSeq
  <2>. QED
    BY <2>2 DEF PCBs
<1>5. r # Len(sizes) => Suits(r)
  BY AllLookedAt DEF Load, Best
<1>6. r # Len(sizes) => \A k \in 1 .. n : pcb_table[k].partition # r
  BY <1>5 DEF Suits, ProcessesInPlace
<1>7. r # Len(sizes) => program_size <= sizes[r]
  BY <1>1, <1>5, SizesType DEF Suits, TypeOK
<1>8. status' \in [Partitions -> {"free", "occupied"}]
  BY LoadType DEF TypeOK
<1> HIDE DEF n, r
<1>9. \A j \in 1 .. n : status'[pcb_table'[j].partition] = "occupied"
  <2>1. ASSUME NEW j \in 1 .. n, j # n
        PROVE  status'[pcb_table'[j].partition] = "occupied"
    <3>1. status[pcb_table[j].partition] = "occupied"
      BY DEF ProcessesInPlace, n
    <3>. QED
      BY <2>1, <3>1, <1>2, <1>3, <1>4
  <2>. QED
    BY <2>1, <1>2, <1>3
<1>10. ASSUME NEW j \in 1 .. n, pcb_table'[j].partition # Len(sizes)
       PROVE  pcb_table'[j].size <= sizes[pcb_table'[j].partition]
  <2>1. CASE j = n
    BY <2>1, <1>2, <1>7, <1>10
  <2>2. CASE j # n
    BY <2>2, <1>2, <1>10 DEF ProcessesInPlace, n
  <2>. QED
    BY <2>1, <2>2
<1>11. ASSUME NEW j \in 1 .. n, NEW k \in 1 .. n,
              pcb_table'[j].partition # Len(sizes),
              pcb_table'[k].partition = pcb_table'[j].partition
       PROVE  pcb_table'[k].name = pcb_table'[j].name /\ pcb_table'[k].size = pcb_table'[j].size
  <2>1. CASE j = n /\ k = n
    BY <2>1
  <2>2. CASE j # n /\ k # n
    BY <2>2, <1>2, <1>11 DEF ProcessesInPlace, n
  <2>3. CASE j = n /\ k # n
    BY <2>3, <1>2, <1>6, <1>11
  <2>4. CASE j # n /\ k = n
    BY <2>4, <1>2, <1>6, <1>11
  <2>. QED
    BY <2>1, <2>2, <2>3, <2>4
<1>. QED
  BY <1>2, <1>9, <1>10, <1>11 DEF ProcessesInPlace

LEMMA PlaceStep ==
  TypeOK /\ AtExec /\ SearchSoFar /\ ProcessesInPlace /\ [Next]_vars => ProcessesInPlace'
<1> SUFFICES ASSUME TypeOK, AtExec, SearchSoFar, ProcessesInPlace, [Next]_vars
             PROVE  ProcessesInPlace'
  OBVIOUS
<1>1. CASE simulate_fork
  BY <1>1, ForkSharesPlace
<1>2. CASE Load
  BY <1>2, LoadKeepsPlaces
<1>3. CASE UNCHANGED <<pcb_table, status>>
  BY <1>3 DEF ProcessesInPlace
<1>4. [Next]_vars => simulate_fork \/ Load \/ UNCHANGED <<pcb_table, status>>
  BY DEF Next, simulate_cpu, simulate_syscall, PassOver, Lookup, Crash, Compare,
         Return, TraceEnds, Terminated, vars
<1>. QED
  BY <1>1, <1>2, <1>3, <1>4

LEMMA InitPlaces == Init => ProcessesInPlace
<1> SUFFICES ASSUME Init PROVE ProcessesInPlace
  OBVIOUS
<1>1. /\ Len(pcb_table) = 1 /\ pcb_table[1].partition = Len(sizes)
      /\ status[Len(sizes)] = "occupied"
  BY SizesType DEF Init, PCB, Partitions
<1>. QED
  BY <1>1 DEF ProcessesInPlace

(* Every process is in an occupied partition, and outside the last one it  *)
(* fits and shares with its copies only.                                   *)
THEOREM ProcessesStayInPlace == Spec => []ProcessesInPlace
<1> DEFINE Inv == TypeOK /\ AtExec /\ SearchSoFar /\ ProcessesInPlace
<1>1. Init => Inv
  BY InitType, InitPlaces DEF Init, SearchSoFar
<1>2. Inv /\ [Next]_vars => Inv'
  BY TypeStep, SearchStep, PlaceStep
<1>. QED
  BY <1>1, <1>2, PTL DEF Spec

-----------------------------------------------------------------------------
(***************************************************************************)
(* What a file stands for.  Given what the programs that it executes stand *)
(* for, its lines are gone through from the last to the first; and when no *)
(* program executes itself, directly or through others, the programs are   *)
(* gone through from those that execute none.                              *)
(***************************************************************************)
NextOf(file, e, h, k) ==
  IF k \notin DOMAIN file THEN <<>>
  ELSE <<file[k]>> \o (IF file[k].op = "EXEC" THEN e[file[k].name] ELSE <<>>) \o h[k + 1]

Known(file, e) ==
  \A k \in DOMAIN file : file[k].op = "EXEC" => e[file[k].name] \in Seq(Lines)

LEMMA NextOfType ==
  ASSUME NEW file \in Seq(Lines), NEW e, Known(file, e),
         NEW k \in Nat, NEW h, h[k + 1] \in Seq(Lines)
  PROVE  NextOf(file, e, h, k) \in Seq(Lines)
<1>1. CASE k \notin DOMAIN file
  BY <1>1 DEF NextOf
<1>2. CASE k \in DOMAIN file
  <2> DEFINE called == IF file[k].op = "EXEC" THEN e[file[k].name] ELSE <<>>
  <2>1. file[k] \in Lines
    BY <1>2, LenProperties, ElementOfSeq
  <2>2. <<file[k]>> \in Seq(Lines)
    BY <2>1
  <2>3. called \in Seq(Lines)
    BY <1>2 DEF Known
  <2>4. NextOf(file, e, h, k) = <<file[k]>> \o called \o h[k + 1]
    BY <1>2 DEF NextOf
  <2>. HIDE DEF called
  <2>5. <<file[k]>> \o called \in Seq(Lines)
    BY <2>2, <2>3, ConcatProperties
  <2>. QED
    BY <2>4, <2>5, ConcatProperties
<1>. QED
  BY <1>1, <1>2

LEMMA FileExpands ==
  ASSUME NEW file \in Seq(Lines), NEW e, Known(file, e)
  PROVE  \E h \in [Nat -> Seq(Lines)] : \A k \in Nat : h[k] = NextOf(file, e, h, k)
<1> DEFINE From(h, k) == \A j \in Nat : j >= k => h[j] = NextOf(file, e, h, j)
           T == {k \in Nat : \E h \in [Nat -> Seq(Lines)] : From(h, k)}
<1>1. Len(file) \in Nat /\ DOMAIN file = 1 .. Len(file)
  BY LenProperties
<1>2. ASSUME NEW k \in Nat, k > Len(file) PROVE k \in T
  <2> DEFINE none == [j \in Nat |-> <<>>]
  <2>1. none \in [Nat -> Seq(Lines)]
    OBVIOUS
  <2>2. ASSUME NEW j \in Nat, j >= k PROVE none[j] = NextOf(file, e, none, j)
    <3>1. j \notin DOMAIN file
      BY <1>1, <1>2, <2>2
    <3>. QED
      BY <3>1 DEF NextOf
  <2>. HIDE DEF none
  <2>. QED
    BY <2>1, <2>2
<1>3. ASSUME NEW k \in 0 .. Len(file), k + 1 \in T PROVE k \in T
  <2>1. PICK h \in [Nat -> Seq(Lines)] : From(h, k + 1)
    BY <1>3
  <2>2. k \in Nat /\ k + 1 \in Nat /\ k # k + 1
    BY <1>1
  <2> DEFINE new == NextOf(file, e, h, k)
             g == [h EXCEPT ![k] = new]
  <2>3. new \in Seq(Lines)
    BY <2>2, NextOfType
  <2>. HIDE DEF new
  <2>4. g \in [Nat -> Seq(Lines)] /\ g[k] = new /\ \A j \in Nat : j # k => g[j] = h[j]
    BY <2>2, <2>3
  <2>. HIDE DEF g
  <2>5. ASSUME NEW j \in Nat, j >= k PROVE g[j] = NextOf(file, e, g, j)
    <3>1. j + 1 \in Nat /\ j + 1 # k
      BY <2>2, <2>5
    <3>2. g[j + 1] = h[j + 1]
      BY <2>4, <3>1
    <3>3. NextOf(file, e, g, j) = NextOf(file, e, h, j)
      BY <3>2 DEF NextOf
    <3>4. CASE j = k
      BY <2>4, <3>3, <3>4 DEF new
    <3>5. CASE j # k
      <4>1. j >= k + 1
        BY <2>2, <2>5, <3>5
      <4>. QED
        BY <2>1, <2>4, <3>3, <3>5, <4>1
    <3>. QED
      BY <3>4, <3>5
  <2>. QED
    BY <2>2, <2>4, <2>5
<1>4. 0 \in T
  <2>. HIDE DEF T
  <2>1. \A k \in Nat : k \in T
    BY <1>1, <1>2, <1>3, DownFrom
  <2>. QED
    BY <2>1
<1>5. PICK h \in [Nat -> Seq(Lines)] : From(h, 0)
  BY <1>4
<1>6. \A k \in Nat : h[k] = NextOf(file, e, h, k)
  BY <1>5
<1>. QED
  BY <1>6

LEMMA FileType ==
  ASSUME NEW file \in Seq(Lines), NEW e, Known(file, e),
         NEW h, \A k \in Nat : h[k] = NextOf(file, e, h, k)
  PROVE  \A k \in Nat : h[k] \in Seq(Lines)
<1> DEFINE T == {k \in Nat : h[k] \in Seq(Lines)}
<1>1. Len(file) \in Nat /\ DOMAIN file = 1 .. Len(file)
  BY LenProperties
<1>2. ASSUME NEW k \in Nat, k > Len(file) PROVE k \in T
  <2>1. k \notin DOMAIN file
    BY <1>1, <1>2
  <2>2. h[k] = <<>>
    BY <2>1 DEF NextOf
  <2>3. <<>> \in Seq(Lines)
    OBVIOUS
  <2>. QED
    BY <2>2, <2>3
<1>3. ASSUME NEW k \in 0 .. Len(file), k + 1 \in T PROVE k \in T
  <2>1. k \in Nat /\ h[k + 1] \in Seq(Lines)
    BY <1>1, <1>3
  <2>2. NextOf(file, e, h, k) \in Seq(Lines)
    BY <2>1, NextOfType
  <2>. QED
    BY <2>1, <2>2
<1>4. \A k \in Nat : k \in T
  <2>. HIDE DEF T
  <2>. QED
    BY <1>1, <1>2, <1>3, DownFrom
<1>. QED
  BY <1>4

(* No program executes itself, and there is a limit to how deep they nest. *)
Nests(dir, rank) ==
  \A name \in Files : \A k \in DOMAIN dir.file[name] :
    dir.file[name][k].op = "EXEC" => rank[dir.file[name][k].name] < rank[name]

Terminates(dir) == \E depth \in Nat : \E rank \in [Files -> 0 .. depth] : Nests(dir, rank)

(* What the programs stand for, given by a table of files and lines.       *)
Expands(e, file, name) ==
  \A k \in Nat : e[name][k] = NextOf(file, [x \in Names |-> e[x][1]], e[name], k)

LEMMA FilesType ==
  ASSUME Readable(input)
  PROVE  \A name \in Files : /\ input.file[name] \in Seq(Lines)
                             /\ \A k \in DOMAIN input.file[name] :
                                  input.file[name][k].op = "EXEC" => input.file[name][k].name \in Names
<1> SUFFICES ASSUME NEW name \in Files
             PROVE  /\ input.file[name] \in Seq(Lines)
                    /\ \A k \in DOMAIN input.file[name] :
                         input.file[name][k].op = "EXEC" => input.file[name][k].name \in Names
  OBVIOUS
<1> DEFINE file == input.file[name]
<1>1. file \in Seq(Lines)
  BY DEF Readable, Files
<1>. HIDE DEF file
<1>2. \A k \in DOMAIN file : file[k] \in Lines
  BY <1>1, LenProperties, ElementOfSeq
<1>3. \A k \in DOMAIN file : file[k].op = "EXEC" => file[k].name \in Names
  BY <1>2, LineFields
<1>. QED
  BY <1>1, <1>3 DEF file

(* The next line of a file depends on the programs that the file executes. *)
LEMMA NextOfAlike ==
  ASSUME NEW file, NEW e, NEW g, NEW h, NEW k,
         \A j \in DOMAIN file : file[j].op = "EXEC" => e[file[j].name] = g[file[j].name]
  PROVE  NextOf(file, e, h, k) = NextOf(file, g, h, k)
  BY DEF NextOf

LEMMA FilesExpand ==
  ASSUME Readable(input), Terminates(input)
  PROVE  \E e \in [Files -> [Nat -> Seq(Lines)]] :
           \A name \in Files : Expands(e, input.file[name], name)
<1>0. PICK depth \in Nat : \E rank \in [Files -> 0 .. depth] : Nests(input, rank)
  BY DEF Terminates
<1>1. PICK rank \in [Files -> 0 .. depth] : Nests(input, rank)
  BY <1>0
<1> DEFINE Below(e, m) ==
             \A name \in Files : rank[name] < m => Expands(e, input.file[name], name)
           T == {m \in 0 .. depth + 1 : \E e \in [Files -> [Nat -> Seq(Lines)]] : Below(e, m)}
<1>2. \A name \in Files : rank[name] \in 0 .. depth
  BY <1>1
<1>3. Names \subseteq Files
  BY DEF Files
<1>4. 0 \in T
  <2> DEFINE none == [name \in Files |-> [k \in Nat |-> <<>>]]
  <2>1. none \in [Files -> [Nat -> Seq(Lines)]]
    OBVIOUS
  <2>. HIDE DEF none, Expands
  <2>2. Below(none, 0)
    BY <1>2
  <2>. HIDE DEF Below
  <2>. QED
    BY <2>1, <2>2
<1>5. ASSUME NEW m \in 0 .. (depth + 1) - 1, m \in T PROVE m + 1 \in T
  <2>1. PICK e \in [Files -> [Nat -> Seq(Lines)]] : Below(e, m)
    BY <1>5
  <2> DEFINE first(t) == [x \in Names |-> t[x][1]]
             Good(name, h) == \A k \in Nat : h[k] = NextOf(input.file[name], first(e), h, k)
  <2>2. \A name \in Files : \E h \in [Nat -> Seq(Lines)] : Good(name, h)
    <3> SUFFICES ASSUME NEW name \in Files
                 PROVE  \E h \in [Nat -> Seq(Lines)] : Good(name, h)
      OBVIOUS
    <3>1. \A x \in Names : first(e)[x] \in Seq(Lines)
      BY <1>3
    <3>. HIDE DEF first
    <3>2. Known(input.file[name], first(e))
      BY <3>1, FilesType DEF Known
    <3>3. input.file[name] \in Seq(Lines)
      BY FilesType
    <3>. QED
      BY <3>2, <3>3, FileExpands
  <2> DEFINE new == [name \in Files |-> CHOOSE h \in [Nat -> Seq(Lines)] : Good(name, h)]
             g == [name \in Files |-> IF rank[name] = m THEN new[name] ELSE e[name]]
  <2>3. \A name \in Files : new[name] \in [Nat -> Seq(Lines)] /\ Good(name, new[name])
    <3>. HIDE DEF Good
    <3>. QED
      BY <2>2
  <2>. HIDE DEF new
  <2>4. g \in [Files -> [Nat -> Seq(Lines)]]
    BY <2>3
  <2>5. \A name \in Files : g[name] = IF rank[name] = m THEN new[name] ELSE e[name]
    OBVIOUS
  <2>. HIDE DEF g
  <2>6. \A x \in Names : rank[x] < m => first(g)[x] = first(e)[x]
    <3> SUFFICES ASSUME NEW x \in Names, rank[x] < m PROVE first(g)[x] = first(e)[x]
      OBVIOUS
    <3>1. g[x] = e[x]
      <4>1. rank[x] # m
        BY <1>2, <1>3
      <4>. QED
        BY <1>3, <2>5, <4>1
    <3>. QED
      BY <3>1
  <2>7. ASSUME NEW name \in Files, rank[name] < m + 1, NEW h, NEW k
        PROVE  NextOf(input.file[name], first(g), h, k) = NextOf(input.file[name], first(e), h, k)
    <3>1. \A j \in DOMAIN input.file[name] :
            input.file[name][j].op = "EXEC" =>
              input.file[name][j].name \in Names /\ rank[input.file[name][j].name] < m
      <4>1. \A j \in DOMAIN input.file[name] :
              input.file[name][j].op = "EXEC" =>
                /\ input.file[name][j].name \in Names
                /\ rank[input.file[name][j].name] < rank[name]
        BY <1>1, FilesType DEF Nests
      <4>2. \A x \in Names : rank[x] < rank[name] => rank[x] < m
        BY <1>2, <1>3, <2>7
      <4>. QED
        BY <4>1, <4>2
    <3> DEFINE file == input.file[name]
               G == first(g)
               E == first(e)
    <3>2. \A j \in DOMAIN file : file[j].op = "EXEC" => G[file[j].name] = E[file[j].name]
      <4>. HIDE DEF first
      <4>. QED
        BY <2>6, <3>1
    <3>. HIDE DEF file, G, E
    <3>3. NextOf(file, G, h, k) = NextOf(file, E, h, k)
      BY <3>2, NextOfAlike
    <3>. QED
      BY <3>3 DEF file, G, E
  <2>8. ASSUME NEW name \in Files, rank[name] < m + 1 PROVE Expands(g, input.file[name], name)
    <3>1. CASE rank[name] = m
      <4>1. g[name] = new[name] /\ Good(name, g[name])
        BY <2>3, <2>5, <3>1
      <4>. QED
        BY <2>7, <2>8, <4>1 DEF Expands
    <3>2. CASE rank[name] # m
      <4>1. rank[name] < m
        BY <1>2, <2>8, <3>2
      <4>2. g[name] = e[name]
        BY <2>5, <3>2
      <4>3. Expands(e, input.file[name], name)
        BY <2>1, <4>1
      <4>4. \A k \in Nat : NextOf(input.file[name], first(g), e[name], k)
                           = NextOf(input.file[name], first(e), e[name], k)
        BY <2>7, <2>8
      <4>. QED
        BY <4>2, <4>3, <4>4 DEF Expands
    <3>. QED
      BY <3>1, <3>2
  <2>9. Below(g, m + 1)
    BY <2>8
  <2>10. m + 1 \in 0 .. depth + 1
    OBVIOUS
  <2>. HIDE DEF Below
  <2>. QED
    BY <2>4, <2>9, <2>10
<1>6. depth + 1 \in T
  <2>1. depth + 1 \in Nat
    OBVIOUS
  <2>. HIDE DEF T
  <2>2. \A m \in 0 .. depth + 1 : m \in T
    BY <1>4, <1>5, <2>1, UpTo
  <2>. QED
    BY <2>2
<1>7. PICK e \in [Files -> [Nat -> Seq(Lines)]] : Below(e, depth + 1)
  BY <1>6
<1>8. \A name \in Files : rank[name] < depth + 1
  BY <1>2
<1>. QED
  BY <1>7, <1>8

(* `expand` is such a table, and there is no more to it than sequences.    *)
LEMMA ExpandIs ==
  ASSUME Readable(input), Terminates(input)
  PROVE  \A name \in Files : Expands(expand, input.file[name], name)
<1> DEFINE B(f, name) == [k \in Nat |->
              IF k \notin DOMAIN input.file[name] THEN <<>>
              ELSE LET l == input.file[name][k]
                   IN  <<l>> \o (IF l.op = "EXEC" THEN f[l.name][1] ELSE <<>>) \o f[name][k + 1]]
           P(f) == f = [name \in Files |-> B(f, name)]
<1>1. PICK e \in [Files -> [Nat -> Seq(Lines)]] :
        \A name \in Files : Expands(e, input.file[name], name)
  BY FilesExpand
<1>2. ASSUME NEW f, NEW name \in Files, NEW k \in Nat
      PROVE  B(f, name)[k] = NextOf(input.file[name], [x \in Names |-> f[x][1]], f[name], k)
  <2>1. CASE k \notin DOMAIN input.file[name]
    BY <2>1 DEF NextOf
  <2>2. CASE k \in DOMAIN input.file[name]
    <3> DEFINE l == input.file[name][k]
    <3>1. l.op = "EXEC" => l.name \in Names
      BY <2>2, FilesType
    <3>2. B(f, name)[k] =
            <<l>> \o (IF l.op = "EXEC" THEN f[l.name][1] ELSE <<>>) \o f[name][k + 1]
      BY <2>2
    <3>3. (IF l.op = "EXEC" THEN f[l.name][1] ELSE <<>>) =
            (IF l.op = "EXEC" THEN [x \in Names |-> f[x][1]][l.name] ELSE <<>>)
      BY <3>1
    <3>. HIDE DEF B
    <3>. QED
      BY <2>2, <3>2, <3>3 DEF NextOf
  <2>. QED
    BY <2>1, <2>2
<1>3. P(e)
  <2>1. ASSUME NEW name \in Files PROVE e[name] = B(e, name)
    <3>1. e[name] \in [Nat -> Seq(Lines)] /\ \A k \in Nat : e[name][k] = B(e, name)[k]
      <4>. HIDE DEF B
      <4>. QED
        BY <1>1, <1>2 DEF Expands
    <3>2. B(e, name) = [k \in Nat |-> B(e, name)[k]]
      OBVIOUS
    <3>. HIDE DEF B
    <3>. QED
      BY <3>1, <3>2
  <2>. HIDE DEF B
  <2>. QED
    BY <2>1
<1>4. expand = CHOOSE f : P(f)
  BY DEF expand
<1>5. P(expand)
  <2>. HIDE DEF P
  <2>. QED
    BY <1>3, <1>4
<1>6. \A name \in Files : expand[name] = B(expand, name)
  <2>. HIDE DEF B
  <2>. QED
    BY <1>5
<1>. HIDE DEF B, P
<1>. QED
  BY <1>2, <1>6 DEF Expands

LEMMA ExpandType ==
  ASSUME Readable(input), Terminates(input)
  PROVE  \A name \in Files : \A k \in Nat : expand[name][k] \in Seq(Lines)
<1>0. PICK depth \in Nat : \E rank \in [Files -> 0 .. depth] : Nests(input, rank)
  BY DEF Terminates
<1>1. PICK rank \in [Files -> 0 .. depth] : Nests(input, rank)
  BY <1>0
<1> DEFINE T == {m \in 0 .. depth + 1 : \A name \in Files : rank[name] < m =>
                   \A k \in Nat : expand[name][k] \in Seq(Lines)}
<1>2. \A name \in Files : rank[name] \in 0 .. depth
  BY <1>1
<1>3. 0 \in T
  BY <1>2
<1>4. ASSUME NEW m \in 0 .. (depth + 1) - 1, m \in T PROVE m + 1 \in T
  <2>1. ASSUME NEW name \in Files, rank[name] < m + 1
        PROVE  \A k \in Nat : expand[name][k] \in Seq(Lines)
    <3> DEFINE file == input.file[name]
               first == [x \in Names |-> expand[x][1]]
    <3>1. \A j \in DOMAIN file : file[j].op = "EXEC" =>
            file[j].name \in Names /\ rank[file[j].name] < rank[name]
      BY <1>1, FilesType DEF Nests
    <3>2. \A x \in Names : x \in Files
      BY DEF Files
    <3>3. \A x \in Names : rank[x] < rank[name] => first[x] \in Seq(Lines)
      <4> SUFFICES ASSUME NEW x \in Names, rank[x] < rank[name] PROVE first[x] \in Seq(Lines)
        OBVIOUS
      <4>1. rank[x] < m
        BY <1>2, <2>1, <3>2
      <4>2. expand[x][1] \in Seq(Lines)
        BY <1>4, <3>2, <4>1
      <4>. QED
        BY <4>2
    <3>4. file \in Seq(Lines)
      BY FilesType
    <3>5. \A k \in Nat : expand[name][k] = NextOf(file, first, expand[name], k)
      BY ExpandIs DEF Expands
    <3>. HIDE DEF file, first
    <3>6. Known(file, first)
      BY <3>1, <3>3 DEF Known
    <3>. QED
      BY <3>4, <3>5, <3>6, FileType
  <2>2. m + 1 \in 0 .. depth + 1
    OBVIOUS
  <2>. QED
    BY <2>1, <2>2
<1>5. depth + 1 \in T
  <2>1. depth + 1 \in Nat
    OBVIOUS
  <2>. HIDE DEF T
  <2>2. \A m \in 0 .. depth + 1 : m \in T
    BY <1>3, <1>4, <2>1, UpTo
  <2>. QED
    BY <2>1, <2>2
<1>6. \A name \in Files : rank[name] < depth + 1
  BY <1>2
<1>. QED
  BY <1>5, <1>6

(* What is left of a file: nothing past its end, and before it the line at *)
(* hand, what its program stands for, and what is left after it.           *)
LEMMA ExpandLine ==
  ASSUME Readable(input), Terminates(input), NEW name \in Files, NEW k \in Nat \ {0}
  PROVE  /\ k > Len(input.file[name]) => expand[name][k] = <<>>
         /\ k <= Len(input.file[name]) =>
              LET l == input.file[name][k]
              IN  /\ l.op = "EXEC" =>
                       expand[name][k] = <<l>> \o expand[l.name][1] \o expand[name][k + 1]
                  /\ l.op # "EXEC" => expand[name][k] = <<l>> \o expand[name][k + 1]
<1> DEFINE file == input.file[name]
           first == [x \in Names |-> expand[x][1]]
<1>1. file \in Seq(Lines) /\ \A j \in DOMAIN file : file[j].op = "EXEC" => file[j].name \in Names
  BY FilesType
<1>2. expand[name][k] = NextOf(file, first, expand[name], k)
  BY ExpandIs DEF Expands
<1>3. Len(file) \in Nat /\ DOMAIN file = 1 .. Len(file)
  BY <1>1, LenProperties
<1>4. \A x \in Names : first[x] = expand[x][1]
  OBVIOUS
<1>. HIDE DEF file, first
<1>5. k > Len(file) => expand[name][k] = <<>>
  BY <1>2, <1>3 DEF NextOf
<1>6. ASSUME k <= Len(file), file[k].op = "EXEC"
      PROVE  expand[name][k] = <<file[k]>> \o expand[file[k].name][1] \o expand[name][k + 1]
  <2>1. k \in DOMAIN file
    BY <1>3, <1>6
  <2>2. first[file[k].name] = expand[file[k].name][1]
    BY <1>1, <1>4, <1>6, <2>1
  <2>. QED
    BY <1>2, <1>6, <2>1, <2>2 DEF NextOf
<1>7. ASSUME k <= Len(file), file[k].op # "EXEC"
      PROVE  expand[name][k] = <<file[k]>> \o expand[name][k + 1]
  <2>1. k \in DOMAIN file
    BY <1>3, <1>7
  <2>2. <<file[k]>> \o <<>> = <<file[k]>>
    OBVIOUS
  <2>. QED
    BY <1>2, <1>7, <2>1, <2>2 DEF NextOf
<1>. QED
  BY <1>5, <1>6, <1>7 DEF file

-----------------------------------------------------------------------------
(***************************************************************************)
(* What is still to be run: for each call on the stack what is left of its *)
(* file, and then what is left to its callers.  It always makes up, with   *)
(* the lines executed so far, what the trace stands for.                   *)
(***************************************************************************)
StandsFor(e, c, l, S) ==
  S[0] = <<>> /\ \A d \in 1 .. Len(c) : S[d] = e[c[d]][l[d]] \o S[d - 1]

LeftToRun ==
  \E S \in [0 .. Len(calls) -> Seq(Lines)] :
    StandsFor(expand, calls, line, S) /\ ran \o S[Len(calls)] = expand["trace"][1]

(* The depth of the stack.                                                 *)
LEMMA Depth ==
  ASSUME TypeOK
  PROVE  /\ Len(calls) \in Nat \ {0} /\ Len(line) = Len(calls)
         /\ DOMAIN line = 1 .. Len(calls) /\ DOMAIN calls = 1 .. Len(calls)
         /\ \A d \in 1 .. Len(calls) : calls[d] \in Files /\ line[d] \in Nat \ {0}
<1>1. calls \in Seq(Files) /\ line \in Seq(Nat \ {0}) /\ Len(line) = Len(calls) /\ calls # <<>>
  BY DEF TypeOK, Files
<1>2. Len(calls) \in Nat \ {0} /\ DOMAIN line = 1 .. Len(calls) /\ DOMAIN calls = 1 .. Len(calls)
  BY <1>1, LenProperties, EmptySeq
<1>. QED
  BY <1>1, <1>2, ElementOfSeq

LEMMA SameExpand == input' = input => expand' = expand
  BY DEF expand

(* Sequences put together from the left or from the right.                 *)
LEMMA Associative == \A s, t, u \in Seq(Lines) : (s \o t) \o u = s \o (t \o u)
  OBVIOUS

LEMMA AssociativeMore ==
  \A s, t, u, v \in Seq(Lines) : ((s \o t) \o u) \o v = s \o (t \o (u \o v))
<1>. TAKE s, t, u, v \in Seq(Lines)
<1>1. PICK st \in Seq(Lines) : st = s \o t
  BY ConcatProperties, Zenon
<1>2. PICK uv \in Seq(Lines) : uv = u \o v
  BY ConcatProperties, Zenon
<1>3. \A w \in Seq(Lines) : (st \o u) \o w = st \o (u \o w)
  BY Associative, Zenon
<1>4. \A w \in Seq(Lines) : (s \o t) \o w = s \o (t \o w)
  BY Associative, Zenon
<1>5. (st \o u) \o v = st \o uv /\ (s \o t) \o uv = s \o (t \o uv)
  BY <1>2, <1>3, <1>4, Zenon
<1>. QED
  BY <1>1, <1>2, <1>5, Zenon

(* The line at hand is the first of what is left.                          *)
LEMMA FirstLeft ==
  ASSUME TypeOK, Terminates(input), line[Len(line)] <= Len(File),
         NEW S \in [0 .. Len(calls) -> Seq(Lines)], StandsFor(expand, calls, line, S),
         NEW rest, rest = expand[calls[Len(calls)]][line[Len(line)] + 1] \o S[Len(calls) - 1]
  PROVE  /\ rest \in Seq(Lines) /\ Line \in Lines
         /\ Line.op # "EXEC" => S[Len(calls)] = <<Line>> \o rest
         /\ Line.op = "EXEC" => /\ expand[Line.name][1] \in Seq(Lines)
                                /\ S[Len(calls)] = <<Line>> \o (expand[Line.name][1] \o rest)
<1>1. PICK n \in Nat \ {0} : n = Len(calls) /\ n = Len(line)
  BY Depth
<1>2. n \in 1 .. n /\ n - 1 \in 0 .. n
  OBVIOUS
<1>3. PICK name \in Files : name = calls[n]
  BY <1>1, <1>2, Depth
<1>4. PICK k \in Nat \ {0} : k = line[n]
  BY <1>1, <1>2, Depth
<1>5. Readable(input)
  BY DEF TypeOK
<1>6. PICK up \in Seq(Lines) : up = S[n - 1]
  BY <1>1, <1>2
<1>7. PICK after \in Seq(Lines) : after = expand[name][k + 1]
  BY <1>5, ExpandType
<1>8. PICK l \in Lines : l = Line
  BY LineType
<1>9. PICK first \in Seq(Lines) : first = <<l>>
  <2>1. <<l>> \in Seq(Lines)
    OBVIOUS
  <2>. QED
    BY <2>1, Zenon
<1>10. S[n] = expand[name][k] \o up
  BY <1>1, <1>2, <1>3, <1>4, <1>6 DEF StandsFor
<1>11. l = input.file[name][k] /\ k <= Len(input.file[name])
  BY <1>1, <1>3, <1>4, <1>8 DEF Line, File
<1>12. rest = after \o up
  BY <1>1, <1>3, <1>4, <1>6, <1>7
<1>13. rest \in Seq(Lines)
  BY <1>12, ConcatProperties
<1>14. ASSUME l.op # "EXEC" PROVE S[n] = first \o rest
  <2>1. S[n] = (first \o after) \o up
    BY <1>5, <1>7, <1>9, <1>10, <1>11, <1>14, ExpandLine
  <2>2. \A w \in Seq(Lines) : (first \o after) \o w = first \o (after \o w)
    BY Associative, Zenon
  <2>. QED
    BY <1>12, <2>1, <2>2, Zenon
<1>15. ASSUME l.op = "EXEC"
       PROVE  /\ expand[l.name][1] \in Seq(Lines)
              /\ S[n] = first \o (expand[l.name][1] \o rest)
  <2>1. l.name \in Files
    BY <1>15, LineFields DEF Files
  <2>2. PICK body \in Seq(Lines) : body = expand[l.name][1]
    BY <1>5, <2>1, ExpandType
  <2>3. S[n] = ((first \o body) \o after) \o up
    BY <1>5, <1>7, <1>9, <1>10, <1>11, <1>15, <2>2, ExpandLine
  <2>4. \A v, w \in Seq(Lines) : ((first \o body) \o v) \o w = first \o (body \o (v \o w))
    BY AssociativeMore, Zenon
  <2>5. ((first \o body) \o after) \o up = first \o (body \o (after \o up))
    BY <2>4, Zenon
  <2>6. S[n] = first \o (body \o rest)
    BY <1>12, <2>3, <2>5, Zenon
  <2>. QED
    BY <2>2, <2>6
<1>. QED
  BY <1>1, <1>8, <1>9, <1>13, <1>14, <1>15

(* What has been run, with one line more.                                  *)
LEMMA OneMoreRun ==
  ASSUME NEW r \in Seq(Lines), NEW l \in Lines, NEW rest \in Seq(Lines)
  PROVE  Append(r, l) \o rest = r \o (<<l>> \o rest)
<1>1. Append(r, l) = r \o <<l>>
  BY AppendIsConcat
<1>2. PICK one \in Seq(Lines) : one = <<l>>
  <2>1. <<l>> \in Seq(Lines)
    OBVIOUS
  <2>. QED
    BY <2>1, Zenon
<1>3. (r \o one) \o rest = r \o (one \o rest)
  BY Associative, Zenon
<1>. QED
  BY <1>1, <1>2, <1>3, Zenon

LEMMA LeftAfterLine ==
  ASSUME TypeOK, Terminates(input), ran \in Seq(Lines), LeftToRun,
         AtLine, Line.op # "EXEC", NextLine, UNCHANGED <<input, calls>>,
         ran' = Append(ran, Line)
  PROVE  LeftToRun'
<1>1. PICK S \in [0 .. Len(calls) -> Seq(Lines)] :
        StandsFor(expand, calls, line, S) /\ ran \o S[Len(calls)] = expand["trace"][1]
  BY DEF LeftToRun
<1>2. PICK n \in Nat \ {0} : n = Len(calls)
  BY Depth
<1>3. PICK rest : rest = expand[calls[n]][line[n] + 1] \o S[n - 1]
  OBVIOUS
<1>4. Len(line) = n /\ line[n] <= Len(File)
  BY <1>2, Depth DEF AtLine
<1>5. rest \in Seq(Lines) /\ Line \in Lines /\ S[n] = <<Line>> \o rest
  BY <1>1, <1>2, <1>3, <1>4, FirstLeft
<1>6. PICK S2 \in [0 .. n -> Seq(Lines)] :
        S2[n] = rest /\ \A d \in 0 .. n - 1 : S2[d] = S[d]
  <2> DEFINE s2 == [S EXCEPT ![n] = rest]
  <2>1. S \in [0 .. n -> Seq(Lines)]
    BY <1>2
  <2>2. s2 \in [0 .. n -> Seq(Lines)] /\ s2[n] = rest /\ \A d \in 0 .. n - 1 : s2[d] = S[d]
    BY <1>2, <1>5, <2>1
  <2>. QED
    BY <2>2
<1>7. \A d \in 1 .. n : line'[d] = IF d = n THEN line[n] + 1 ELSE line[d]
  BY <1>2, <1>4, Depth DEF NextLine
<1>8. StandsFor(expand, calls, line', S2)
  <2>1. S2[0] = <<>>
    BY <1>1, <1>6 DEF StandsFor
  <2>2. ASSUME NEW d \in 1 .. n PROVE S2[d] = expand[calls[d]][line'[d]] \o S2[d - 1]
    <3>1. CASE d = n
      <4>1. n - 1 \in 0 .. n - 1 /\ n \in 1 .. n
        BY <1>2
      <4>2. S2[n - 1] = S[n - 1] /\ line'[n] = line[n] + 1
        BY <1>6, <1>7, <4>1
      <4>. QED
        BY <1>3, <1>6, <3>1, <4>2
    <3>2. CASE d # n
      <4>1. d \in 0 .. n - 1 /\ d - 1 \in 0 .. n - 1
        BY <3>2
      <4>. QED
        BY <1>1, <1>2, <1>6, <1>7, <3>2, <4>1 DEF StandsFor
    <3>. QED
      BY <3>1, <3>2
  <2>. QED
    BY <1>2, <2>1, <2>2 DEF StandsFor
<1>9. ran' \o S2[n] = expand["trace"][1]
  <2>1. Append(ran, Line) \o rest = ran \o (<<Line>> \o rest)
    BY <1>5, OneMoreRun
  <2>. QED
    BY <1>1, <1>2, <1>5, <1>6, <2>1
<1>10. expand' = expand /\ calls' = calls
  BY SameExpand
<1>. QED
  BY <1>2, <1>6, <1>8, <1>9, <1>10 DEF LeftToRun

LEMMA LeftAfterLoad ==
  ASSUME TypeOK, AtExec, Terminates(input), ran \in Seq(Lines), LeftToRun,
         Load, ran' = Append(ran, Line)
  PROVE  LeftToRun'
<1>1. PICK S \in [0 .. Len(calls) -> Seq(Lines)] :
        StandsFor(expand, calls, line, S) /\ ran \o S[Len(calls)] = expand["trace"][1]
  BY DEF LeftToRun
<1>2. PICK n \in Nat \ {0} : n = Len(calls)
  BY Depth
<1>3. PICK rest : rest = expand[calls[n]][line[n] + 1] \o S[n - 1]
  OBVIOUS
<1>4. Len(line) = n /\ line[n] <= Len(File) /\ Line.op = "EXEC"
  BY <1>2, Depth DEF AtExec, Load
<1>5. PICK body : body = expand[Line.name][1]
  OBVIOUS
<1>6. /\ rest \in Seq(Lines) /\ Line \in Lines /\ body \in Seq(Lines)
      /\ S[n] = <<Line>> \o (body \o rest)
  BY <1>1, <1>2, <1>3, <1>4, <1>5, FirstLeft
<1>7. body \o rest \in Seq(Lines)
  BY <1>6, ConcatProperties
<1>8. PICK S2 \in [0 .. n + 1 -> Seq(Lines)] :
        S2[n + 1] = body \o rest /\ S2[n] = rest /\ \A d \in 0 .. n - 1 : S2[d] = S[d]
  <2> DEFINE s2 == [d \in 0 .. n + 1 |-> IF d = n + 1 THEN body \o rest
                                         ELSE IF d = n THEN rest ELSE S[d]]
  <2>1. S \in [0 .. n -> Seq(Lines)]
    BY <1>2
  <2>2. \A d \in 0 .. n + 1 : d = n + 1 \/ d = n \/ d \in 0 .. n
    BY <1>2
  <2>3. s2 \in [0 .. n + 1 -> Seq(Lines)]
    BY <1>6, <1>7, <2>1, <2>2
  <2>4. n + 1 \in 0 .. n + 1 /\ n \in 0 .. n + 1 /\ n # n + 1
        /\ \A d \in 0 .. n - 1 : d \in 0 .. n + 1 /\ d # n /\ d # n + 1
    BY <1>2
  <2>5. s2[n + 1] = body \o rest /\ s2[n] = rest /\ \A d \in 0 .. n - 1 : s2[d] = S[d]
    BY <2>4
  <2>. HIDE DEF s2
  <2>. QED
    BY <2>3, <2>5
<1>9. /\ Len(calls') = n + 1 /\ calls'[n + 1] = Line.name
      /\ \A d \in 1 .. n : calls'[d] = calls[d]
  <2>1. calls \in Seq(Files) /\ Line.name \in Files /\ calls' = Append(calls, Line.name)
    BY <1>4, <1>6, LineFields DEF TypeOK, Files, Load
  <2>. QED
    BY <1>2, <2>1, AppendProperties
<1>10. line'[n + 1] = 1 /\ \A d \in 1 .. n : line'[d] = IF d = n THEN line[n] + 1 ELSE line[d]
  <2> DEFINE moved == [line EXCEPT ![Len(line)] = @ + 1]
  <2>1. line \in Seq(Nat \ {0}) /\ n \in 1 .. Len(line) /\ line[n] + 1 \in Nat \ {0}
    BY <1>2, <1>4, Depth DEF TypeOK
  <2>2. /\ moved \in Seq(Nat \ {0}) /\ Len(moved) = n
        /\ \A d \in 1 .. n : moved[d] = IF d = n THEN line[n] + 1 ELSE line[d]
    BY <1>4, <2>1, ExceptSeq
  <2>3. line' = Append(moved, 1)
    BY DEF Load
  <2>. HIDE DEF moved
  <2>. QED
    BY <1>2, <2>2, <2>3, AppendProperties
<1>11. StandsFor(expand, calls', line', S2)
  <2>1. S2[0] = <<>>
    BY <1>1, <1>8 DEF StandsFor
  <2>2. ASSUME NEW d \in 1 .. n + 1 PROVE S2[d] = expand[calls'[d]][line'[d]] \o S2[d - 1]
    <3>1. CASE d = n + 1
      <4>1. d - 1 = n
        BY <1>2, <3>1
      <4>. QED
        BY <1>5, <1>8, <1>9, <1>10, <3>1, <4>1
    <3>2. CASE d = n
      <4>1. n - 1 \in 0 .. n - 1 /\ n \in 1 .. n
        BY <1>2
      <4>. QED
        BY <1>3, <1>8, <1>9, <1>10, <3>2, <4>1
    <3>3. CASE d # n /\ d # n + 1
      <4>1. d \in 0 .. n - 1 /\ d - 1 \in 0 .. n - 1 /\ d \in 1 .. n
        BY <1>2, <3>3
      <4>2. S[d] = expand[calls[d]][line[d]] \o S[d - 1]
        BY <1>1, <1>2, <4>1 DEF StandsFor
      <4>. QED
        BY <1>8, <1>9, <1>10, <3>3, <4>1, <4>2
    <3>. QED
      BY <3>1, <3>2, <3>3
  <2>. QED
    BY <1>9, <2>1, <2>2 DEF StandsFor
<1>12. ran' \o S2[n + 1] = expand["trace"][1]
  <2>1. Append(ran, Line) \o (body \o rest) = ran \o (<<Line>> \o (body \o rest))
    BY <1>6, <1>7, OneMoreRun
  <2>. QED
    BY <1>1, <1>2, <1>6, <1>8, <2>1
<1>13. expand' = expand
  BY SameExpand DEF Load
<1>. QED
  BY <1>8, <1>9, <1>11, <1>12, <1>13 DEF LeftToRun

(* At the end of a file nothing of it is left.                             *)
LEMMA NothingLeft ==
  ASSUME TypeOK, Terminates(input), line[Len(line)] > Len(File),
         NEW S \in [0 .. Len(calls) -> Seq(Lines)], StandsFor(expand, calls, line, S)
  PROVE  S[Len(calls)] = S[Len(calls) - 1]
<1> DEFINE n == Len(calls)
<1>1. n \in Nat \ {0} /\ Len(line) = n /\ calls[n] \in Files /\ line[n] \in Nat \ {0}
  BY Depth
<1>2. Readable(input)
  BY DEF TypeOK
<1>3. expand[calls[n]][line[n]] = <<>>
  BY <1>1, <1>2, ExpandLine DEF File
<1>4. S[n] = expand[calls[n]][line[n]] \o S[n - 1] /\ S[n - 1] \in Seq(Lines)
  <2>1. n \in 1 .. n /\ n - 1 \in 0 .. n
    BY <1>1
  <2>2. S[n - 1] \in Seq(Lines)
    BY <2>1
  <2>. HIDE DEF n
  <2>3. \A d \in 1 .. n : S[d] = expand[calls[d]][line[d]] \o S[d - 1]
    BY DEF StandsFor, n
  <2>. QED
    BY <2>1, <2>2, <2>3
<1>. HIDE DEF n
<1>5. S[n] = S[n - 1]
  BY <1>3, <1>4, ConcatEmptySeq
<1>. QED
  BY <1>5 DEF n

LEMMA LeftAfterReturn ==
  ASSUME TypeOK, Terminates(input), LeftToRun, Return, ran' = ran
  PROVE  LeftToRun'
<1>1. PICK S \in [0 .. Len(calls) -> Seq(Lines)] :
        StandsFor(expand, calls, line, S) /\ ran \o S[Len(calls)] = expand["trace"][1]
  BY DEF LeftToRun
<1>2. PICK n \in Nat \ {0} : n = Len(calls)
  BY Depth
<1>3. n > 1 /\ Len(line) = n /\ line[Len(line)] > Len(File)
  BY <1>2, Depth DEF Return
<1>4. S[n] = S[n - 1]
  BY <1>1, <1>2, <1>3, NothingLeft
<1>5. /\ Len(calls') = n - 1
      /\ \A d \in 1 .. n - 1 : calls'[d] = calls[d] /\ line'[d] = line[d]
  <2>1. calls' = SubSeq(calls, 1, n - 1) /\ line' = SubSeq(line, 1, n - 1)
    BY <1>2, <1>3 DEF Return, Front
  <2>2. calls \in Seq(Files) /\ line \in Seq(Nat \ {0})
    BY DEF TypeOK, Files
  <2>. QED
    BY <1>2, <1>3, <2>1, <2>2
<1>6. PICK S2 \in [0 .. n - 1 -> Seq(Lines)] : \A d \in 0 .. n - 1 : S2[d] = S[d]
  <2> DEFINE s2 == [d \in 0 .. n - 1 |-> S[d]]
  <2>1. s2 \in [0 .. n - 1 -> Seq(Lines)] /\ \A d \in 0 .. n - 1 : s2[d] = S[d]
    BY <1>2
  <2>. QED
    BY <2>1
<1>7. StandsFor(expand, calls', line', S2)
  <2>1. S2[0] = <<>>
    BY <1>1, <1>3, <1>6 DEF StandsFor
  <2>2. ASSUME NEW d \in 1 .. n - 1 PROVE S2[d] = expand[calls'[d]][line'[d]] \o S2[d - 1]
    <3>1. d \in 1 .. n /\ d \in 0 .. n - 1 /\ d - 1 \in 0 .. n - 1
      BY <1>2
    <3>2. S[d] = expand[calls[d]][line[d]] \o S[d - 1]
      BY <1>1, <1>2, <3>1 DEF StandsFor
    <3>. QED
      BY <1>5, <1>6, <3>1, <3>2
  <2>. QED
    BY <1>5, <2>1, <2>2 DEF StandsFor
<1>8. ran' \o S2[n - 1] = expand["trace"][1]
  <2>1. n - 1 \in 0 .. n - 1
    BY <1>2
  <2>. QED
    BY <1>1, <1>2, <1>4, <1>6, <2>1
<1>9. expand' = expand
  BY SameExpand DEF Return
<1>. QED
  BY <1>5, <1>6, <1>7, <1>8, <1>9 DEF LeftToRun

LEMMA LeftStays ==
  ASSUME LeftToRun, UNCHANGED <<input, calls, line, ran>>
  PROVE  LeftToRun'
<1>1. expand' = expand /\ calls' = calls /\ line' = line /\ ran' = ran
  BY SameExpand
<1>. QED
  BY <1>1 DEF LeftToRun

-----------------------------------------------------------------------------
(***************************************************************************)
(* The clock: the costs of the lines executed so far, and of an EXEC the   *)
(* part that comes before its search, or before the trap.                  *)
(***************************************************************************)
SumsTo(C, r) == C[0] = 0 /\ \A k \in 1 .. Len(r) : C[k] = C[k - 1] + Cost(r[k])

Searching == IF pc = "search" THEN 36 ELSE IF pc = "crashed" THEN 6 ELSE 0

ClockRuns ==
  \E C \in [0 .. Len(ran) -> Int] : SumsTo(C, ran) /\ current_time = C[Len(ran)] + Searching

LEMMA RoundedOff ==
  ASSUME NEW d \in Int
  PROVE  Third(d) + Third(d * 2) = d - Lost(d) /\ Lost(d) \in Int
<1>1. CASE d >= 0
  BY <1>1 DEF Third, Lost
<1>2. CASE d < 0
  <2>1. PICK m \in Nat : d = -m
    BY <1>2
  <2>2. m \div 3 + (m * 2) \div 3 = m - (IF m % 3 = 0 THEN 0 ELSE 1)
    OBVIOUS
  <2>3. Third(d) = -(m \div 3) /\ Third(d * 2) = -((m * 2) \div 3)
    BY <1>2, <2>1 DEF Third
  <2>4. Lost(d) = IF m % 3 = 0 THEN 0 ELSE -1
    BY <1>2, <2>1 DEF Lost
  <2>5. m \div 3 \in Int /\ (m * 2) \div 3 \in Int
    OBVIOUS
  <2>. QED
    BY <2>1, <2>2, <2>3, <2>4, <2>5
<1>. QED
  BY <1>1, <1>2

LEMMA CostType == ASSUME NEW l \in Lines PROVE Cost(l) \in Int
<1>1. \/ l.op = "FORK" \/ l.op = "END_IO" \/ l.op = "EXEC"
      \/ l.op \in {"CPU", "SYSCALL"} /\ l.duration \in Int
  BY DEF Lines
<1>. QED
  BY <1>1, RoundedOff DEF Cost

LEMMA ClockAfterLine ==
  ASSUME ran \in Seq(Lines), ClockRuns, NEW l \in Lines, ran' = Append(ran, l),
         pc' = "line", current_time' = current_time - Searching + Cost(l)
  PROVE  ClockRuns'
<1>1. PICK C \in [0 .. Len(ran) -> Int] :
        SumsTo(C, ran) /\ current_time = C[Len(ran)] + Searching
  BY DEF ClockRuns
<1>2. PICK n \in Nat : n = Len(ran)
  BY LenProperties
<1>3. C \in [0 .. n -> Int] /\ C[n] \in Int
  BY <1>1, <1>2
<1>4. PICK sum \in Int : sum = C[n] + Cost(l)
  BY <1>3, CostType
<1>5. /\ Len(ran') = n + 1 /\ ran'[n + 1] = l
      /\ \A k \in 1 .. n : ran'[k] = ran[k]
  BY <1>2, AppendProperties
<1>6. PICK C2 \in [0 .. n + 1 -> Int] : C2[n + 1] = sum /\ \A k \in 0 .. n : C2[k] = C[k]
  <2> DEFINE c2 == [k \in 0 .. n + 1 |-> IF k = n + 1 THEN sum ELSE C[k]]
  <2>1. \A k \in 0 .. n + 1 : k = n + 1 \/ k \in 0 .. n
    BY <1>2
  <2>2. n + 1 \in 0 .. n + 1 /\ \A k \in 0 .. n : k \in 0 .. n + 1 /\ k # n + 1
    BY <1>2
  <2>3. c2 \in [0 .. n + 1 -> Int]
    BY <1>3, <1>4, <2>1
  <2>4. c2[n + 1] = sum /\ \A k \in 0 .. n : c2[k] = C[k]
    BY <2>2
  <2>. HIDE DEF c2
  <2>. QED
    BY <2>3, <2>4
<1>7. SumsTo(C2, ran')
  <2>1. C2[0] = 0
    BY <1>1, <1>2, <1>6 DEF SumsTo
  <2>2. ASSUME NEW k \in 1 .. n + 1 PROVE C2[k] = C2[k - 1] + Cost(ran'[k])
    <3>1. CASE k = n + 1
      <4>1. k - 1 = n /\ n \in 0 .. n
        BY <1>2, <3>1
      <4>. QED
        BY <1>4, <1>5, <1>6, <3>1, <4>1
    <3>2. CASE k # n + 1
      <4>1. k \in 1 .. n /\ k \in 0 .. n /\ k - 1 \in 0 .. n
        BY <1>2, <3>2
      <4>2. C[k] = C[k - 1] + Cost(ran[k])
        BY <1>1, <1>2, <4>1 DEF SumsTo
      <4>. QED
        BY <1>5, <1>6, <4>1, <4>2
    <3>. QED
      BY <3>1, <3>2
  <2>. QED
    BY <1>5, <2>1, <2>2 DEF SumsTo
<1>8. current_time' = sum
  <2>1. Searching \in Int /\ Cost(l) \in Int
    BY CostType DEF Searching
  <2>. QED
    BY <1>1, <1>2, <1>3, <1>4, <2>1
<1>9. current_time' = C2[n + 1] + Searching'
  <2>1. Searching' = 0
    BY DEF Searching
  <2>. QED
    BY <1>4, <1>6, <1>8, <2>1
<1>. QED
  BY <1>5, <1>6, <1>7, <1>9 DEF ClockRuns

LEMMA ClockStays ==
  ASSUME ran \in Seq(Lines), ClockRuns, ran' = ran, TypeOK,
         current_time' - Searching' = current_time - Searching,
         current_time' \in Int
  PROVE  ClockRuns'
<1>1. PICK C \in [0 .. Len(ran) -> Int] :
        SumsTo(C, ran) /\ current_time = C[Len(ran)] + Searching
  BY DEF ClockRuns
<1>2. C[Len(ran)] \in Int
  BY <1>1, LenProperties
<1>3. Searching \in Int /\ Searching' \in Int
  BY DEF Searching
<1>4. current_time' = C[Len(ran)] + Searching'
  BY <1>1, <1>2, <1>3
<1>. QED
  BY <1>1, <1>4 DEF ClockRuns

(* Such a sum is the one that costUpTo stands for.                         *)
LEMMA CostUpTo ==
  ASSUME ran \in Seq(Lines), NEW C \in [0 .. Len(ran) -> Int], SumsTo(C, ran)
  PROVE  costUpTo[Len(ran)] = C[Len(ran)]
<1> DEFINE P(f) == f = [k \in 0 .. Len(ran) |-> IF k = 0 THEN 0 ELSE f[k - 1] + Cost(ran[k])]
<1>1. Len(ran) \in Nat
  BY LenProperties
<1>2. P(C)
  <2>1. ASSUME NEW k \in 0 .. Len(ran)
        PROVE  C[k] = IF k = 0 THEN 0 ELSE C[k - 1] + Cost(ran[k])
    BY <1>1 DEF SumsTo
  <2>2. C = [k \in 0 .. Len(ran) |-> C[k]]
    OBVIOUS
  <2>. QED
    BY <2>1, <2>2
<1>3. costUpTo = CHOOSE f : P(f)
  BY DEF costUpTo
<1>4. P(costUpTo)
  <2>. HIDE DEF P
  <2>. QED
    BY <1>2, <1>3
<1>5. PICK t : t = costUpTo
  OBVIOUS
<1>6. t[0] = 0 /\ \A k \in 1 .. Len(ran) : t[k] = t[k - 1] + Cost(ran[k])
  <2>1. t = [k \in 0 .. Len(ran) |-> IF k = 0 THEN 0 ELSE t[k - 1] + Cost(ran[k])]
    BY <1>4, <1>5
  <2>. QED
    BY <1>1, <2>1
<1> DEFINE T == {k \in 0 .. Len(ran) : t[k] = C[k]}
<1>7. 0 \in T
  BY <1>1, <1>6 DEF SumsTo
<1>8. ASSUME NEW k \in 0 .. Len(ran) - 1, k \in T PROVE k + 1 \in T
  <2>1. k + 1 \in 1 .. Len(ran) /\ (k + 1) - 1 = k /\ k + 1 \in 0 .. Len(ran)
    BY <1>1
  <2>2. t[k + 1] = t[k] + Cost(ran[k + 1]) /\ C[k + 1] = C[k] + Cost(ran[k + 1])
    BY <1>6, <2>1 DEF SumsTo
  <2>. QED
    BY <1>8, <2>1, <2>2
<1>9. Len(ran) \in T
  <2>. HIDE DEF T
  <2>1. \A k \in 0 .. Len(ran) : k \in T
    BY <1>1, <1>7, <1>8, UpTo
  <2>. QED
    BY <1>1, <2>1
<1>. QED
  BY <1>5, <1>9

-----------------------------------------------------------------------------
(* The trace is over only when its own last line has been run.             *)
AtEnd == pc = "done" => Len(calls) = 1 /\ line[Len(line)] > Len(File)

Written ==
  /\ TypeOK /\ AtExec /\ input \in Inputs
  /\ ran \in Seq(Lines)
  /\ LeftToRun /\ ClockRuns /\ AtEnd

LEMMA WrittenInit ==
  ASSUME InitMC, \A dir \in Inputs : Terminates(dir)
  PROVE  Written
<1>1. TypeOK /\ AtExec /\ AtEnd /\ input \in Inputs /\ Terminates(input)
  BY InitType DEF InitMC, Init, AtEnd
<1>2. <<>> \in Seq(Lines)
  OBVIOUS
<1>3. ran = <<>> /\ calls = <<"trace">> /\ line = <<1>> /\ current_time = 0 /\ pc = "line"
  BY DEF InitMC, Init
<1>4. PICK all \in Seq(Lines) : all = expand["trace"][1]
  BY <1>1, ExpandType DEF TypeOK, Files
<1>5. LeftToRun
  <2>1. PICK S \in [0 .. 1 -> Seq(Lines)] : S[0] = <<>> /\ S[1] = all
    <3> DEFINE s == [d \in 0 .. 1 |-> IF d = 0 THEN <<>> ELSE all]
    <3>1. s \in [0 .. 1 -> Seq(Lines)] /\ s[0] = <<>> /\ s[1] = all
      BY <1>2
    <3>. QED
      BY <3>1
  <2>2. all \o <<>> = all /\ <<>> \o all = all
    BY <1>4, ConcatEmptySeq
  <2>3. StandsFor(expand, calls, line, S)
    <3>1. Len(calls) = 1 /\ calls[1] = "trace" /\ line[1] = 1
      BY <1>3
    <3>2. \A d \in 1 .. Len(calls) : d = 1 /\ d - 1 = 0
      BY <3>1
    <3>. QED
      BY <1>4, <2>1, <2>2, <3>1, <3>2 DEF StandsFor
  <2>4. Len(calls) = 1
    BY <1>3
  <2>. QED
    BY <1>3, <1>4, <2>1, <2>2, <2>3, <2>4 DEF LeftToRun
<1>6. ClockRuns
  <2>1. PICK C \in [0 .. 0 -> Int] : C[0] = 0
    <3>1. [k \in 0 .. 0 |-> 0] \in [0 .. 0 -> Int] /\ [k \in 0 .. 0 |-> 0][0] = 0
      OBVIOUS
    <3>. QED
      BY <3>1
  <2>2. Len(ran) = 0 /\ Searching = 0
    BY <1>3 DEF Searching
  <2>. QED
    BY <1>3, <2>1, <2>2 DEF ClockRuns, SumsTo
<1>. QED
  BY <1>1, <1>2, <1>3, <1>5, <1>6 DEF Written

(* A line that is not an EXEC.                                             *)
LEMMA WrittenLine ==
  ASSUME Written, Terminates(input), NextMC,
         simulate_fork \/ simulate_cpu \/ simulate_syscall \/ PassOver
  PROVE  LeftToRun' /\ ClockRuns' /\ ran' \in Seq(Lines)
<1>1. /\ AtLine /\ Line.op # "EXEC" /\ NextLine /\ UNCHANGED <<input, calls, pc>>
      /\ pc = "line"
  BY DEF simulate_fork, simulate_cpu, simulate_syscall, PassOver, AtLine
<1>2. ran' = Append(ran, Line)
  BY <1>1 DEF NextMC
<1>3. Line \in Lines
  BY <1>1, LineType DEF AtLine, Written
<1>4. ran' \in Seq(Lines)
  BY <1>2, <1>3, AppendProperties DEF Written
<1>5. LeftToRun'
  BY <1>1, <1>2, LeftAfterLine DEF Written
<1>6. current_time' = current_time + Cost(Line)
  <2>1. current_time \in Int
    BY DEF Written, TypeOK
  <2>2. CASE simulate_fork
    BY <2>1, <2>2 DEF simulate_fork, Cost, VectorTime
  <2>3. CASE simulate_cpu
    BY <2>1, <2>3 DEF simulate_cpu, Cost
  <2>4. CASE simulate_syscall
    <3>1. PICK d \in Int : d = Line.duration
      BY <1>3, <2>4, LineFields DEF simulate_syscall
    <3>2. current_time' = current_time + VectorTime + Third(d) + Third(d * 2) + 13 + 1
      BY <2>4, <3>1 DEF simulate_syscall
    <3>3. Cost(Line) = 20 + d - Lost(d)
      BY <2>4, <3>1 DEF simulate_syscall, Cost
    <3>4. Third(d) + Third(d * 2) = d - Lost(d) /\ Lost(d) \in Int
      BY RoundedOff
    <3>5. Third(d) \in Int /\ Third(d * 2) \in Int /\ VectorTime = 6
      BY Thirds DEF VectorTime
    <3>. QED
      BY <2>1, <3>2, <3>3, <3>4, <3>5
  <2>5. CASE PassOver
    BY <2>1, <2>5 DEF PassOver, Cost
  <2>. QED
    BY <2>2, <2>3, <2>4, <2>5
<1>7. ClockRuns'
  <2>1. Searching = 0 /\ pc' = "line"
    BY <1>1 DEF Searching
  <2>2. current_time \in Int
    BY DEF Written, TypeOK
  <2>3. current_time' = current_time - Searching + Cost(Line)
    BY <1>6, <2>1, <2>2
  <2>. QED
    BY <1>2, <1>3, <2>1, <2>3, ClockAfterLine DEF Written
<1>. QED
  BY <1>4, <1>5, <1>7

LEMMA WrittenLoad ==
  ASSUME Written, Terminates(input), NextMC, Load
  PROVE  LeftToRun' /\ ClockRuns' /\ ran' \in Seq(Lines)
<1>1. pc = "search" /\ pc' = "line" /\ current_time' = current_time + 21
  <2>1. current_time \in Int
    BY DEF Written, TypeOK
  <2>. QED
    BY <2>1 DEF Load
<1>2. ran' = Append(ran, Line)
  BY <1>1 DEF NextMC
<1>3. Line \in Lines /\ Line.op = "EXEC"
  BY <1>1, LineType DEF AtExec, Written
<1>4. ran' \in Seq(Lines)
  BY <1>2, <1>3, AppendProperties DEF Written
<1>5. LeftToRun'
  BY <1>2, LeftAfterLoad DEF Written
<1>6. current_time' = current_time - Searching + Cost(Line)
  <2>1. current_time \in Int
    BY DEF Written, TypeOK
  <2>2. Searching = 36 /\ Cost(Line) = 57
    BY <1>1, <1>3 DEF Searching, Cost
  <2>. QED
    BY <1>1, <2>1, <2>2
<1>7. ClockRuns'
  BY <1>1, <1>2, <1>3, <1>6, ClockAfterLine DEF Written
<1>. QED
  BY <1>4, <1>5, <1>7

(* What executes no line.                                                  *)
LEMMA WrittenBetween ==
  ASSUME Written, TypeOK', NextMC, Lookup \/ Crash \/ Compare \/ Return \/ TraceEnds \/ Terminated
  PROVE  /\ ran' = ran
         /\ Return \/ UNCHANGED <<input, calls, line>>
         /\ current_time' - Searching' = current_time - Searching /\ current_time' \in Int
<1>1. line[Len(line)] > Len(File) => ~(line[Len(line)] <= Len(File))
  <2>1. line[Len(line)] \in Nat /\ Len(File) \in Nat
    BY LineType, LenProperties DEF Written
  <2>. QED
    BY <2>1
<1>2. current_time \in Int /\ current_time' \in Int
  BY DEF Written, TypeOK
<1>3. CASE Lookup
  <2>1. pc = "line" /\ pc' = "search" /\ Line.op = "EXEC" /\ current_time' = current_time + 36
    BY <1>2, <1>3 DEF Lookup, AtLine, VectorTime
  <2>. QED
    BY <1>2, <1>3, <2>1 DEF Lookup, NextMC, Searching
<1>4. CASE Crash
  <2>1. pc = "line" /\ pc' = "crashed" /\ Line.op = "EXEC" /\ current_time' = current_time + 6
    BY <1>2, <1>4 DEF Crash, AtLine, VectorTime
  <2>. QED
    BY <1>2, <1>4, <2>1 DEF Crash, NextMC, Searching
<1>5. CASE Compare
  BY <1>2, <1>5 DEF Compare, NextMC, Searching, AtLine
<1>6. CASE Return
  BY <1>1, <1>2, <1>6 DEF Return, NextMC, Searching, AtLine
<1>7. CASE TraceEnds
  BY <1>1, <1>2, <1>7 DEF TraceEnds, NextMC, Searching, AtLine
<1>8. CASE Terminated
  BY <1>2, <1>8 DEF Terminated, NextMC, Searching, AtLine, vars
<1>. QED
  BY <1>3, <1>4, <1>5, <1>6, <1>7, <1>8

LEMMA EndStep ==
  ASSUME Written, [NextMC]_mcvars
  PROVE  AtEnd'
<1>1. CASE TraceEnds
  BY <1>1 DEF TraceEnds, AtEnd, File
<1>2. CASE Terminated \/ UNCHANGED mcvars
  BY <1>2 DEF Terminated, mcvars, vars, Written, AtEnd, File
<1>3. CASE simulate_fork \/ simulate_cpu \/ simulate_syscall \/ PassOver
  BY <1>3 DEF simulate_fork, simulate_cpu, simulate_syscall, PassOver, AtLine, AtEnd
<1>4. CASE Lookup \/ Crash \/ Compare \/ Load \/ Return
  BY <1>4 DEF Lookup, Crash, Compare, Load, Return, AtEnd
<1>. QED
  BY <1>1, <1>2, <1>3, <1>4 DEF NextMC, Next

LEMMA WrittenStep ==
  ASSUME Written, [NextMC]_mcvars, \A dir \in Inputs : Terminates(dir)
  PROVE  Written'
<1>1. Terminates(input)
  BY DEF Written
<1>2. [Next]_vars
  BY DEF NextMC, mcvars, vars
<1>3. TypeOK' /\ AtExec'
  BY <1>2, TypeStep DEF Written
<1>4. AtEnd'
  BY EndStep
<1>5. input' = input
  BY <1>2 DEF Next, simulate_fork, simulate_cpu, simulate_syscall, PassOver, Lookup, Crash,
              Compare, Load, Return, TraceEnds, Terminated, vars
<1>6. LeftToRun' /\ ClockRuns' /\ ran' \in Seq(Lines)
  <2>1. CASE UNCHANGED mcvars
    <3>1. Searching' = Searching /\ current_time' = current_time
      BY <2>1 DEF mcvars, vars, Searching
    <3>2. UNCHANGED <<input, calls, line, ran>>
      BY <2>1 DEF mcvars, vars
    <3>3. current_time' \in Int
      BY <1>3 DEF TypeOK
    <3>4. ClockRuns'
      BY <3>1, <3>2, <3>3, ClockStays DEF Written
    <3>. QED
      BY <3>2, <3>4, LeftStays DEF Written
  <2>2. CASE NextMC /\ (simulate_fork \/ simulate_cpu \/ simulate_syscall \/ PassOver)
    BY <1>1, <2>2, WrittenLine
  <2>3. CASE NextMC /\ Load
    BY <1>1, <2>3, WrittenLoad
  <2>4. CASE NextMC /\ (Lookup \/ Crash \/ Compare \/ Return \/ TraceEnds \/ Terminated)
    <3>1. /\ ran' = ran
          /\ Return \/ UNCHANGED <<input, calls, line>>
          /\ current_time' - Searching' = current_time - Searching /\ current_time' \in Int
      BY <1>3, <2>4, WrittenBetween
    <3>2. ClockRuns'
      BY <3>1, ClockStays DEF Written
    <3>3. LeftToRun'
      BY <1>1, <3>1, LeftAfterReturn, LeftStays DEF Written
    <3>4. ran' \in Seq(Lines)
      BY <3>1 DEF Written
    <3>. QED
      BY <3>2, <3>3, <3>4
  <2>. QED
    BY <2>1, <2>2, <2>3, <2>4 DEF NextMC, Next
<1>. QED
  BY <1>3, <1>4, <1>5, <1>6 DEF Written

LEMMA WrittenAtEnd ==
  ASSUME Written, Terminates(input)
  PROVE  AsWritten
<1> SUFFICES ASSUME pc = "done"
             PROVE  ran = expand["trace"][1] /\ current_time = costUpTo[Len(ran)]
  BY DEF AsWritten
<1>1. Len(calls) = 1 /\ line[Len(line)] > Len(File) /\ TypeOK /\ ran \in Seq(Lines)
  BY DEF Written, AtEnd
<1>2. ran = expand["trace"][1]
  <2>1. PICK S \in [0 .. Len(calls) -> Seq(Lines)] :
          StandsFor(expand, calls, line, S) /\ ran \o S[Len(calls)] = expand["trace"][1]
    BY DEF Written, LeftToRun
  <2>2. S[Len(calls)] = S[Len(calls) - 1]
    BY <1>1, <2>1, NothingLeft
  <2>3. S[Len(calls)] = <<>>
    BY <1>1, <2>1, <2>2 DEF StandsFor
  <2>. QED
    BY <1>1, <2>1, <2>3, ConcatEmptySeq
<1>3. current_time = costUpTo[Len(ran)]
  <2>1. PICK C \in [0 .. Len(ran) -> Int] :
          SumsTo(C, ran) /\ current_time = C[Len(ran)] + Searching
    BY DEF Written, ClockRuns
  <2>2. costUpTo[Len(ran)] = C[Len(ran)]
    BY <1>1, <2>1, CostUpTo
  <2>3. Searching = 0 /\ C[Len(ran)] \in Int
    BY <1>1, LenProperties DEF Searching
  <2>. QED
    BY <2>1, <2>2, <2>3
<1>. QED
  BY <1>2, <1>3

(* At the end every line of the trace, and of the programs it executes at  *)
(* any depth, has been run in its place and once for each EXEC, and the    *)
(* clock shows their costs; for inputs in which no program executes        *)
(* itself, directly or through others (the code recurses on any other).    *)
THEOREM EveryLineInOrder == (\A dir \in Inputs : Terminates(dir)) => (SpecMC => []AsWritten)
<1> SUFFICES ASSUME \A dir \in Inputs : Terminates(dir)
             PROVE  SpecMC => []AsWritten
  OBVIOUS
<1>1. InitMC => Written
  BY WrittenInit
<1>2. Written /\ [NextMC]_mcvars => Written'
  BY WrittenStep
<1>3. Written => AsWritten
  BY WrittenAtEnd DEF Written
<1>. QED
  BY <1>1, <1>2, <1>3, PTL DEF SpecMC

=============================================================================
