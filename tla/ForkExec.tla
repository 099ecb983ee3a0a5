------------------------------ MODULE ForkExec ------------------------------
(***************************************************************************)
(* Assignment2/interrupts.cpp: the trace is read line by line; FORK copies *)
(* the last PCB, EXEC loads a program into a memory partition and then     *)
(* executes the lines of that program's own file before the trace goes on. *)
(* `calls` is the stack of process_trace and execute_program, `line` the   *)
(* next line of each.  The loop of std::min_element over the partitions is *)
(* one step per comparison.  A PCB's state and remaining time are never    *)
(* looked at, and the vectors and ISR addresses only printed.  The clock   *)
(* is an int; its sums are taken to stay within one.                       *)
(***************************************************************************)
EXTENDS Integers, Sequences, SequencesExt

CONSTANTS
  Names,      \* of programs
  Inputs,     \* the input directories considered
  sizes,      \* sizes of the memory partitions
  AnySize     \* what may be read as the size of a program that is not listed

(* The operations of the lines; "END_IO" is any line passed over.  stoi    *)
(* accepts a negative duration.                                            *)
Lines ==
  [op : {"FORK", "END_IO"}] \cup [op : {"EXEC"}, name : Names] \cup
  [op : {"CPU", "SYSCALL"}, duration : Int]

(* An input directory: the listed sizes, and the file of the trace and of  *)
(* each program; one that is missing reads as empty.                       *)
Readable(dir) ==
  /\ dir.external_files \in Seq([name : Names, size : Nat])
  /\ dir.file \in [Names \cup {"trace"} -> Seq(Lines)]

ASSUME ForkExecAssumption ==
  /\ sizes \in Seq(Nat) /\ Len(sizes) > 1
  /\ AnySize \subseteq Nat
  /\ "trace" \notin Names /\ "init" \notin Names
  /\ \A dir \in Inputs : Readable(dir)

VARIABLES
  input,             \* external_files and the files of the trace and the programs
  calls,             \* the call stack: files being read
  line,              \* the next line of each
  pcb_table,
  status,            \* of each partition: "free" or "occupied"
  current_pid,
  current_time,
  pc,                \* "line", "search", "done" or "crashed"
  program_size,      \* of the program that EXEC loads
  it, partition_it   \* min_element: the partition compared next, the least so far

vars == <<input, calls, line, pcb_table, status, current_pid, current_time,
          pc, program_size, it, partition_it>>

Partitions == 1 .. Len(sizes)

PCB(pid, name, partition, size) ==
  [pid |-> pid, name |-> name, partition |-> partition, size |-> size]

PCBs == [pid : Nat, name : Names \cup {"init"}, partition : Partitions, size : Nat]

(* The last entry of the process table, whichever process is meant.        *)
back == pcb_table[Len(pcb_table)]

(* init_pcb, and the table: `init` is in the last partition.               *)
Init ==
  /\ input \in Inputs
  /\ calls = <<"trace">>
  /\ line = <<1>>
  /\ pcb_table = <<PCB(0, "init", Len(sizes), 1)>>
  /\ status = [m \in Partitions |-> IF m = Len(sizes) THEN "occupied" ELSE "free"]
  /\ current_pid = 0
  /\ current_time = 0
  /\ pc = "line"
  /\ program_size = 0
  /\ it = 1
  /\ partition_it = 1

-----------------------------------------------------------------------------
(***************************************************************************)
(* The loop over the lines of a file.                                      *)
(***************************************************************************)
File == input.file[calls[Len(calls)]]
AtLine == pc = "line" /\ line[Len(line)] <= Len(File)
Line == File[line[Len(line)]]

NextLine == line' = [line EXCEPT ![Len(line)] = @ + 1]

(* The log steps of simulate_syscall(vector): kernel mode, context saved,  *)
(* find vector, load address.                                              *)
VectorTime == 1 + 3 + 1 + 1

PassOver ==
  /\ AtLine /\ Line.op = "END_IO"
  /\ NextLine
  /\ UNCHANGED <<input, calls, pcb_table, status, current_pid, current_time,
                 pc, program_size, it, partition_it>>

simulate_cpu ==
  /\ AtLine /\ Line.op = "CPU"
  /\ current_time' = current_time + Line.duration
  /\ NextLine
  /\ UNCHANGED <<input, calls, pcb_table, status, current_pid,
                 pc, program_size, it, partition_it>>

(* n / 3 in C++, which rounds towards zero.                                *)
Third(n) == IF n >= 0 THEN n \div 3 ELSE -((-n) \div 3)

(* Run the ISR, transfer data, check for errors, IRET.                     *)
simulate_syscall ==
  /\ AtLine /\ Line.op = "SYSCALL"
  /\ current_time' = current_time + VectorTime
                     + Third(Line.duration) + Third(Line.duration * 2) + 13 + 1
  /\ NextLine
  /\ UNCHANGED <<input, calls, pcb_table, status, current_pid,
                 pc, program_size, it, partition_it>>

(* Mutant: the child keeps the pid of its parent.                          *)
simulate_fork_same_pid ==
  /\ AtLine /\ Line.op = "FORK"
  /\ current_pid' = current_pid + 1
  /\ pcb_table' = Append(pcb_table, back)
  /\ current_time' = current_time + VectorTime + 8 + 2 + 1
  /\ NextLine
  /\ UNCHANGED <<input, calls, status, pc, program_size, it, partition_it>>

(* The child is a copy of the last PCB with a pid of its own.              *)
simulate_fork ==
  /\ AtLine /\ Line.op = "FORK"
  /\ current_pid' = current_pid + 1
  /\ pcb_table' =
       Append(pcb_table, PCB(current_pid + 1, back.name, back.partition, back.size))
  /\ current_time' = current_time + VectorTime + 8 + 2 + 1
  /\ NextLine
  /\ UNCHANGED <<input, calls, status, pc, program_size, it, partition_it>>

-----------------------------------------------------------------------------
(***************************************************************************)
(* simulate_exec: the first listed program of that name is looked up, a    *)
(* partition found, and the last PCB overwritten.                          *)
(***************************************************************************)
Listed(name) == {k \in DOMAIN input.external_files : input.external_files[k].name = name}

(* The size of a program that is not listed is read past the end.          *)
SizeOf(name) ==
  IF Listed(name) = {} THEN AnySize
  ELSE {input.external_files[k].size :
          k \in {k \in Listed(name) : \A j \in Listed(name) : k <= j}}

Lookup ==
  /\ AtLine /\ Line.op = "EXEC"
  /\ program_size' \in SizeOf(Line.name)
  /\ current_time' = current_time + VectorTime + 30
  /\ pc' = "search" /\ it' = 2 /\ partition_it' = 1
  /\ UNCHANGED <<input, calls, line, pcb_table, status, current_pid>>

(* The read past the end traps, with the vector already on the clock.      *)
Crash ==
  /\ AtLine /\ Line.op = "EXEC"
  /\ Listed(Line.name) = {}
  /\ current_time' = current_time + VectorTime
  /\ pc' = "crashed"
  /\ UNCHANGED <<input, calls, line, pcb_table, status, current_pid,
                 program_size, it, partition_it>>

Suits(m) == status[m] = "free" /\ sizes[m] >= program_size

(* Mutants: the larger one is less; the status is not looked at.           *)
LessIfLarger(a, b) == (Suits(a) /\ sizes[a] > sizes[b]) \/ ~Suits(b)
LessIfFits(a, b) ==
  \/ (sizes[a] >= program_size /\ sizes[a] < sizes[b])
  \/ ~(sizes[b] >= program_size)

(* The comparison given to min_element, which is not an order: a partition *)
(* that does not suit is greater than any other, and than itself.          *)
Less(a, b) == (Suits(a) /\ sizes[a] < sizes[b]) \/ ~Suits(b)

(* Mutant: the loop does not move on.                                      *)
CompareAgain ==
  /\ pc = "search" /\ it \in Partitions
  /\ partition_it' = IF Less(it, partition_it) THEN it ELSE partition_it
  /\ UNCHANGED <<input, calls, line, pcb_table, status, current_pid, current_time,
                 pc, program_size, it>>

Compare ==
  /\ pc = "search" /\ it \in Partitions
  /\ partition_it' = IF Less(it, partition_it) THEN it ELSE partition_it
  /\ it' = it + 1
  /\ UNCHANGED <<input, calls, line, pcb_table, status, current_pid, current_time,
                 pc, program_size>>

(* Mutant: the program takes the place of its caller.                      *)
LoadForGood ==
  /\ pc = "search" /\ it \notin Partitions
  /\ LET name == Line.name
     IN  /\ pcb_table' = [pcb_table EXCEPT ![Len(pcb_table)] =
                            PCB(back.pid, name, partition_it, program_size)]
         /\ calls' = Append(Front(calls), name)
  /\ status' = [status EXCEPT ![partition_it] = "occupied"]
  /\ line' = Append(Front(line), 1)
  /\ current_time' = current_time + 10 + 6 + 2 + 2 + 1
  /\ pc' = "line"
  /\ UNCHANGED <<input, current_pid, program_size, it, partition_it>>

(* The partition is occupied and the last PCB is the program's; then       *)
(* execute_program starts with its first line.                             *)
Load ==
  /\ pc = "search" /\ it \notin Partitions
  /\ LET name == Line.name
     IN  /\ pcb_table' = [pcb_table EXCEPT ![Len(pcb_table)] =
                            PCB(back.pid, name, partition_it, program_size)]
         /\ calls' = Append(calls, name)
  /\ status' = [status EXCEPT ![partition_it] = "occupied"]
  /\ line' = Append([line EXCEPT ![Len(line)] = @ + 1], 1)
  /\ current_time' = current_time + 10 + 6 + 2 + 2 + 1
  /\ pc' = "line"
  /\ UNCHANGED <<input, current_pid, program_size, it, partition_it>>

-----------------------------------------------------------------------------
(***************************************************************************)
(* The end of a file: execute_program returns to its caller, which goes on *)
(* with its next line; process_trace returns to main.                      *)
(***************************************************************************)
Return ==
  /\ pc = "line" /\ line[Len(line)] > Len(File)
  /\ Len(calls) > 1
  /\ calls' = Front(calls)
  /\ line' = Front(line)
  /\ UNCHANGED <<input, pcb_table, status, current_pid, current_time,
                 pc, program_size, it, partition_it>>

TraceEnds ==
  /\ pc = "line" /\ line[Len(line)] > Len(File)
  /\ Len(calls) = 1
  /\ pc' = "done"
  /\ UNCHANGED <<input, calls, line, pcb_table, status, current_pid, current_time,
                 program_size, it, partition_it>>

Terminated == pc \in {"done", "crashed"} /\ UNCHANGED vars

Next ==
  \/ simulate_fork \/ simulate_cpu \/ simulate_syscall \/ PassOver
  \/ Lookup \/ Crash \/ Compare \/ Load
  \/ Return \/ TraceEnds
  \/ Terminated

Spec == Init /\ [][Next]_vars /\ WF_vars(Next)

-----------------------------------------------------------------------------
(* Every variable has its type, and the pids are those of the FORKs.       *)
TypeOK ==
  /\ Readable(input)
  /\ calls \in Seq(Names \cup {"trace"}) /\ calls # <<>>
  /\ line \in Seq(Nat \ {0}) /\ Len(line) = Len(calls)
  /\ pcb_table \in Seq(PCBs)
  /\ Len(pcb_table) = current_pid + 1
  /\ \A k \in 1 .. Len(pcb_table) : pcb_table[k].pid = k - 1
  /\ status \in [Partitions -> {"free", "occupied"}]
  /\ current_pid \in Nat
  /\ current_time \in Int
  /\ pc \in {"line", "search", "done", "crashed"}
  /\ program_size \in Nat
  /\ it \in 1 .. Len(sizes) + 1
  /\ partition_it \in Partitions

(* Although the comparison is not an order, min_element finds the best fit *)
(* whenever a partition suits: the smallest that does, the first of them.  *)
FindsBestFit ==
  pc = "search" /\ it \notin Partitions /\ (\E m \in Partitions : Suits(m)) =>
    /\ Suits(partition_it)
    /\ \A m \in Partitions : Suits(m) =>
         \/ sizes[partition_it] < sizes[m]
         \/ sizes[partition_it] = sizes[m] /\ partition_it <= m

(* Every process is in an occupied partition.  Unless that is the last     *)
(* one, where a program ends up that nothing suits, the process fits, and  *)
(* shares the partition with nobody but its copies.                        *)
ProcessesInPlace ==
  \A j \in 1 .. Len(pcb_table) :
    /\ status[pcb_table[j].partition] = "occupied"
    /\ pcb_table[j].partition # Len(sizes) =>
         /\ pcb_table[j].size <= sizes[pcb_table[j].partition]
         /\ \A k \in 1 .. Len(pcb_table) :
              pcb_table[k].partition = pcb_table[j].partition =>
                pcb_table[k].name = pcb_table[j].name /\ pcb_table[k].size = pcb_table[j].size

(* The partition that EXEC loads a program into is free.                   *)
FindsFree ==
  pc = "search" /\ it \notin Partitions => status[partition_it] = "free"

(* The simulation ends, or stops at a program that is not listed.          *)
Ends == <>(pc \in {"done", "crashed"})

=============================================================================
