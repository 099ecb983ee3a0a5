---------------------------- MODULE MCInterrupts ----------------------------
(***************************************************************************)
(* Instances of Interrupts for TLC.                                        *)
(***************************************************************************)
EXTENDS Interrupts

-----------------------------------------------------------------------------
CPUFor(duration) == [type |-> "CPU", duration |-> duration]
SYSCALL(number, duration) == [type |-> "SYSCALL", number |-> number, duration |-> duration]
END_IO(number, duration) == [type |-> "END_IO", number |-> number, duration |-> duration]
Other == [type |-> "OTHER", duration |-> 1]
Garbled == [type |-> "GARBLED", duration |-> 9]
NoLine == [type |-> "UNREADABLE"]
Vector(address) == [isr_address |-> address]

Command(argc, min, max, trace_file, vector_file) ==
  [argc |-> argc, min_context_time |-> min, max_context_time |-> max,
   trace_file |-> trace_file, vector_file |-> vector_file]

TwoVectors == <<Vector(483), Vector(668)>>

(* SYSCALLs and END_IOs of two vectors in any order: of exactly their      *)
(* fixed steps, of a little more, and shorter than they are.               *)
InterruptTraces ==
  [1 .. 4 -> {SYSCALL(1, 4), END_IO(1, 6), SYSCALL(0, 13)}]
  \cup [1 .. 3 -> {CPUFor(5), SYSCALL(0, 2), SYSCALL(1, 8), END_IO(0, 3), END_IO(1, 11)}]

(* Lines of every kind, a negative duration and vectors out of range.      *)
AnyTraces ==
  [1 .. 2 -> {CPUFor(5), CPUFor(-3), SYSCALL(1, 9), SYSCALL(2, 9), END_IO(1, 6), END_IO(-1, 8),
              Other, Garbled, NoLine}]
  \cup {<<>>}

(* A line that is no address, before and after the others.                 *)
VectorFiles ==
  {TwoVectors, <<NoLine, Vector(483), Vector(668)>>, <<Vector(483), NoLine, Vector(668)>>}

Commands ==
  {Command(6, 1, 2, trace_file, TwoVectors) : trace_file \in InterruptTraces}
  \cup {Command(4, 1, 3, trace_file, vector_file) :
          trace_file \in AnyTraces, vector_file \in VectorFiles}
  \cup {Command(argc, 0, 5, <<SYSCALL(0, 9)>>, TwoVectors) : argc \in {3, 5, 6, 7}}

=============================================================================
