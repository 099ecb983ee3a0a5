----------------------------- MODULE MCForkExec -----------------------------
(***************************************************************************)
(* Instances of ForkExec for TLC, with the lines executed so far as a      *)
(* history variable.                                                       *)
(***************************************************************************)
EXTENDS ForkExec

VARIABLE ran

mcvars == <<vars, ran>>

InitMC == Init /\ ran = <<>>

(* An EXEC is recorded when its program is loaded.                         *)
NextMC ==
  /\ Next
  /\ ran' = IF (AtLine /\ Line.op # "EXEC") \/ (pc = "search" /\ pc' = "line")
            THEN Append(ran, Line) ELSE ran

SpecMC == InitMC /\ [][NextMC]_mcvars /\ WF_mcvars(NextMC)

Files == Names \cup {"trace"}

(* What the lines of a file from the k-th on stand for: each in its order, *)
(* and after an EXEC what the file of its program stands for.              *)
expand[name \in Files] ==
  [k \in Nat |->
     IF k \notin DOMAIN input.file[name] THEN <<>>
     ELSE LET l == input.file[name][k]
          IN  <<l>> \o (IF l.op = "EXEC" THEN expand[l.name][1] ELSE <<>>) \o expand[name][k + 1]]

(* What a SYSCALL's duration loses when two thirds and one third of it are *)
(* rounded towards zero.                                                   *)
Lost(d) == IF d % 3 = 0 THEN 0 ELSE IF d > 0 THEN 1 ELSE -1

(* The milliseconds that the log gives a line.                             *)
Cost(l) ==
  CASE l.op = "FORK" -> 17
    [] l.op = "EXEC" -> 57
    [] l.op = "CPU" -> l.duration
    [] l.op = "SYSCALL" -> 20 + l.duration - Lost(l.duration)
    [] l.op = "END_IO" -> 0

costUpTo[k \in 0 .. Len(ran)] == IF k = 0 THEN 0 ELSE costUpTo[k - 1] + Cost(ran[k])

(* interrupts.cpp: at the end every line of the trace and of the programs  *)
(* it executes has had its turn, in order and once for each EXEC, and the  *)
(* clock has advanced by what they take.                                   *)
AsWritten ==
  pc = "done" => ran = expand["trace"][1] /\ current_time = costUpTo[Len(ran)]

-----------------------------------------------------------------------------
Programs == {"program1", "program2", "program3"}

ProgramSizes == <<40, 25, 15, 10, 8, 2>>

(* Two partitions of one size.                                             *)
TiedSizes == <<40, 25, 15, 10, 10, 2>>

FORK == [op |-> "FORK"]
END_IO == [op |-> "END_IO"]
EXEC(name) == [op |-> "EXEC", name |-> name]
CPU(duration) == [op |-> "CPU", duration |-> duration]
SYSCALL(duration) == [op |-> "SYSCALL", duration |-> duration]

Input(trace, program1, program2, external_files) ==
  [external_files |-> external_files,
   file |-> [name \in Programs \cup {"trace"} |->
               CASE name = "trace" -> trace
                 [] name = "program1" -> program1
                 [] name = "program2" -> program2
                 [] OTHER -> <<>>]]

External(name, size) == [name |-> name, size |-> size]

(* Two that want one partition, two that do not, and one that fits none;   *)
(* one program listed twice.                                               *)
Listings ==
  {<<External("program1", 10), External("program2", 9)>>,
   <<External("program1", 25), External("program2", 15)>>,
   <<External("program1", 41), External("program2", 2), External("program1", 1)>>}

(* Traces of three lines, a first program of two that may execute the      *)
(* second one, or one that is not listed, and a second program that        *)
(* executes none: up to nine EXECs for five partitions.                    *)
SmallInputs ==
  {Input(trace, program1, program2, external_files) :
     trace \in [1 .. 3 -> {FORK, EXEC("program1"), EXEC("program2")}],
     program1 \in [1 .. 2 -> {FORK, EXEC("program2"), SYSCALL(7)}]
                  \cup {<<FORK, EXEC("program3")>>},
     program2 \in {<<>>, <<FORK, END_IO>>, <<CPU(5), SYSCALL(-7)>>},
     external_files \in Listings}

(* More programs than there are free partitions, of 5 Mb each.             *)
FullTable ==
  {Input([k \in 1 .. 6 |-> EXEC("program1")], <<CPU(100)>>, <<>>,
         <<External("program1", 5)>>)}

=============================================================================
