-------------------------- MODULE SchedulerInputs --------------------------
(* The partitions of the program and input files for its schedulers.       *)
EXTENDS Integers, Sequences

ProgramSizes == <<40, 25, 15, 10, 8, 2>>

(* Two partitions of one size, which a process of 2 competes for.          *)
TiedSizes == <<40, 25, 15, 2, 8, 2>>

(* One line of an input file.                                              *)
Job(pid, size, arrival, total, frequency, duration) ==
  [pid |-> pid, memory_size |-> size, arrival_time |-> arrival,
   total_cpu_time |-> total, io_frequency |-> frequency, io_duration |-> duration]

(* Processes of 1 to 3 units that do I/O after each unit or each second    *)
(* one; it is over at once, or takes longer than a unit.                   *)
IOJobs(pid, size, arrivals) ==
  {Job(pid, size, arrival, total, frequency, duration) :
     arrival \in arrivals, total \in 1 .. 3, frequency \in {1, 2}, duration \in {0, 3}}

(* The same, or without I/O.                                               *)
SmallJobs(pid, size, arrivals) ==
  {Job(pid, size, arrival, total, 0, 0) : arrival \in arrivals, total \in {1, 3}} \cup
  {j \in IOJobs(pid, size, arrivals) : j.io_frequency < j.total_cpu_time}

(* Three processes that always find a partition.                           *)
AlwaysFit == SmallJobs(1, 5, {0, 1}) \X SmallJobs(2, 9, {0}) \X SmallJobs(3, 9, {1})

(* Processes of one or no unit, or of two with I/O in between.             *)
AnyJobs(pid, size, arrivals) ==
  {Job(pid, size, arrival, total, frequency, 1) :
     arrival \in arrivals, total \in 0 .. 2, frequency \in {0, 1}}

(* Two processes that compete for the largest partition, one of them after *)
(* a gap in the arrivals, and one that may fit none; pids in any order.    *)
Competing ==
  AnyJobs(7, 30, {0}) \X AnyJobs(3, 40, {0, 3}) \X
  (AnyJobs(5, 41, {1}) \cup AnyJobs(5, 2, {1}))

(* The input of Assignment3/tests/t4/tempCodeRunnerFile.sh.                *)
Test4 ==
  {<<Job(1, 35, 0, 20, 5, 2), Job(2, 30, 0, 15, 5, 2), Job(3, 25, 0, 10, 5, 2),
     Job(4, 20, 0, 25, 5, 2), Job(5, 15, 0, 30, 5, 2)>>}

(* The input of Assignment3/tests/t5/run.sh.                               *)
Test5 ==
  {<<Job(1, 10, 0, 20, 5, 2), Job(2, 10, 5, 15, 5, 2),
     Job(3, 10, 10, 10, 5, 2), Job(4, 10, 15, 25, 5, 2)>>}

=============================================================================
