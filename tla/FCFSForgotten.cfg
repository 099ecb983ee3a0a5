SPECIFICATION SpecMC
CONSTANTS
  Workloads <- Test4
  sizes <- ProgramSizes
  UINT = 256
  Types = {"FCFS"}
  RR_QUANTUM = 2
INVARIANT NotForgotten
