SPECIFICATION SpecMC
CONSTANTS
  Workloads <- Test5
  sizes <- ProgramSizes
  UINT = 256
  Types = {"EP"}
  RR_QUANTUM = 2
PROPERTY HighestDispatched
