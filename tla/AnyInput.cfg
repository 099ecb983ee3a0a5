SPECIFICATION SpecMC
CONSTANTS
  Workloads <- Competing
  sizes <- TiedSizes
  UINT = 16
  Types = {"FCFS", "RR", "EP"}
  RR_QUANTUM = 2
INVARIANTS
  TypeOK
  OnePlace
  OwnPartition
  FindsBestFit
