SPECIFICATION SpecMC
CONSTANTS
  Workloads <- AlwaysFit
  sizes <- ProgramSizes
  UINT = 32
  Types = {"FCFS", "RR", "EP"}
  RR_QUANTUM = 2
INVARIANTS
  FirstComeFirstServed
  BoundedWaiting
  MetricsSound
  NoOverdueIO
  AllServed
PROPERTIES
  WholeQuantum
  GivesWayToHigher
  ImplementsLifecycle
  Ends
