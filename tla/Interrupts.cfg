SPECIFICATION Spec
CONSTANTS
  Inputs <- Commands
  AnyAddress = {0, 77}
INVARIANTS
  TypeOK
  MetricsAddUp
  ResponsesMatched
  LoadsListedVector
  TimeBounded
  ResponsesBounded
PROPERTIES
  ClockForward
  Ends
