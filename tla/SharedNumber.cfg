SPECIFICATION Spec
CONSTANTS
  Numbers <- AllNumbers
  ACTIVATION = 5
INVARIANTS
  TypeOK
  OneValuePerVisit
  EndTogether
  RemovedAfterUse
PROPERTIES
  ZeroEnds
