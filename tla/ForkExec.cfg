SPECIFICATION SpecMC
CONSTANTS
  Names <- Programs
  Inputs <- SmallInputs
  sizes <- TiedSizes
  AnySize = {0, 30}
INVARIANTS
  TypeOK
  FindsBestFit
  ProcessesInPlace
  AsWritten
PROPERTIES
  Ends
