SPECIFICATION SpecMC
CONSTANTS
  Names <- Programs
  Inputs <- FullTable
  sizes <- ProgramSizes
  AnySize = {0, 30}
INVARIANTS
  FindsFree
