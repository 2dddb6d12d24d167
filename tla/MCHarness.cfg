CONSTANTS
  R = 3
  Order <- MCOrder
  MaxEvents = 4
  Programs <- MCPrograms
  RamSize = 4
  Garbage = {0, 7}
  MaxResets = 1
SPECIFICATION Spec
INVARIANTS
  TypeOK
  SummaryTrue
  EndTellsOutcome
  MeasuredTrue
  BenchReadsInside
  ResetIsZero
PROPERTIES
  ClearConfined
  QuietAfterHalt
  RunEnds
CHECK_DEADLOCK FALSE
