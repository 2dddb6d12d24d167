CONSTANTS
  W = 8
  TARGET_ARCH = "rv32"
  RateWords = 1
  MemSize = 82
  MaxCalls = 2
  Inputs <- KatInputs
  Layouts <- KatLayouts
SPECIFICATION SessionSpec
INVARIANTS
  KnownAnswers
PROPERTIES
  SameAsPortable
