CONSTANTS
  W = 8
  TARGET_ARCH = "rv32_zbkb"
  RateWords = 2
  MemSize = 82
  MaxCalls = 2
  Inputs <- KatInputs
  Layouts <- KatLayouts
SPECIFICATION SessionSpec
INVARIANTS
  KnownAnswers
