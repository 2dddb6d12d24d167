CONSTANTS
  W = 8
  TARGET_ARCH = "rv64_zbkb"
  Variant = "128"
  TESTING_ENABLED = FALSE
  MemSize = 34
  MaxCalls = 2
  Inputs <- KatInputs
  Layouts <- KatLayouts
SPECIFICATION SessionSpec
INVARIANTS
  KnownAnswers
