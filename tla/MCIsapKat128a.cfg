CONSTANTS
  W = 8
  TARGET_ARCH = "rv32"
  Variant = "128a"
  TESTING_ENABLED = TRUE
  MemSize = 34
  MaxCalls = 2
  Inputs <- KatInputs
  Layouts <- KatLayouts
SPECIFICATION SessionSpec
INVARIANTS
  KnownAnswers
PROPERTIES
  ImplementsIdeal
