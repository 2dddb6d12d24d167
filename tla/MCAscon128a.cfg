CONSTANTS
  W = 2
  TARGET_ARCH = "rv32_zbkb"
  RateWords = 2
  MaxAd = 7
  MaxMsg = 9
  MemSize = 24
  MaxCalls = 2
  Inputs <- MCInputs
  Layouts <- MCLayouts
SPECIFICATION SessionSpec
INVARIANTS
  TypeOK
  WritesOnlyOutput
  UnreadInputIntact
PROPERTIES
  ImplementsIdeal
  SameAsPortable
  EveryStepAdvances
