CONSTANTS
  W = 2
  TARGET_ARCH = "rv32_zbkb"
  Variant = "128a"
  TESTING_ENABLED = FALSE
  MaxAd = 3
  MaxMsg = 4
  MemSize = 16
  MaxCalls = 2
  Inputs <- MCInputs
  Layouts <- MCLayouts
SPECIFICATION SessionSpec
INVARIANTS
  TypeOK
  WritesOnlyOutput
  RefusedMeansUntouched
  OnlyGenuineReleased
PROPERTIES
  ImplementsIdeal
  SameAsPlain
  EveryStepAdvances
