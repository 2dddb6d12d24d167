CONSTANTS
  W = 2
  TARGET_ARCH = "rv64_zbkb"
  RateWords = 1
  MaxAd = 5
  MaxMsg = 5
  MemSize = 16
  MaxCalls = 2
  Inputs <- MCInputs
  Layouts <- MCLayouts
SPECIFICATION SessionSpec
INVARIANTS
  IntactOpens
PROPERTIES
  ImplementsIdeal
  CallsReturn
