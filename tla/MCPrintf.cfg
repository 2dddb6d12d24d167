CONSTANTS
  Bits <- MCBits
  CharSigned = FALSE
  NTOA_BUFFER_SIZE = 8
  FTOA_BUFFER_SIZE = 9
  DEFAULT_FLOAT_PRECISION = 2
  MAX_FLOAT = 100
  MaxPower = 3
  MaxExponent = 6
  ZeroExponent <- MCZeroExponent
  SIZE_MAX <- MCSizeMax
  Calls <- MCCalls
  MemSize = 14
SPECIFICATION Spec
INVARIANTS
  ExactlyStandard
  BufferBounded
  Truncated
PROPERTIES
  ImplementsIdeal
