SPECIFICATION TaskSpec
CONSTANTS
  WordBytes = 2
  Radix = 4
  LengthBytes = 2
  UsizeBytes = 1
  HighBytes = 2
  OverflowLimit = 3
  LimbBits = 2
  ByteBits = 2
  Inputs <- MCInputs
INVARIANT
  YulBlocksAreClosed
