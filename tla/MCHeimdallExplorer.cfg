SPECIFICATION Spec
CONSTANTS
  BITS = 12
  BYTE_BITS = 4
  USIZE_MAX = 511
  I256_KEEPS_SIGN = FALSE
  Opcode <- MCOpcode
  U128_MAX = 1023
  MEMORY_CAP = 20
  HASH = 77
  MaxAlloc = 40
  Jobs <- MCJobs
  SELECTOR <- MCSelector
  LOOP_STACK = 3
  I32_MAX = 127
  EvmOpcode <- MCEvmOpcode
  EvmPUSH1 = 4
  EVM_STACK_LIMIT = 4
  MaxStack = 6
INVARIANTS
  WordsAreTwosComplement
  FollowsInterpreter
  ReachableIsTraced
PROPERTIES
  ExplorationEnds
CHECK_DEADLOCK FALSE
