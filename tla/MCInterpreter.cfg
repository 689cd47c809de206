SPECIFICATION Spec
CONSTANTS
  Opcode <- MCOpcode
  JUMPDEST = 1
  PUSH1 = 4
  WORD = 2
  BYTES = 35
  USIZE_MAX = 31
  STACK_LIMIT = 7
  CALL_STACK_LIMIT = 2
  MAX_INITCODE_SIZE = 3
  MaxAlloc = 12
  HostWord = {0, 1}
  Programs <- MCPrograms
  Callees <- MCCallees
  MaxReturn = 2
INVARIANT
  ExecutionInBounds
PROPERTY
  EndsOrJumpsBack
CHECK_DEADLOCK FALSE
