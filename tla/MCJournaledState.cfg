SPECIFICATION Spec
CONSTANTS
  u1 = u1
  p3 = p3
  c0 = c0
  n1 = n1
  n2 = n2
  m = m
  x = x
  Address <- MCAddress
  Key <- MCKey
  PRECOMPILE3 = p3
  coinbase = c0
  TxCaller <- MCTxCaller
  Genesis <- MCGenesis
  CreateAddress <- MCCreateAddress
  Create2Address <- MCCreate2Address
  AccessList <- MCAccessList
  Named <- MCNamed
  Prepaid = 1
  Paid = {0, 1}
  CALL_STACK_LIMIT = 2
  MaxNonce = 2
  MaxTx = 2
  MaxOps = 3
  MaxFrames = 3
INVARIANTS
  NoValueCreated
  JournalIsSound
PROPERTY
  RevertRestores
CHECK_DEADLOCK FALSE
