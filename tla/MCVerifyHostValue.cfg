CONSTANTS
  t = t
  f1 = f1
  l = l
  v = v
  x = x
  Contract = {t, v, x}
  EOA = {user, other}
  Fresh = {f1}
  Target = t
  Victim = v
  TargetSender = user
  VictimSender = other
  DappOf <- MCDappOf
  CreatorOf <- MCCreatorOf
  BytecodeMentions <- MCBytecodeMentions
  TxInput = {x}
  VictimInput = {}
  VictimHasInput = {TRUE}
  TxPaid = TRUE
  VictimPaid = FALSE
  IsVerified = FALSE
  Selector = {"related"}
  target_dependency = "related"
  NoSelector = "none"
  Scheme = {"Call"}
  CallInput <- MCOneInput
  CallPaid = {TRUE}
  CallStipend = {FALSE}
  ReadBalance = {x}
  MaxCalls = 3
SPECIFICATION Spec
INVARIANTS
  LedgerIsolated
PROPERTIES
  StopUnwinds
CHECK_DEADLOCK FALSE
