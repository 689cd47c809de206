CONSTANTS
  t = t
  l = l
  v = v
  x = x
  Contract = {t, l, v, x}
  EOA = {user, other}
  Fresh = {}
  Target = t
  Victim = v
  TargetSender = user
  VictimSender = other
  DappOf <- MCDappOf
  CreatorOf <- MCCreatorOf
  BytecodeMentions <- MCBytecodeMentions
  TxInput = {x}
  VictimInput = {}
  VictimHasInput = {TRUE}
  TxPaid = TRUE
  VictimPaid = TRUE
  IsVerified = FALSE
  Selector = {"related", "entry"}
  target_dependency = "related"
  NoSelector = "none"
  Scheme = {"Call", "CallCode", "DelegateCall"}
  CallInput <- MCOneInput
  CallPaid = {TRUE, FALSE}
  CallStipend = {FALSE}
  ReadBalance = {x}
  MaxCalls = 2
SPECIFICATION Spec
INVARIANT
  LedgerIsolated
CHECK_DEADLOCK FALSE
