CONSTANTS
  t = t
  l = l
  v = v
  x = x
  Contract = {t, l, v, x}
  EOA = {user, other}
  Fresh = {}
  Target = t
  Victim = v
  TargetSender = user
  VictimSender = other
  DappOf <- MCDappOf
  CreatorOf <- MCCreatorOf
  BytecodeMentions <- MCBytecodeMentions
  TxInput = {x}
  VictimInput = {}
  VictimHasInput = {TRUE, FALSE}
  TxPaid = FALSE
  VictimPaid = FALSE
  IsVerified = FALSE
  Selector = {"related", "entry"}
  target_dependency = "related"
  NoSelector = "none"
  Scheme = {"Call", "DelegateCall"}
  CallInput <- MCOneInput
  CallPaid = {FALSE}
  CallStipend = {TRUE, FALSE}
  ReadBalance = {}
  MaxCalls = 3
SPECIFICATION Spec
INVARIANTS
  ModesMatchStack
  DepthMatchesRun
  EnvMatchesRun
  StateIsolated
  LeakOutsideTest
  VictimNeedsControl
PROPERTIES
  TargetWritesKept
  ReportIsPromised
CHECK_DEADLOCK FALSE
