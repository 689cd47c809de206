CONSTANTS
  proxy = proxy
  logic = logic
  zero = zero
  UnknownDapp = {fresh}
  Unanalysed = {}
  OwnerOnly <- MCOwnerOnly
  Contract <- MCContract
  Precompile = {precompile}
  Fresh = {fresh}
  SameDapp <- MCSameDapp
  Selector = {zero, selector}
  NoInput = zero
  Root = proxy
  RootSelector = selector
  NoLink = NoLink
  Scheme = {"Call", "DelegateCall"}
  MaxCalls = 3
  MaxAccess = 2
SPECIFICATION Spec
INVARIANTS GraphIsCallTree EnvMatchesRun ProxyByDelegateCall DigestCountsOnce
CHECK_DEADLOCK FALSE
