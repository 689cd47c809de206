CONSTANTS
  price = price
  pool = pool
  user = user
  Asked <- MCAsked
  Block = {1, 2}
  Word = {"old", "new", "0x"}
  NoCode = "0x"
  Chain <- MCChain
  Launch <- MCLaunch
  MaxTries = 2
  MaxRuns = 2
SPECIFICATION Spec
INVARIANT
  CacheIsTrue
PROPERTIES
  AnswerKept
  RequestEnds
CHECK_DEADLOCK FALSE
