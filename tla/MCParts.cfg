SPECIFICATION PartsSpec
CONSTANTS
  WordBytes = 2
  Radix = 4
  LengthBytes = 2
  UsizeBytes = 1
  HighBytes = 2
  OverflowLimit = 3
  LimbBits = 2
  ByteBits = 2
  Inputs <- MCInputs
  t = t
  c = c
  f = f
  g = g
  Block <- MCBlock
  Replayable <- MCReplayable
  Method <- MCMethod
  Target = t
  Contract = {t, c}
  Latest = 6
  tx_length = 2
  max_round = 2
  max_test = 1
  max_check_count = 3
  Page = 2
  Generated = 2
  MaxImplicit = 2
  c1 = c1
  c2 = c2
  Address = {c1, c2}
  Published = {c1}
  MaxKills = 3
INVARIANTS
  AnalysisIsExact
  AbiIsDecodable
  PowerIsExact
  MeteringIsNet
  CreatorsAreUnique
  FunctionsAreWhole
  PagesInOrder
  AbiCacheComplete
  RaisedIsStored
  CacheIsTrue
PROPERTY
  WholeKept
CHECK_DEADLOCK FALSE
