CONSTANTS
  t = t
  p = p
  q = q
  factory = factory
  maker = maker
  Contract = {t, p, q}
  EOA = {e}
  Fresh = {f1, f2}
  Launched = {t, p}
  Factory = {factory, maker}
  Builder = {"builder", "other"}
  CreatedBy <- MCCreatedBy
  Creations = 5
  Born <- MCBorn
  Rows <- MCRows
  MaxSteps = 2
  Zero = "zero"
  MaxCreates = 2
SPECIFICATION Spec
INVARIANTS
  LoadedInTime
  MergedOnlyByFailure
SYMMETRY MCSymmetry
CHECK_DEADLOCK FALSE
