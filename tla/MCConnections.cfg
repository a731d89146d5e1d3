SPECIFICATION MCSpec
CONSTANTS
  s1 = s1
  Session = {s1, s2}
  prod = prod
  prod2 = prod2
  DefaultID = default
  ConnID <- MCConnID
  Obj = {builtin, o1, o2, o3}
  BuiltIn = builtin
  None = None
  Shared = Shared
  Candidates <- MCCandidates
  Admin = {a1}
  EnvIDs <- InEnv
  Rank <- MCRank
  SaveMayFail = {TRUE}
  OpenMayFail = {TRUE}
  MayCrash = TRUE
  StorageModes = {TRUE, FALSE}
SYMMETRY ObjSymmetry
CHECK_DEADLOCK FALSE
INVARIANT TypeOK
INVARIANT NothingDangles
INVARIANT DroppedClosed
INVARIANT OnlyOverwrittenLeak
INVARIANT StoredInSync
INVARIANT SavedSurvives
INVARIANT ForgottenStaysGone
PROPERTY PrivateNotDisplaced
