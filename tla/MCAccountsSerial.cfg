SPECIFICATION Spec
CONSTANTS
  admin = admin
  ann = ann
  Name <- MCName
  AdminName = admin
  Role <- AllRoles
  Pw = {p1, p2}
  Key = {k1, k2}
  Session = {s1, s2}
  Req = {r1}
  None = None
  MayRunOpen = TRUE
  MayFail = TRUE
  MirrorWorks = TRUE
SYMMETRY Symmetry
CHECK_DEADLOCK FALSE
INVARIANT TypeOK
INVARIANT NobodyLockedOut
INVARIANT RoleTakesEffect
INVARIANT MirrorFollows
INVARIANT OldPasswordOut
