SPECIFICATION TwoAdminsSpec
CONSTANTS
  admin = admin
  ann = ann
  Name <- MCName
  AdminName = admin
  Role <- TwoRoles
  Pw = {p1}
  Key = {k1, k2}
  Session = {s1, s2}
  Req = {r1, r2}
  None = None
  MayRunOpen = FALSE
  MayFail = FALSE
  MirrorWorks = FALSE
SYMMETRY Symmetry
CHECK_DEADLOCK FALSE
INVARIANT NobodyLockedOut
