SPECIFICATION BackgroundSpec
CONSTANTS
  Req = {r1, r2}
  Run = {n1}
  Config = {c1}
  MaxFails = 1
  File = {1, 2, 3}
  Table <- TableOf
  MaxStamp = 3
  MaxImportFails = 1
  Task = {t1, t2}
  Object = {o1, o2}
  Text = {x1, x2}
  Model = {m1, m2}
  MaxChanges = 3
INVARIANT OneRowPerName
INVARIANT EnabledIsRegistered
INVARIANT IndexExact
PROPERTY RequestsEnd
PROPERTY CatchesUp
CHECK_DEADLOCK FALSE
