SPECIFICATION Spec
CONSTANTS
  Req = {req1, req2}
  User = {root, ann}
  Admin = {root}
  Nobody = nobody
  MaxRows = 1
  MaxEvents = 1
INVARIANT AnonymousDenied
CHECK_DEADLOCK FALSE
