SPECIFICATION Spec
CONSTANTS
  Req = {req1, req2}
  Account = {{lower, upper}}
  MaxFailures = 5
  LockTime = 1
  MaxTime = 1
INVARIANT AccountGuessesBounded
CHECK_DEADLOCK FALSE
