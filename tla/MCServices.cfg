SPECIFICATION ServicesSpec
CONSTANTS
  Req = {req1, req2}
  User = {root, ann}
  Admin = {root}
  Nobody = nobody
  MaxRows = 2
  MaxEvents = 1
  PipelineReq = {writer, runner}
  Writers = {writer}
  pipe1 = pipe1
  pipe2 = pipe2
  PipelineName = {pipe1, pipe2}
  Candidate <- MCCandidate
  Bundle <- MCBundle
  MaxParallelism = 4
  MaxSteps = 2
  MaxVersions = 2
  MaxRuns = 1
  MaxDeletes = 1
  Id = {id1, id2}
  Startup = main
  key = key
  Value = {key}
  Inputs <- MCInputs
  Orders <- MCOrders
  MaxRequests = 2
  MaxCrashes = 1
  SnapshotReq = {1, 2}
  Jobs = {2}
  MaxWrites = 1
  MaxStops = 2
  LoginReq = {1, 2, 3}
  LoginAccount = {{4, 5}}
  MaxFailures = 3
  LockTime = 1
  MaxTime = 4
INVARIANT RunTraceable
INVARIANT SavedWhenAlone
INVARIANT PasswordKept
INVARIANT OpenedKept
INVARIANT GuessesBounded
INVARIANT IdsUnique
INVARIANT OwnRowsOnly
PROPERTY ImportAddsNew
PROPERTY OwnersDecide
PROPERTY RestartKeeps
CHECK_DEADLOCK FALSE
