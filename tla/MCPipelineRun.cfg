SPECIFICATION FairSpec
CONSTANTS
  StepCount = 3
  MaxParallelism = 4
INVARIANT NoSendOnClosed
PROPERTY KeepsPromise
PROPERTY RunEnds
PROPERTY GoroutinesEnd
