SPECIFICATION Spec
CONSTANTS
  StepCount = 2
  MaxParallelism = 1
INVARIANT EveryRunRecorded
