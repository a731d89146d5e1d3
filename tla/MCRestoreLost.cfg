SPECIFICATION Spec
CONSTANTS
  Req = {1}
  Jobs = {}
  MaxWrites = 1
  MaxStops = 1
PROPERTY RestoredIsLoaded
CHECK_DEADLOCK FALSE
