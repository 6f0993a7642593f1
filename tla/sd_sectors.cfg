CONSTANTS
  v1 = v1
  v2 = v2
  Blank = Blank
  Values <- MCValues
  LastSector = 1
  MaxCount = 2
  MultiCalls = {TRUE}
  InitRetries = 3
  ReadRetries = 2
  WriteRetries = 2
SPECIFICATION Spec
INVARIANT BlockDeviceTrue
CHECK_DEADLOCK FALSE
