CONSTANTS
  v1 = v1
  v2 = v2
  Blank = Blank
  Values <- MCValues
  LastSector = 1
  MaxCount = 2
  MultiCalls = {TRUE, FALSE}
  InitRetries = 3
  ReadRetries = 2
  WriteRetries = 2
SPECIFICATION Spec
INVARIANTS
  SdInv
  ResultTrue
PROPERTIES
  CallReturns
  SdIsBlockDevice
CHECK_DEADLOCK FALSE
