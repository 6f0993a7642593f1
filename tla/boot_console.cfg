CONSTANTS
  BlockLen = 3
  Blocks = 2
  OutLen = 4
  Options <- MCOptions
  Refusable = {"a", "W", "j"}
  LateAnswers = FALSE
  MaxFaults = 4
SPECIFICATION Spec
INVARIANTS
  DoneIsTrue
  ConsoleInv
PROPERTIES
  RestartNearby
  Finishes
  ConsoleIsLoader
CHECK_DEADLOCK FALSE
