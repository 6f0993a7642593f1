CONSTANTS
  BlockLen = 2
  Blocks = 2
  OutLen = 3
  Options <- MCUpload
  Refusable = {"w"}
  LateAnswers = FALSE
  MaxFaults = 1
SPECIFICATION Spec
INVARIANT ChunkInPlace
CHECK_DEADLOCK FALSE
