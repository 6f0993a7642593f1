CONSTANTS
  BlockLen = 2
  Blocks = 2
  OutLen = 3
  Options <- MCFlash
  Refusable = {}
  LateAnswers = TRUE
  MaxFaults = 0
SPECIFICATION Spec
INVARIANT FlashCopied
CHECK_DEADLOCK FALSE
