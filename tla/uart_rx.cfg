CONSTANTS
  N = 6
  LineSize = 2
  MaxDma = 3
  ReadLens = {1, 3}
  MaxBytes = 7
SPECIFICATION Spec
INVARIANTS
  RxNoOverwrite
  RxInv
PROPERTIES
  RxIsFifo
  RxLossOnlyInHandler
  RxListensAgain
  ReadReturns
CHECK_DEADLOCK FALSE
