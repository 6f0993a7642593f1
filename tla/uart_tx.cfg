CONSTANTS
  N = 6
  LineSize = 2
  MaxDma = 3
  WriteLens = {1, 5}
  MaxBytes = 12
SPECIFICATION Spec
INVARIANTS
  TxNoOverwrite
  TxInv
PROPERTIES
  TxIsFifo
  TxChainDrains
  WriteReturns
CHECK_DEADLOCK FALSE
