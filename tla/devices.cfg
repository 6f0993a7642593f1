CONSTANTS
  IvecMax = 16
  PeriphMax = 8
  MaxUart = 3
  MaxSpi = 5
  MaxI2c = 2
SPECIFICATION Spec
INVARIANTS
  DevicesInv
  InterruptsServed
PROPERTIES
  VectorsStay
CHECK_DEADLOCK FALSE
