SPECIFICATION Spec
INVARIANTS
  TouchInv
  LateOnce
PROPERTIES
  TransceiveDone
  SampleWhole
  ReleaseAfterPress
  SamplesGoOn
  TransceiveReturns
