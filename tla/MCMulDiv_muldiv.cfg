SPECIFICATION Spec
CONSTANTS
  XLEN = 6
  Requests <- MCRequests
  Disturbances <- Noise
  MaxServed = 2
INVARIANTS
  MulDivTypeOK
  PartialProduct
  PartialQuotient
  OneUnitRuns
  LatencyByClass
  AnswerIsRight
PROPERTIES
  KeepsPromise
