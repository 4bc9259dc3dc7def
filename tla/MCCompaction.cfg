SPECIFICATION Spec
CONSTANTS
  Bit = {1, 2}
  Row = {1, 2, 3}
  Fault = {1, 2, 3}
  PvBitLen = 3
  MaxK = 2
  Vector <- AllVectors
  Batches <- AllBatches
  Steps <- AllSteps
INVARIANTS
  TypeOK
  CandidatesExact
  DeletedIsImplied
  GraphFollowsMatrix
  ColoursAreGroups
  ReductionKeepsOptimum
  EveryFaultDetected
PROPERTY Compacted
