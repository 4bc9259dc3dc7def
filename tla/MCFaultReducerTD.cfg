SPECIFICATION Spec
CONSTANTS
  Fault <- TwoFaults
  Vector <- TwoCycles
  Batches <- SmallBatches
  Steps <- OneStep
INVARIANT DeletedIsImplied
CHECK_DEADLOCK FALSE
