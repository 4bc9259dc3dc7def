SPECIFICATION MCSpec
CONSTANTS
  f1 = f1
  f2 = f2
  f3 = f3
  Fault = {f1, f2, f3}
  Vector = {v1, v2}
  Orders <- MCOrders
  CommandOptions <- DropAlways
  OnlyPpoObserved = TRUE
  MaxCommands = 2
CHECK_DEADLOCK FALSE
INVARIANTS AtpgTypeOK SkipOnlyClassified EveryVectorCounts DetectedIsCovered UntestableHasNoTest
PROPERTIES StatusFinal
