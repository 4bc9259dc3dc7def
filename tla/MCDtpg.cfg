SPECIFICATION Spec
CONSTANTS
  Engines <- MCEngines
  MaxK = 3
CHECK_DEADLOCK FALSE
INVARIANTS TypeOK ConditionSuffices VectorsDetect UntestableIsProved VectorsAreNew CoreSuffices
