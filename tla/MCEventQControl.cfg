SPECIFICATION Spec
CONSTANTS
  Node <- MCNode
  GateType <- MCType
  Fanin <- MCFanin
  Fanout <- MCFanout
  Level <- MCLevel
  Output <- MCOutput
  ArraySize <- MCArraySize
  MaskLimit <- MCMaskLimit
  Lane = {1}
  Vals = {"0", "1"}
  GoodValues <- MCGoodValues
CHECK_DEADLOCK FALSE
INVARIANTS LevelInArray
