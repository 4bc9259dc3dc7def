SPECIFICATION MCSpec
CONSTANTS
  Node <- MCNode
  GateType <- MCType
  Fanin <- MCFanin
  Fanout <- MCFanout
  Level <- MCLevel
  Output <- MCOutput
  ArraySize <- MCArraySize
  MaskLimit <- MCMaskLimit
  Lane = {1, 2}
  Vals = {"0", "1", "X"}
  GoodValues <- MCGoodValues
CHECK_DEADLOCK FALSE
INVARIANTS TypeOK ListsMatchMarks NothingBelowCurLevel LevelInArray EnteredOnce Undoable CleanWhenQuiet
PROPERTIES ImplementsPropagation Returns
