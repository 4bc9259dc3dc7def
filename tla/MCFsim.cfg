SPECIFICATION MCSpec
CONSTANTS
  Node <- MCNode
  GateType <- MCType
  Fanin <- MCFanin
  Fanout <- MCFanout
  Level <- MCLevel
  Output <- MCOutput
  Input <- MCInput
  Dff <- MCDff
  FaultList <- MCFaults
  FfrList <- MCFfrList
  FfrRoot <- MCFfrRoot
  FanoutIpos <- MCFanoutIpos
  Lane = {1, 2}
  Vals = {"0", "1", "X"}
  TestVectors <- AllVectors
CHECK_DEADLOCK FALSE
INVARIANTS TypeOK ReportedOnce
PROPERTIES ReportsExactly QueueContract
