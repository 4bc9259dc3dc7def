SPECIFICATION MCSpec
CONSTANTS
  Node <- OneNode
  GateType <- OneType
  Fanin <- OneFanin
  Fanout <- OneFanout
  Level <- OneLevel
  Output <- MCOutput
  Input <- OneInput
  Dff <- MCDff
  Lane = {1}
  Vals = {"0", "1"}
  MaxCycles = 5
CHECK_DEADLOCK FALSE
INVARIANTS MatchesMachine
