SPECIFICATION MCSpec
CONSTANTS
  Node <- TwoNode
  GateType <- TwoType
  Fanin <- TwoFanin
  Fanout <- TwoFanout
  Level <- TwoLevel
  Output <- MCOutput
  Input <- TwoInput
  Dff <- MCDff
  Lane = {1}
  Vals = {"0", "1"}
  MaxCycles = 5
CHECK_DEADLOCK FALSE
INVARIANTS MatchesMachine
