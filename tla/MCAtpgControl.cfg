SPECIFICATION MCSpec
CONSTANTS
  f1 = f1
  f2 = f2
  f3 = f3
  Fault = {f1, f2, f3}
  Vector = {v1, v2}
  Orders <- MCOrders
  CommandOptions <- DropAlways
  OnlyPpoObserved = FALSE
  MaxCommands = 2
CHECK_DEADLOCK FALSE
PROPERTIES StatusFinal
