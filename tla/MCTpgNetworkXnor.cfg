SPECIFICATION Spec
CONSTANTS
  Sources <- WideXnor
CHECK_DEADLOCK FALSE
INVARIANTS SitesExist
