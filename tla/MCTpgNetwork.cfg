SPECIFICATION Spec
CONSTANTS
  Sources <- AllSources
CHECK_DEADLOCK FALSE
INVARIANTS TypeOK SizesSuffice RepresentativesEquivalent ImmDomIsFirst FaultsPartitioned ConditionIsExact
