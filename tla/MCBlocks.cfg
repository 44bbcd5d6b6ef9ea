SPECIFICATION Spec
CONSTANTS
  Capacities = {2}
  MaxMarks = 8
  MaxAnchors = 2
  MaxSteps = 5
INVARIANT BlockIdsUnique
CHECK_DEADLOCK FALSE
