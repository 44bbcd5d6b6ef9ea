SPECIFICATION Spec
CONSTANTS
  Height = 2
  Width = 2
  Char = {"a", "b"}
  ScrollbackLimit = 2
  Capacities = {1, 2}
  MaxOps = 5
INVARIANTS CleanRowsMirrored ScrollbackIsWhatLeft
PROPERTIES FramesAreWhole  ClientKeepsHistory
CHECK_DEADLOCK FALSE
