SPECIFICATION Spec
CONSTANTS
  MaxPane = 3
  MaxWindow = 2
  MaxRequest = 2
  SpawnFails = TRUE
  SerialPorts = TRUE
  StaleWindows = TRUE
  Broadcasts = TRUE
  ForeignSwaps = TRUE
CONSTRAINT SmallLayouts
INVARIANTS TypeOK OwnedOnce FocusLive OrderIsPermutation
CHECK_DEADLOCK FALSE
