SPECIFICATION RestartSpec
CONSTANTS
  MaxPane = 3
  MaxWindow = 2
  MaxRequest = 0
  SpawnFails = TRUE
  SerialPorts = TRUE
  StaleWindows = FALSE
  Broadcasts = FALSE
  ForeignSwaps = TRUE
INVARIANTS RestartTypeOK TreesMatchUnlessTroubled RestoredFocusLive RestoredOwnedOnce RestoredWindowsGood
PROPERTIES MovesConservePanes RestoredAsSaved
CONSTRAINT FewTroubles
ACTION_CONSTRAINT SwapIsLast
CHECK_DEADLOCK FALSE
