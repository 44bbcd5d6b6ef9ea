SPECIFICATION FairSpec
CONSTANTS
  Client = {c1}
  Row = {1, 2}
  MaxPane = 2
  MaxWindow = 2
  MaxBurst = 2
  Ring = 1
  OutboxSize = 1
INVARIANTS StaleIsExplained
PROPERTIES CatchesUp RequestsAnswered
