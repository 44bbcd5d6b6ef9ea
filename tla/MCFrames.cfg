SPECIFICATION FairSpec
CONSTANTS
  Pane = {p, q}
  Cells = {1, 2}
  MaxChanges = 2
  MaxResets = 2
INVARIANTS OldGridOnlyIfMissed OldAtlasOnlyIfLate
PROPERTY QuietScreenIsCurrent
CHECK_DEADLOCK FALSE
