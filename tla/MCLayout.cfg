SPECIFICATION Spec
CONSTANTS
  Sizes <- LargeAndTiny
  Dirs = {"horizontal"}
  Deltas <- StepUpAndDown
  Rects <- Corner
  SoloModes = FALSE
  MaxPane = 3
  MaxWindow = 2
CONSTRAINT NoLowSplit
INVARIANTS TilesPartition PtyFitsTile FloatsFit
