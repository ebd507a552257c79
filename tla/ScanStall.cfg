CONSTANTS
  StartTip = 6
  MaxTip = 6
  StartIndex = 1
  MaxIndex = 1
  Pays <- PaysTwo
  FalsePositives <- NoHeights
  GapLimit = 1
  CHECKPOINT_SPACING = 2
  CFILTER_BATCH = 2
  MAX_INFLIGHT_BATCHES = 2
  MAX_INFLIGHT_CFHEADERS = 2
  SCAN_TIP_DEPTH = 1
  Floors <- NoHeights
  Forks <- NoHeights
  Excluded <- WithStalls
  MaxReorgs = 0
  MaxStalls = 1
  MaxRestarts = 0
SPECIFICATION Spec
INVARIANTS
  NothingForgotten
CHECK_DEADLOCK FALSE
