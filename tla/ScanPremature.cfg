CONSTANTS
  StartTip = 6
  MaxTip = 6
  StartIndex = 1
  MaxIndex = 1
  Pays <- PaysThree
  FalsePositives <- NoHeights
  GapLimit = 1
  CHECKPOINT_SPACING = 2
  CFILTER_BATCH = 2
  MAX_INFLIGHT_BATCHES = 2
  MAX_INFLIGHT_CFHEADERS = 2
  SCAN_TIP_DEPTH = 1
  Floors <- NoHeights
  Forks <- NoHeights
  Excluded <- EverythingHolds
  MaxReorgs = 0
  MaxStalls = 0
  MaxRestarts = 0
SPECIFICATION Spec
INVARIANTS
  NoHole
CHECK_DEADLOCK FALSE
