CONSTANTS
  StartTip = 7
  MaxTip = 7
  StartIndex = 0
  MaxIndex = 2
  Pays <- PaysBoth
  FalsePositives <- DecoyAtFour
  GapLimit = 1
  CHECKPOINT_SPACING = 3
  CFILTER_BATCH = 3
  MAX_INFLIGHT_BATCHES = 2
  MAX_INFLIGHT_CFHEADERS = 2
  SCAN_TIP_DEPTH = 1
  Floors <- FirstFloor
  Forks <- NoHeights
  Excluded <- EverythingHolds
  MaxReorgs = 0
  MaxStalls = 1
  MaxRestarts = 1
SPECIFICATION FairSpec
INVARIANTS
  NoHole
PROPERTIES
  AppliedInOrder
  ScanCompletes
CHECK_DEADLOCK FALSE
