CONSTANTS
  StartTip = 6
  MaxTip = 9
  StartIndex = 1
  MaxIndex = 1
  Pays <- PaysThree
  FalsePositives <- NoHeights
  GapLimit = 1
  CHECKPOINT_SPACING = 2
  CFILTER_BATCH = 2
  MAX_INFLIGHT_BATCHES = 2
  MAX_INFLIGHT_CFHEADERS = 2
  SCAN_TIP_DEPTH = 1
  Floors <- NoHeights
  Forks <- MCForks
  Excluded <- WholeDrains
  MaxReorgs = 1
  MaxStalls = 0
  MaxRestarts = 1
SPECIFICATION FairSpec
INVARIANTS
  QuietNoHole
  ScanSound
PROPERTIES
  ScanCompletes
CHECK_DEADLOCK FALSE
