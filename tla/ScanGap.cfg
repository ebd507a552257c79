CONSTANTS
  StartTip = 6
  MaxTip = 6
  StartIndex = 0
  MaxIndex = 2
  Pays <- PaysChain
  FalsePositives <- DecoyAtFour
  GapLimit = 1
  CHECKPOINT_SPACING = 2
  CFILTER_BATCH = 2
  MAX_INFLIGHT_BATCHES = 2
  MAX_INFLIGHT_CFHEADERS = 2
  SCAN_TIP_DEPTH = 1
  Floors <- NoHeights
  Forks <- NoHeights
  Excluded <- EverythingHolds
  MaxReorgs = 0
  MaxStalls = 1
  MaxRestarts = 1
SPECIFICATION FairSpec
INVARIANTS
  NoHole
  NothingForgotten
PROPERTIES
  HeldStill
  ScanCompletes
CHECK_DEADLOCK FALSE
