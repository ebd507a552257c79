CONSTANTS
  StartTip = 6
  MaxTip = 6
  StartIndex = 0
  MaxIndex = 2
  Pays <- PaysBehind
  FalsePositives <- NoHeights
  GapLimit = 1
  CHECKPOINT_SPACING = 2
  CFILTER_BATCH = 2
  MAX_INFLIGHT_BATCHES = 2
  MAX_INFLIGHT_CFHEADERS = 2
  SCAN_TIP_DEPTH = 1
  Floors <- ContactFloor
  Forks <- NoHeights
  Excluded <- WithHeldDiscovery
  MaxReorgs = 0
  MaxStalls = 0
  MaxRestarts = 0
SPECIFICATION Spec
INVARIANTS
  QuietNoHole
CHECK_DEADLOCK FALSE
