CONSTANTS
  Tip = 5
  Early <- MCEarly
  Late <- MCLate
  Floors <- GenesisFloor
  Forks <- NoHeights
  PERSIST_ATTEMPTS = 2
  Fails <- NoFails
  OverlappingStarts = FALSE
  StopsDuringDiscovery = TRUE
  ReorgAheadOfScan = FALSE
  MaxQueue = 4
  MaxReorgs = 0
  MaxStops = 1
  MaxExits = 0
  MaxCrashes = 0
SPECIFICATION Spec
INVARIANTS
  SettledNoHole
CHECK_DEADLOCK FALSE
