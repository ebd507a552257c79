CONSTANTS
  Tip = 5
  Early <- MCEarly
  Late <- MCLate
  Floors <- GenesisFloor
  Forks <- GenesisFork
  PERSIST_ATTEMPTS = 2
  Fails <- BlockFails
  OverlappingStarts = FALSE
  StopsDuringDiscovery = FALSE
  ReorgAheadOfScan = FALSE
  MaxQueue = 4
  MaxReorgs = 1
  MaxStops = 0
  MaxExits = 0
  MaxCrashes = 0
SPECIFICATION Spec
INVARIANTS
  SettledNoHole
  SessionCovers
  WatchesOwed
CHECK_DEADLOCK FALSE
