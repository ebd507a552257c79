CONSTANTS
  Blocks <- LockedBranch
  Genesis = "g"
  Parent <- LockedParentOf
  Work <- LockedWork
  Origin = "origin"
  None = "none"
  Peers <- TwoPeers
  StartTips <- OneOnEach
  Best = "b3"
  Locks <- LockB2
  REORG_MAX_DEPTH = 3
  LOCATOR_DENSE_HEIGHTS = 10
  MAX_HEADERS = 10
  ORPHAN_VOTE_PEERS = 2
  LOCATOR_SEEN_LIMIT = 10
  Excluded <- LockRace
  MaxFailures = 0
SPECIFICATION Spec
INVARIANTS
  LockedStays
CHECK_DEADLOCK FALSE
