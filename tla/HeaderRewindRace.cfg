CONSTANTS
  Blocks <- TwoBranches
  Genesis = "g"
  Parent <- ParentOf
  Work <- EqualWork
  Origin = "origin"
  None = "none"
  Peers <- TwoPeers
  StartTips <- BehindAndAhead
  Best = "b4"
  Locks <- NoLocks
  REORG_MAX_DEPTH = 3
  LOCATOR_DENSE_HEIGHTS = 10
  MAX_HEADERS = 2
  ORPHAN_VOTE_PEERS = 2
  LOCATOR_SEEN_LIMIT = 10
  Excluded <- RewindRace
  MaxFailures = 0
SPECIFICATION Spec
PROPERTIES
  ImplementsLog
CHECK_DEADLOCK FALSE
