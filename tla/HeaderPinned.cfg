CONSTANTS
  Blocks <- LongBranches
  Genesis = "g"
  Parent <- LongParentOf
  Work <- LongWork
  Origin = "origin"
  None = "none"
  Peers <- OnePeer
  StartTips <- LonePeer
  Best = "b5"
  Locks <- NoLocks
  REORG_MAX_DEPTH = 1
  LOCATOR_DENSE_HEIGHTS = 10
  MAX_HEADERS = 10
  ORPHAN_VOTE_PEERS = 2
  LOCATOR_SEEN_LIMIT = 3
  Excluded <- OneAtATime
  MaxFailures = 1
SPECIFICATION FairSpec
PROPERTIES
  HeavierAnswerTaken
  Converges
CHECK_DEADLOCK FALSE
