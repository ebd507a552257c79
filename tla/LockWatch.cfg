CONSTANTS
  Txs = {"ours", "theirs"}
  Local = {"ours"}
  Ttl = 2
  WaitTime = 1
  MaxFaults = 1
  Excluded = {"bare fork", "arm while a refresh reads", "late waiter", "waiter without a child", "lock before the record"}
SPECIFICATION FairSpec
INVARIANTS
  WatchSound
PROPERTIES
  ArmedGetsWatched
CHECK_DEADLOCK FALSE
