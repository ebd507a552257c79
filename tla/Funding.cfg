CONSTANTS
  MaxLocks = 2
  Registers = {1}
  Rebuilt = {1}
  Slots = {s1, s2}
  MaxCrashes = 2
  MaxFailures = 2
  Excluded = {"start beside a job", "resume beside a job", "give up beside a resume"}
SPECIFICATION FairSpec
INVARIANTS
  NoLostLock
  DoneMeansDone
  FundingShown
PROPERTIES
  Final
  Settles
CHECK_DEADLOCK FALSE
