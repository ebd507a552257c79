CONSTANTS
  Gap = 1
  MaxAddress = 1
  Shared = {0}
  Payees = {0}
  MaxPool = 2
  MaxFaults = 1
  Excluded = {
    "joined download",
    "a note is marked while a sync reads",
    "nullifiers are checked while a sync recovers",
    "a sync runs when a spend is done"}
SPECIFICATION FairSpec
INVARIANTS
  NotesSound
PROPERTIES
  SpentStays
  ChangeFound
CHECK_DEADLOCK FALSE
