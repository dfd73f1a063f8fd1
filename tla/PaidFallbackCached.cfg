\* A result is on disk when the ledger cannot be changed.
CONSTANTS
  Backend = {demo}
  Place = {"x"}
  PerJob = 3
  Monthly = 4
  Ten = 1
  Attempts = 1
  Minute = 1
  Hour = 1
  ResumeFor = 1
  Day = 2
  Month = 3
  Reports = {0}
  Sizes = {1}
  MaxTime = 2
  MaxCrashes = 0
SPECIFICATION PaidSpec
CHECK_DEADLOCK FALSE
INVARIANT CompletedIsCached
