CONSTANTS
  j1 = j1  j2 = j2  l1 = l1  l2 = l2  NoAttempt = NoAttempt
  Jobs = {j1}
  Listings = {l1}
  MaxAttempts = 2
  MaxJobs = 1
  MaxStops = 1
  MaxFaults = 1
  Deletable = {j1}
SPECIFICATION FairSpec
CHECK_DEADLOCK FALSE
INVARIANT CompletedIsSaved
PROPERTY JobsSettle
