CONSTANTS
  j1 = j1  j2 = j2  l1 = l1  l2 = l2  NoAttempt = NoAttempt
  Jobs = {j1}
  Listings = {l1}
  MaxAttempts = 2
  MaxJobs = 2
  MaxStops = 0
  MaxFaults = 0
  Deletable = {j1}
SPECIFICATION Spec
INVARIANT DeletedLeavesNothing
CHECK_DEADLOCK FALSE
