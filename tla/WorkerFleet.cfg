CONSTANTS
  w1 = w1  w2 = w2  d1 = d1  d2 = d2  None = None
  Workers = {w1,w2}
  Deletions = {d1}
  MaxWorkers = 2
  MaxAttempts = 2
  MaxCrashes = 1
  MaxFaults = 1
SPECIFICATION FairSpec
CHECK_DEADLOCK FALSE
INVARIANTS DeletionDestroys RaceIsGuarded ProvisioningSettles
PROPERTY DeletionsSettle
