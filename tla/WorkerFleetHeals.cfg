CONSTANTS
  w1 = w1  w2 = w2  d1 = d1  d2 = d2  None = None
  Workers = {w1}
  Deletions = {d1}
  MaxWorkers = 2
  MaxAttempts = 2
  MaxCrashes = 0
  MaxFaults = 0
SPECIFICATION Spec
CHECK_DEADLOCK FALSE
PROPERTY TimeoutIsHealable
