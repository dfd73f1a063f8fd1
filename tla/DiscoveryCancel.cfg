\* A job is cancelled after the built-in collector has returned.
CONSTANTS
  Backend = {demo}
  Place = {"x"}
  PerJob = 3
  Monthly = 4
  Ten = 1
  Attempts = 1
  Minute = 1
  Hour = 1
  ResumeFor = 1
  Day = 2
  Month = 3
  Reports = {0, 2}
  Sizes = {1, 2}
  Slack = 1
  MaxTime = 1
  MaxCrashes = 0
SPECIFICATION DiscoveryFairSpec
CHECK_DEADLOCK FALSE
PROPERTY CancelStartsNoFallback
