\* One backend: jobs with a small or no sample, a dead process, a stale lock.
CONSTANTS
  Backend = {demo}
  Place = {"x"}
  PerJob = 3
  Monthly = 4
  Ten = 1
  Attempts = 1
  Minute = 1
  Hour = 1
  ResumeFor = 1
  Day = 2
  Month = 3
  Reports = {0, 3}
  Sizes = {1, 2}
  Slack = 1
  MaxTime = 1
  MaxCrashes = 1
SPECIFICATION DiscoveryFairSpec
CHECK_DEADLOCK FALSE
INVARIANT BestSampleShown
PROPERTIES PaidAsSpecified JobSettles
