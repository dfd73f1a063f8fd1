\* Two backends over one ledger: a request that fails or is lost, a day that ends within its
\* month, a process that dies and a result written twice on the first day.
CONSTANTS
  Backend = {demo, mysql}
  Place = {"x"}
  PerJob = 3
  Monthly = 4
  Ten = 1
  Attempts = 1
  Minute = 0
  Hour = 0
  ResumeFor = 1
  Day = 2
  Month = 3
  Reports = {0}
  Sizes = {1}
  MaxTime = 2
  MaxCrashes = 1
SPECIFICATION PaidSpec
CHECK_DEADLOCK FALSE
INVARIANTS OneChargePerDay AllowanceHolds SuccessIsReadable
CONSTRAINT TroubleOnTheFirstDay
SYMMETRY Backends
