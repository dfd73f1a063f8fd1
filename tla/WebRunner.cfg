\* Two jobs (one of them may be the retry of the other), stalls and a rerun; or one job with two of a
\* pause window, a delete, a rerun, a restart and a failing write.
SPECIFICATION Spec
CONSTANTS
  j1 = j1  j2 = j2  p1 = p1  p2 = p2  h1 = h1
  None = None  NoFile = NoFile
  Job <- TwoJobs
  Place <- OnePlace
  Handler <- OneHandler
  MaxStallRetries = 1
  StallAfter = 1
  MaxRestarts = 1
  MaxWindows = 1
  MaxReruns = 1
  MaxFaults = 1
  MaxDeletes = 1
  GridJob = {}
CHECK_DEADLOCK FALSE
CONSTRAINT SecondJobOrTrouble
INVARIANTS PauseMarkIsOfTheRun WorkingHasOwner StoppedRunIsRequeued LeadsCaughtUp
PROPERTY TruncationLosesNothing
SYMMETRY JobSymmetry
