\* A rerun cut between saving its outcome and its ingest.
SPECIFICATION Spec
CONSTANTS
  j1 = j1  j2 = j2  p1 = p1  p2 = p2  h1 = h1
  None = None  NoFile = NoFile
  Job <- OneJob
  Place <- OnePlace
  Handler <- OneHandler
  MaxStallRetries = 1
  StallAfter = 1
  MaxRestarts = 1
  MaxWindows = 0
  MaxReruns = 1
  MaxFaults = 0
  MaxDeletes = 0
  GridJob = {}
CHECK_DEADLOCK FALSE
INVARIANT BackfillCatchesUp
