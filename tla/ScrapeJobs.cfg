CONSTANTS
  j1 = j1  j2 = j2  l1 = l1  l2 = l2  NoAttempt = NoAttempt
  Jobs = {j1, j2}
  Listings = {l1}
  MaxAttempts = 2
  MaxJobs = 3
  MaxStops = 0
  MaxFaults = 0
  Deletable = {}
SPECIFICATION Spec
SYMMETRY JobSymmetry
INVARIANTS AnswerIsComing RowsStayWithTheirJob
CHECK_DEADLOCK FALSE
