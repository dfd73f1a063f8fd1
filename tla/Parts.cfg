\* Seven small parts, each in an instance of its own.
CONSTANTS

  r1 = r1  r2 = r2  r3 = r3  n1 = n1
  Listing <- ThreePages
  NoId = {n1}
  PageSize = 1
  Identities = 2
  Caps = {2, 4}
  Counts = {0, 3, 4}
  Inlines <- SomeInline
  TransientRetries = 1
  MaxStuckPasses = 1

  Browser = {b1, b2, b3}
  Base = 1
  Longest = 3
  MostDoublings = 2

  seed = seed  found = found  other = other
  Job = {seed, found, other}
  Parent <- FoundBy
  Proc = {p1, p2}
  Caller = {w1}
  BatchSize = 1
  MaxRestarts = 1

  Result = {x1, x2, x3}
  MaxBatch = 2

  MaxRuns = 2

  Agent = {a1, a2}
  CodesInSet = 1
  MaxSecrets = 2
  MaxSets = 2

  Request = {q1, q2}
  Limit = 2
  Window = 3
  MaxDelay = 1
SPECIFICATION Spec
CHECK_DEADLOCK FALSE
INVARIANTS CompleteIsWhole ExhaustedReadsAll HoldsBack HandedOnce ResultsKept
INVARIANTS SecretsOutlive AdminCanLogIn OnlyCutShortIsLost
INVARIANTS CodeUsedOnce EnabledCanBeAnswered LimitHolds
