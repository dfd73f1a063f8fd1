\* Two searches and two places; a listing of three pages; two jobs and two processes.
CONSTANTS
  s1 = s1  s2 = s2  h1 = h1  h2 = h2
  Seeds = {s1, s2}
  Hrefs = {h1, h2}

  r1 = r1  r2 = r2  r3 = r3  n1 = n1
  Listing <- ThreePages
  NoId = {n1}
  PageSize = 1
  Identities = 2
  Caps = {3}
  Counts = {4}
  Inlines <- NoInline
  TransientRetries = 1
  MaxStuckPasses = 1

  found = found
  Job = {found, other}
  Parent <- FoundBy
  Proc = {p1, p2}
  Caller = {w1}
  BatchSize = 1
  MaxRestarts = 1
SPECIFICATION LiveSpec
CHECK_DEADLOCK FALSE
INVARIANT PlacesAreVisitedOnce
PROPERTIES CrawlEnds KeepsPromise CollectionEnds NewJobsReachWorkers
