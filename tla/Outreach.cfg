\* Two businesses, two requests, a process stop and two days.
CONSTANTS
  a = a  b = b  c = c  s1 = s1  s2 = s2  h1 = h1  h2 = h2  None = None
  Lead = {a, b}
  Request = {h1, h2}
  Sequence = {s1, s2}
  Category = {c}
  Status = {"new", "do_not_contact"}
  Files <- TwoLeadFiles
  ReviewFloor = 1
  Allowed = {s1, s2}
  Live = {s1, s2}
  Routes <- TwoRoutes
  MaxBatch = 2
  MaxRequests = 2
  MaxEvents = 1
SYMMETRY Handlers
SPECIFICATION Spec
CHECK_DEADLOCK FALSE
INVARIANTS StopTakesEffect OnceADay NoRepeatUnasked
