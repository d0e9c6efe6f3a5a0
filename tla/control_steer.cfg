CONSTANTS
  r1 = r1  r2 = r2  g1 = g1  s1 = s1  x1 = x1
  Runs = {r1}
  Callers = {g1, s1}
  Kind <- Kinds
  None = None
  Ends = {"completed"}
  MaxEvents = 3
  MaxFailures = 1
  Overlap = FALSE
SPECIFICATION FairSpec
PROPERTY ReconcileFindsDurable
CHECK_DEADLOCK FALSE
