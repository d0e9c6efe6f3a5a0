CONSTANTS
  r1 = r1  r2 = r2  g1 = g1  s1 = s1  x1 = x1
  Runs = {r1, r2}
  Callers = {g1, s1, x1}
  Kind <- Kinds
  None = None
  Ends = {"completed"}
  MaxEvents = 3
  MaxFailures = 1
  Overlap = TRUE
SPECIFICATION CasesSpec
INVARIANTS TypeOK OwnText ConclusionHolds
PROPERTY EndsStand
SYMMETRY Symmetry
CHECK_DEADLOCK FALSE
