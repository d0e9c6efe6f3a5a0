SPECIFICATION Spec
CONSTANTS
  p1 = p1
  p2 = p2
  p3 = p3
  p4 = p4
  Procs = {p1, p2, p3, p4}
  None = None
  Fenced = TRUE
  Prompt = FALSE
  MaxLinks = 4
  MaxCrashes = 2
  MaxReuses = 0
  MaxLeaks = 1
SYMMETRY Symmetry
INVARIANTS MutualExclusion
CHECK_DEADLOCK FALSE
