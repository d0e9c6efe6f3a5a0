\* A retry while the first start is slow.
CONSTANTS
  c1 = c1  c2 = c2  c3 = c3
  Calls = {c1, c2}
  Keys = {"k"}
  None = None
  RpcTimeout = 1
  MaxClock = 2
  MaxCrashes = 0
  MaxWriteFailures = 0
  Overlap = TRUE
SPECIFICATION Spec
INVARIANTS OneSessionPerKey
SYMMETRY Symmetry
CHECK_DEADLOCK FALSE
