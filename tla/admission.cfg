\* Calls end, so the system stops.
SPECIFICATION CasesSpec
CONSTANTS
  c1 = c1  c2 = c2  c3 = c3
  Calls = {c1, c2, c3}
  Keys = {"k"}
  None = None
  RpcTimeout = 1
  MaxClock = 2
  MaxCrashes = 1
  MaxWriteFailures = 1
  Overlap = FALSE
INVARIANTS
  TypeOK OneOperationPerKey
  PromptIsKnown
PROPERTIES DiskAdvances StartsOnce
SYMMETRY Symmetry
CHECK_DEADLOCK FALSE
