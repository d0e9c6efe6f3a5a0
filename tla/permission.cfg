SPECIFICATION CasesSpec
CONSTANTS
  r1 = r1
  r2 = r2
  c1 = c1
  c2 = c2
  m1 = m1
  m2 = m2
  m3 = m3
  None = None
  Runs = {r1, r2}
  Callers = {c1}
  Presets = {"read", "write", "full"}
  Grant <- Granted
  Original = "read"
  Overlap = FALSE
  AtWork = FALSE
  MaxCrashes = 1
  MaxErrors = 1
INVARIANTS TypeOK   SessionFreed
PROPERTY BackInTheEnd
CHECK_DEADLOCK FALSE
