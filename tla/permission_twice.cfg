SPECIFICATION Spec
CONSTANTS
  r1 = r1
  r2 = r2
  c1 = c1
  c2 = c2
  None = None
  Runs = {r1, r2}
  Callers = {c1, c2}
  Presets = {"read", "write", "full"}
  Grant <- Granted
  Original = "read"
  Overlap = TRUE
  AtWork = FALSE
  MaxCrashes = 0
  MaxErrors = 0
PROPERTY ReleasedIsFinal
CHECK_DEADLOCK FALSE
