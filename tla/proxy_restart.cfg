SPECIFICATION Spec
CONSTANTS
  p1 = p1
  None = None
  Hosts = {1, 2}
  Proxies = {p1}
  EarlyClose = "never"
  MaxCrashes = 0
  MaxFailures = 0
  MaxTimeouts = 0
PROPERTY ReconnectsAfterRecovery
CHECK_DEADLOCK FALSE
