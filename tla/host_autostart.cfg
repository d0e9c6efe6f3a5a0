SPECIFICATION FairSpec
CONSTANTS
  p1 = p1
  p2 = p2
  None = None
  Hosts = {1, 2}
  Proxies = {p1, p2}
  EarlyClose = "leased"
  Patient = TRUE
  MaxCrashes = 1
  MaxFailures = 1
  MaxMishaps = 1
INVARIANTS AutostartTypeOK ServingIsAdvertised 
PROPERTY Recovers
CHECK_DEADLOCK FALSE
