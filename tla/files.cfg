SPECIFICATION FilesSpec
CONSTANTS
  Procs = {p1, p2, p3}
  None = None
  Fenced = TRUE
  Prompt = TRUE
  MaxLinks = 4
  MaxCrashes = 2
  MaxReuses = 1
  MaxLeaks = 1
  Relays = {worker, copy, foreign}
  Worker = worker
  Foreign = foreign
  MaxSeq = 1
  MaxMishaps = 1
  Builders = {p1, p2, p3, p4}
  Previous = previous
  MaxDeaths = 1
  MaxErrors = 1
  MaxRemovals = 1
SYMMETRY Symmetry
INVARIANTS
  TypeOK LeaseIsOnDisk  UnfencedIsKept
  StateIsKept  BuildsAreSafe 
PROPERTIES
  Implements 
CHECK_DEADLOCK FALSE
