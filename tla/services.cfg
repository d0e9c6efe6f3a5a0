SPECIFICATION ServicesSpec
CONSTANTS
  MaxItems = 2
  MaxBytes = 3
  Sizes = {1, 2, 4}
  MaxCursor = 5
  None = None
  approval1 = approval1
  question1 = question1
  principal1 = principal1
  principal2 = principal2
  run1 = run1
  run2 = run2
  http1 = http1
  http2 = http2
  http3 = http3
  stranger = stranger
  select1 = select1
  select2 = select2
  modelA = modelA
  modelB = modelB
  start1 = start1
  start2 = start2
  start3 = start3
  relay1 = relay1
  relay2 = relay2
  session1 = session1
  session2 = session2
  session3 = session3
  MaxPendingEvents = 1
  MaxEvents = 2
  MaxDrops = 1
  MaxFailures = 1
  MaxFrames = 1
  AgentRequests = {approval1, question1}
  KindOfRequest <- RequestKinds
  Questions = {item1, item2}
  Options = {label1}
  Principals = {principal1, principal2}
  Runs = {run1, run2}
  Principal <- PrincipalOf
  MaxPending = 1
  HttpRequests = {http1, http2, http3, stranger}
  Faults <- HttpFaults
  MaxConcurrent = 1
  PerMinute = 1
  Minute = 2
  MaxClock = 2
  Attempts = {prompt1, prompt2}
  Selections = {select1, select2}
  Choice <- ModelChoice
  Models = {modelA, modelB}
  MaxChanges = 2
  Starts = {start1, start2, start3}
  Relays = {relay1, relay2}
  On <- RelayOf
  Asks <- SessionAsked
  Sessions = {session1, session2, session3}
  KindOfSession <- SessionKinds
  MaxServices = 2
  MaxMishaps = 1
  Offers <- PathsOffered
  Workspace <- Here
  Home = home
  Workspaces = {work1, work2, home}
  Relative = relative
  MaxApplied = 2
INVARIANTS
  Contiguous ReplayIsSound  RequestsAreBounded 
    EntriesAreKept GuidanceIsSound
PROPERTIES
    DefaultSurvives
CHECK_DEADLOCK FALSE
