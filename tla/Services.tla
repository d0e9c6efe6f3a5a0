------------------------------ MODULE Services ------------------------------
(***************************************************************************)
(* The parts of Relay that work inside one process, or with the Host and a *)
(* client, side by side in one state space.  They share no state: each     *)
(* behaviour is one of the part chosen at the start, the others stay in    *)
(* their initial states.                                                   *)
(***************************************************************************)
EXTENDS NotificationBuffer, FiniteSets

CONSTANTS
  None,
  MaxPendingEvents, MaxEvents, MaxDrops, MaxFailures, MaxFrames,    \* of EventMonitoring
  AgentRequests, KindOfRequest, Questions, Options, Principals, Runs,    \* of UserInteractions
  Principal, MaxPending,
  HttpRequests, Faults, MaxConcurrent, PerMinute, Minute, MaxClock, \* of McpHttp
  Attempts,                                                         \* of PromptDispatch
  Selections, Choice, Models, MaxChanges,                           \* of ModelSelection
  Starts, Relays, On, Asks, Sessions, KindOfSession, MaxServices,   \* of SessionClaims
  MaxMishaps,                                                       \* of both
  Offers, Workspace,                                                \* of TaskScope
  Home, Workspaces, Relative, MaxApplied                            \* of ClientSetup

VARIABLES
  part,
  log, work, lastSeq, link, sent, durable, awaiting, pendingEvents, degraded, tail,
  listed, covered, told, drops, failures, frames,
  owner, pending, holder, outcome, aborted, answer, calling, disposed,
  clock, phase, active, destroyed, bucket, granted, drain,
  adapter, dispatching, recorded, host, reply, verdict,
  default, selecting, before, after, wanted, disturbed, changes, selectMishaps,
  serviceOf, opened, starting, keys, lease, at, picked, created, turn, late, mishaps,
  parent, run, config, applied,
  status, reason, over, requests, tool, shown

eventVars ==
  <<log, work, lastSeq, link, sent, durable, awaiting, pendingEvents, degraded, tail,
    listed, covered, told, drops, failures, frames>>
askVars    == <<owner, pending, holder, outcome, aborted, answer, calling, disposed>>
httpVars   == <<clock, phase, active, destroyed, bucket, granted, drain>>
promptVars == <<adapter, dispatching, recorded, host, reply, verdict>>
modelVars  == <<default, selecting, before, after, wanted, disturbed, changes, selectMishaps>>
claimVars  ==
  <<serviceOf, opened, starting, keys, lease, at, picked, created, turn, late, mishaps>>
scopeVars  == <<parent, run>>
setupVars  == <<config, applied>>
guideVars  == <<status, reason, over, requests, tool, shown>>
servicesVars ==
  <<part, bufferVars, eventVars, askVars, httpVars, promptVars, modelVars, claimVars,
    scopeVars, setupVars, guideVars>>

Events == INSTANCE EventMonitoring WITH
  MaxPending <- MaxPendingEvents, MaxChanges <- MaxFrames, pending <- pendingEvents, changes <- frames

Interactions == INSTANCE UserInteractions WITH Requests <- AgentRequests, Kind <- KindOfRequest

Http == INSTANCE McpHttp WITH Never <- None

Dispatch == INSTANCE PromptDispatch WITH
  Adapters <- {"http", "inProcess", "typert"}, progress <- dispatching

Model == INSTANCE ModelSelection WITH progress <- selecting, mishaps <- selectMishaps

Claims == INSTANCE SessionClaims WITH Kind <- KindOfSession

Scope == INSTANCE TaskScope

Setup == INSTANCE ClientSetup

Guide == INSTANCE ClientGuidance WITH pending <- requests

\* Limits are numbers, and None is no time, run or session.
ASSUME ServicesAssumption ==
  /\ MaxPendingEvents \in Nat \ {0}
  /\ IsFiniteSet(Questions) /\ MaxPending \in Nat
  /\ MaxConcurrent \in Nat /\ PerMinute \in Nat /\ Minute \in Nat \ {0} /\ None \notin Nat
  /\ None \notin Starts \cup Sessions /\ On \in [Starts -> Relays]
  /\ Workspace \in Seq(STRING)
  /\ \A f \in Scope!Fields : Offers[f] \subseteq SUBSET Seq(STRING)

-----------------------------------------------------------------------------
Parts == {"buffer", "events", "interactions", "http", "dispatch", "model", "claims", "scope",
          "setup", "guide"}

\* Only the chosen part moves.
Frame ==
  /\ UNCHANGED part
  /\ IF part = "buffer" THEN TRUE ELSE UNCHANGED bufferVars
  /\ IF part = "events" THEN TRUE ELSE UNCHANGED eventVars
  /\ IF part = "interactions" THEN TRUE ELSE UNCHANGED askVars
  /\ IF part = "http" THEN TRUE ELSE UNCHANGED httpVars
  /\ IF part = "dispatch" THEN TRUE ELSE UNCHANGED promptVars
  /\ IF part = "model" THEN TRUE ELSE UNCHANGED modelVars
  /\ IF part = "claims" THEN TRUE ELSE UNCHANGED claimVars
  /\ IF part = "scope" THEN TRUE ELSE UNCHANGED scopeVars
  /\ IF part = "setup" THEN TRUE ELSE UNCHANGED setupVars
  /\ IF part = "guide" THEN TRUE ELSE UNCHANGED guideVars

ServicesInit ==
  /\ part \in Parts
  /\ BufferInit /\ Events!MonitorInit /\ Interactions!InteractionInit /\ Http!HttpInit
  /\ Dispatch!DispatchInit /\ Claims!ClaimInit /\ Scope!ScopeInit /\ Setup!SetupInit
  /\ Model!SelectionInit /\ Guide!GuideInit
  /\ part # "dispatch" => adapter = [c \in Attempts |-> "http"]
  /\ part # "model" => default.user = None

ServicesNext ==
  \/ part = "buffer" /\ BufferNext /\ Frame
  \/ part = "events" /\ Events!MonitorNext /\ Frame
  \/ part = "interactions" /\ Interactions!InteractionNext /\ Frame
  \/ part = "http" /\ Http!HttpNext /\ Frame
  \/ part = "dispatch" /\ Dispatch!DispatchNext /\ Frame
  \/ part = "model" /\ Model!SelectionNext /\ Frame
  \/ part = "claims" /\ Claims!ClaimNext /\ Frame
  \/ part = "scope" /\ Scope!ScopeNext /\ Frame
  \/ part = "setup" /\ Setup!SetupNext /\ Frame
  \/ part = "guide" /\ Guide!GuideNext /\ Frame

\* The fairness of EventMonitoring, for the behaviours of that part.
ServicesSpec ==
  /\ ServicesInit /\ [][ServicesNext]_servicesVars
  /\ WF_servicesVars(part = "events" /\ Events!SinkLists /\ Frame)
  /\ WF_servicesVars(part = "events" /\ Events!SinkAnswers /\ Frame)
  /\ WF_servicesVars(part = "events" /\ Events!Subscribed /\ Frame)
  /\ WF_servicesVars(part = "events" /\ Events!Receive /\ Frame)
  /\ \A s \in Events!Streams : WF_servicesVars(part = "events" /\ Events!Open(s) /\ Frame)

-----------------------------------------------------------------------------
\* The properties of the parts: each is stated with its meaning in its module.
\* The queue keeps its limits and a client misses nothing unknowingly (NotificationBuffer).
ReplayIsSound == WithinLimits /\ NothingMissed

\* Every accepted event is applied or waits to be, what a rebase announces is the
\* baseline the stream has, a client can tell a stream that may have lost events,
\* and no connection or sink that fails ends a pump (EventMonitoring).
EventsAreSound ==
  /\ Events!SequencerConsistent /\ Events!BaselineIsPublished
  /\ Events!StreamStateIsKnown /\ Events!PumpSurvives

\* When the faults stop, every stream is connected and caught up (EventMonitoring).
CatchesUp == part = "events" => Events!CatchesUp

\* A request of an Agent is settled once, by the owner of its run and with an
\* answer that fits it, and the list of pending ones is live (UserInteractions).
InteractionsAreOwned ==
  /\ [](Interactions!AnsweredByOwner /\ Interactions!PendingIsLive /\ Interactions!AnswerFits)
  /\ Interactions!SettledOnce

\* Slots are those of the handlers at work, a drain that ends in time leaves none
\* at work, and no more is granted than the rate allows (McpHttp).
RequestsAreBounded == Http!SlotsMatchHandlers /\ Http!DrainIsComplete /\ Http!RateIsBounded

\* A prompt the Host runs is recorded before, and never reported as rejected (PromptDispatch).
VerdictsAreTrue == Dispatch!RejectionIsDefinitive /\ Dispatch!AcceptedIsRecorded

\* Selections for sessions leave the default of the user, and a restoration
\* undoes its own write only (ModelSelection).
DefaultSurvives == []Model!DefaultIsKept /\ Model!RestoresOwnWrite

\* A session works for one run, and what keeps the others out is given back
\* with the run that took it (SessionClaims).
SessionsAreExclusive ==
  Claims!OneRunPerSession /\ Claims!ClaimsAreReturned /\ Claims!KeysAreOfLiveRuns

\* What a run may write is within what it names, a reply stays in the scope of its
\* parent, and full access is confirmed for each run (TaskScope).
ScopesHold == Scope!ScopeIsSound /\ Scope!RepliesStayScoped /\ Scope!DangerIsConfirmed

\* Setting one client up leaves the entries of the others (ClientSetup).
EntriesAreKept == Setup!EntriesAreKept

\* A client that follows the guidance never concludes early, and answers what
\* the run waits for (ClientGuidance).
GuidanceIsSound == Guide!NeverConcludesEarly /\ Guide!RequestsAreAnswered
=============================================================================
