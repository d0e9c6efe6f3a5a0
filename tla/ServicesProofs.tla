--------------------------- MODULE ServicesProofs ---------------------------
(***************************************************************************)
(* What holds of the services that share nothing, for every number of      *)
(* sessions, runs, requests and clients and every limit. A step of the     *)
(* composition is a step of one of them and changes no other (PartsApart); *)
(* each part then has its own inductive invariant. What a session is       *)
(* claimed for is taken from SessionClaimsProofs, read with the names of   *)
(* Services.                                                               *)
(***************************************************************************)
EXTENDS Services, FiniteSetTheorems, WellFoundedInduction, TLAPS

-----------------------------------------------------------------------------
(* The parts do not touch each other.                                      *)

LEMMA PartsApart ==
  ASSUME [ServicesNext]_servicesVars
  PROVE  /\ [BufferNext]_bufferVars
         /\ [Events!MonitorNext]_eventVars
         /\ [Interactions!InteractionNext]_askVars
         /\ [Http!HttpNext]_httpVars
         /\ [Dispatch!DispatchNext]_promptVars
         /\ [Model!SelectionNext]_modelVars
         /\ [Claims!ClaimNext]_claimVars
         /\ [Scope!ScopeNext]_scopeVars
         /\ [Setup!SetupNext]_setupVars
         /\ [Guide!GuideNext]_guideVars
<1>1. CASE ServicesNext
    BY <1>1 DEF ServicesNext, Frame
<1>2. CASE UNCHANGED servicesVars
    BY <1>2 DEF servicesVars
<1> QED
    BY <1>1, <1>2

-----------------------------------------------------------------------------
(* ClientGuidance                                                          *)

\* What is over stays so, and only a run at work has requests pending.
GuideInv ==
  /\ over \in BOOLEAN
  /\ IF over THEN requests = {} /\ status \in Guide!Outcomes \cup {"needs_attention"}
             ELSE status \in {"running", "unknown", "needs_attention"}
  /\ status = "needs_attention" => reason \in {"run_stalled", "permission_restore_failed"}
  /\ status # "needs_attention" => reason = None
  /\ GuidanceIsSound

LEMMA GuideInductive ==
  ASSUME GuideInv, [Guide!GuideNext]_guideVars
  PROVE  GuideInv'
<1> USE DEF GuideInv, GuidanceIsSound, Guide!NeverConcludesEarly, Guide!RequestsAreAnswered, Guide!Outcomes,
            Guide!RunVars
<1>1. CASE Guide!Poll
    BY <1>1 DEF Guide!Poll, Guide!View, Guide!nextTool
<1>2. CASE Guide!Summary
    BY <1>2 DEF Guide!Summary, Guide!View, Guide!nextAction, Guide!actionForAttention
<1>3. CASE Guide!Respond
    BY <1>3 DEF Guide!Respond
<1>4. CASE Guide!OpenSession
    BY <1>4 DEF Guide!OpenSession
<1>5. ASSUME NEW k, Guide!Ask(k) PROVE GuideInv'
    BY <1>5 DEF Guide!Ask
<1>6. CASE Guide!Stall
    BY <1>6 DEF Guide!Stall
<1>7. CASE Guide!Progress
    BY <1>7 DEF Guide!Progress
<1>8. CASE Guide!Finish
    BY <1>8 DEF Guide!Finish
<1>9. CASE Guide!Unknown
    BY <1>9 DEF Guide!Unknown
<1>10. CASE Guide!Done \/ UNCHANGED guideVars
    BY <1>10 DEF Guide!Done, Guide!guideVars, guideVars
<1> QED
    BY <1>1, <1>2, <1>3, <1>4, <1>5, <1>6, <1>7, <1>8, <1>9, <1>10 DEF Guide!GuideNext

\* A client that does what get_run, wait_run and get_run_summary tell it never ends
\* its turn before the run is over, and is sent to answer what the run waits for,
\* however the run changes between its calls (host-poll-contract.ts).
THEOREM GuidanceHolds == ServicesSpec => []GuidanceIsSound
<1>1. ServicesInit => GuideInv
    BY DEF ServicesInit, Guide!GuideInit, GuideInv, GuidanceIsSound, Guide!NeverConcludesEarly,
       Guide!RequestsAreAnswered
<1>2. GuideInv /\ [ServicesNext]_servicesVars => GuideInv'
    BY PartsApart, GuideInductive
<1>3. GuideInv => GuidanceIsSound
    BY DEF GuideInv
<1> QED
    BY <1>1, <1>2, <1>3, PTL DEF ServicesSpec

-----------------------------------------------------------------------------
(* PromptDispatch                                                          *)

\* A call is recorded before the Host sees it, and told of after.
DispatchOf(c) ==
  /\ adapter[c] \in {"http", "inProcess", "typert"}
  /\ dispatching[c] \in {"start", "recorded", "sent", "done"}
  /\ dispatching[c] \in {"start", "recorded"} => host[c] = "nothing"
  /\ dispatching[c] \in {"recorded", "sent"} => c \in recorded
  /\ dispatching[c] # "done" => verdict[c] = "none"
  /\ verdict[c] = "rejected" => host[c] # "accepted"
  /\ host[c] = "accepted" => c \in recorded \/ (reply[c] = "unobserved" /\ verdict[c] = "uncertain")

DispatchInv ==
  /\ DOMAIN adapter = Attempts /\ DOMAIN dispatching = Attempts /\ DOMAIN host = Attempts
  /\ DOMAIN reply = Attempts /\ DOMAIN verdict = Attempts
  /\ dispatching = [c \in Attempts |-> dispatching[c]] /\ host = [c \in Attempts |-> host[c]]
  /\ reply = [c \in Attempts |-> reply[c]] /\ verdict = [c \in Attempts |-> verdict[c]]
  /\ \A c \in Attempts : DispatchOf(c)

LEMMA DispatchInductive ==
  ASSUME DispatchInv, [Dispatch!DispatchNext]_promptVars
  PROVE  DispatchInv'
<1> USE DEF DispatchInv, Dispatch!Goes
<1>1. ASSUME NEW c \in Attempts, Dispatch!RecordMinted(c) \/ Dispatch!RecordChosen(c) PROVE DispatchInv'
    BY <1>1 DEF Dispatch!RecordMinted, Dispatch!RecordChosen, DispatchOf
<1>2. ASSUME NEW c \in Attempts, Dispatch!NotDispatched(c) PROVE DispatchInv'
    BY <1>2 DEF Dispatch!NotDispatched, DispatchOf
<1>3. ASSUME NEW c \in Attempts, Dispatch!HostSees(c) PROVE DispatchInv'
    BY <1>3 DEF Dispatch!HostSees, DispatchOf
<1>4. ASSUME NEW c \in Attempts, Dispatch!Returns(c) PROVE DispatchInv'
  <2>1. PICK r \in Dispatch!Possible(c) : /\ reply' = [reply EXCEPT ![c] = r]
                                          /\ verdict' = [verdict EXCEPT ![c] = Dispatch!Verdict(adapter[c], r)]
      BY <1>4 DEF Dispatch!Returns
  <2>2. Dispatch!Verdict(adapter[c], r) = "rejected" => host[c] # "accepted"
      BY DEF Dispatch!Possible, Dispatch!Verdict, Dispatch!httpVerdict, Dispatch!inProcessVerdict,
         Dispatch!inProcessTransportError, Dispatch!typertVerdict, Dispatch!typertGatewayError,
         Dispatch!isTransientHostCode, DispatchOf
  <2> QED
      BY <1>4, <2>1, <2>2 DEF Dispatch!Returns, DispatchOf
<1>5. ASSUME NEW c \in Attempts, Dispatch!Bypassed(c) PROVE DispatchInv'
    BY <1>5 DEF Dispatch!Bypassed, Dispatch!inProcessVerdict, Dispatch!inProcessTransportError, DispatchOf
<1>6. CASE UNCHANGED promptVars
    BY <1>6 DEF promptVars, DispatchOf
<1> QED
    BY <1>1, <1>2, <1>3, <1>4, <1>5, <1>6 DEF Dispatch!DispatchNext

\* Whatever gateway a prompt goes through and whatever is lost on the way, what the
\* Host accepted is never reported as rejected, and can be found by the rpcId that
\* was recorded before (host-errors.ts, in-process-dispatch-handler.ts).
THEOREM VerdictsHold == ServicesSpec => []VerdictsAreTrue
<1>1. ServicesInit => DispatchInv
  <2> SUFFICES ASSUME ServicesInit PROVE DispatchInv
      OBVIOUS
  <2>1. /\ adapter \in [Attempts -> {"http", "inProcess", "typert"}]
        /\ dispatching = [c \in Attempts |-> "start"] /\ recorded = {}
        /\ host = [c \in Attempts |-> "nothing"]
        /\ reply = [c \in Attempts |-> "ok"] /\ verdict = [c \in Attempts |-> "none"]
      BY DEF ServicesInit, Dispatch!DispatchInit
  <2> QED
      BY <2>1 DEF DispatchInv, DispatchOf
<1>2. DispatchInv /\ [ServicesNext]_servicesVars => DispatchInv'
    BY PartsApart, DispatchInductive
<1>3. DispatchInv => VerdictsAreTrue
    BY DEF DispatchInv, DispatchOf, VerdictsAreTrue, Dispatch!RejectionIsDefinitive, Dispatch!AcceptedIsRecorded
<1> QED
    BY <1>1, <1>2, <1>3, PTL DEF ServicesSpec

-----------------------------------------------------------------------------
(* ClientSetup                                                             *)

\* What sends two plans to one place is the same client and scope, except for a
\* project in the home directory.
LEMMA PlacesDiffer ==
  ASSUME NEW r \in Setup!Requests, NEW s \in Setup!Requests, Setup!ready(r), Setup!ready(s),
         r.workspace # Home, s.workspace # Home, Setup!location(r) = Setup!location(s)
  PROVE  r.client = s.client /\ r.scope = s.scope
<1> USE DEF Setup!Requests, Setup!Clients, Setup!Scopes
<1>1. /\ r.home = Home /\ s.home = Home
      /\ r.scope \in Setup!adapter(r).scopes /\ s.scope \in Setup!adapter(s).scopes
    BY DEF Setup!ready, Setup!Detected, Setup!DirectoriesAreValid
<1>2. \A q \in {r, s} :
        Setup!location(q) =
          CASE q.client = "codex" -> <<Home, ".codex/config.toml", <<"mcp_servers">>>>
            [] q.client = "claude" /\ q.scope = "project" -> <<q.workspace, ".mcp.json", <<"mcpServers">>>>
            [] q.client = "claude" /\ q.scope = "local" ->
                 <<Home, ".claude.json", <<"projects", q.workspace, "mcpServers">>>>
            [] q.client = "claude" /\ q.scope = "user" -> <<Home, ".claude.json", <<"mcpServers">>>>
            [] q.client = "cursor" ->
                 <<IF q.scope = "project" THEN q.workspace ELSE Home, ".cursor/mcp.json", <<"mcpServers">>>>
            [] q.client = "opencode" ->
                 IF q.scope = "project" THEN <<q.workspace, "opencode.json", <<"mcp", "servers">>>>
                 ELSE <<Home, ".config/opencode/opencode.json", <<"mcp", "servers">>>>
    BY <1>1 DEF Setup!location, Setup!adapter, Setup!codex, Setup!claude, Setup!cursor, Setup!opencode,
       Setup!privateSelector
<1>3. \A q \in {r, s} : q.client = "codex" => q.scope = "user"
    BY <1>1 DEF Setup!adapter, Setup!codex
<1>4. \A q \in {r, s} : q.client \in {"cursor", "opencode"} => q.scope \in {"project", "user"}
    BY <1>1 DEF Setup!adapter, Setup!cursor, Setup!opencode
<1> QED
    BY <1>2, <1>3, <1>4

SetupInv ==
  /\ \A r \in applied : r \in Setup!Requests /\ Setup!ready(r)
  /\ EntriesAreKept

LEMMA SetupInductive ==
  ASSUME SetupInv, [Setup!SetupNext]_setupVars
  PROVE  SetupInv'
<1>1. ASSUME NEW r \in Setup!Requests, Setup!Apply(r) PROVE SetupInv'
  <2>1. /\ Setup!ready(r) /\ applied' = applied \cup {r}
        /\ config' = {c \in config : c.target # Setup!location(r)}
                       \cup {[target |-> Setup!location(r), entry |-> Setup!entry(r)]}
      BY <1>1 DEF Setup!Apply
  <2>2. \A s \in applied' : s \in Setup!Requests /\ Setup!ready(s)
      BY <1>1, <2>1 DEF SetupInv
  <2>3. ASSUME \A s \in applied' : s.workspace # Home, NEW s \in applied'
        PROVE  \E c \in config' : c.target = Setup!location(s) /\ c.entry.principal = <<s.client, s.scope>>
    <3>1. CASE Setup!location(s) = Setup!location(r)
      <4>1. r.client = s.client /\ r.scope = s.scope
          BY <1>1, <2>1, <2>2, <2>3, <3>1, PlacesDiffer
      <4>2. Setup!entry(r).principal = <<r.client, r.scope>>
          BY DEF Setup!entry
      <4> DEFINE new == [target |-> Setup!location(r), entry |-> Setup!entry(r)]
      <4>3. new \in config' /\ new.target = Setup!location(r) /\ new.entry = Setup!entry(r)
          BY <2>1
      <4> HIDE DEF new
      <4>4. new.target = Setup!location(s) /\ new.entry.principal = <<s.client, s.scope>>
          BY <3>1, <4>1, <4>2, <4>3
      <4> QED
          BY <4>3, <4>4
    <3>2. CASE Setup!location(s) # Setup!location(r)
      <4>1. s \in applied /\ \A q \in applied : q.workspace # Home
          BY <2>1, <2>3, <3>2
      <4>2. PICK c \in config : c.target = Setup!location(s) /\ c.entry.principal = <<s.client, s.scope>>
          BY <4>1 DEF SetupInv, EntriesAreKept, Setup!EntriesAreKept
      <4> QED
          BY <2>1, <3>2, <4>2
    <3> QED
        BY <3>1, <3>2
  <2> QED
      BY <2>2, <2>3 DEF SetupInv, EntriesAreKept, Setup!EntriesAreKept
<1>2. CASE UNCHANGED setupVars
    BY <1>2 DEF setupVars, SetupInv, EntriesAreKept, Setup!EntriesAreKept
<1> QED
    BY <1>1, <1>2 DEF Setup!SetupNext

\* Whatever is set up after it, each client finds its own entry with its own
\* principal, for any workspaces but the home directory (setup/*-config-adapter.ts).
THEOREM EntriesStay == ServicesSpec => []EntriesAreKept
<1>1. ServicesInit => SetupInv
    BY DEF ServicesInit, Setup!SetupInit, SetupInv, EntriesAreKept, Setup!EntriesAreKept
<1>2. SetupInv /\ [ServicesNext]_servicesVars => SetupInv'
    BY PartsApart, SetupInductive
<1>3. SetupInv => EntriesAreKept
    BY DEF SetupInv
<1> QED
    BY <1>1, <1>2, <1>3, PTL DEF ServicesSpec

-----------------------------------------------------------------------------
(* ModelSelection                                                          *)

Choosing == {"select", "selectBlind", "describe", "compare", "restore"}

\* What a call under way knows of the default: its own selection is the one write
\* since it looked, unless the revision says otherwise, and without a disturbance.
SelectionOf(c) ==
  /\ selecting[c] \in Choosing \cup Model!Done \cup {"called"}
  /\ selecting[c] = "selectBlind" => disturbed
  /\ selecting[c] \in Choosing \ {"selectBlind"} =>
       /\ before[c].revision \in Nat /\ before[c].revision <= default.revision
       /\ disturbed \/ before[c].user = wanted
  /\ selecting[c] = "select" =>
       disturbed \/ (default.user = wanted /\ before[c].revision = default.revision)
  /\ selecting[c] \in {"describe", "compare", "restore"} =>
       /\ before[c].revision < default.revision
       /\ default.revision = before[c].revision + 1 => default.by = c
       /\ disturbed \/ (default.revision = before[c].revision + 1 /\ default.user = Choice[c])
  /\ selecting[c] \in {"compare", "restore"} =>
       /\ after[c].revision \in Nat /\ before[c].revision < after[c].revision
       /\ disturbed \/ after[c] = default
  /\ selecting[c] = "restore" => after[c].revision = before[c].revision + 1

SelectionInv ==
  /\ DOMAIN selecting = Selections /\ DOMAIN before = Selections /\ DOMAIN after = Selections
  /\ default.revision \in Nat /\ disturbed \in BOOLEAN
  /\ \A c \in Selections : SelectionOf(c)
  /\ \A c, d \in Selections : Model!Active(c) /\ Model!Active(d) => c = d
  /\ Model!DefaultIsKept

\* A call that moves, the others being at rest.
LEMMA OneSelects ==
  ASSUME SelectionInv, NEW c \in Selections, SelectionOf(c)',
         \A d \in Selections \ {c} : ~Model!Active(d),
         \A d \in Selections \ {c} : selecting'[d] = selecting[d],
         DOMAIN selecting' = Selections, DOMAIN before' = Selections, DOMAIN after' = Selections,
         default'.revision \in Nat, disturbed' \in BOOLEAN,
         ~disturbed' /\ selecting'[c] \notin Choosing => default'.user = wanted'
  PROVE  SelectionInv'
<1>1. \A d \in Selections \ {c} : selecting'[d] \notin Choosing
    BY DEF Model!Active, Choosing, Model!Done
<1>2. \A d \in Selections \ {c} : SelectionOf(d)'
    BY <1>1 DEF SelectionInv, SelectionOf, Choosing
<1>3. \A d \in Selections : selecting'[d] \in Choosing \cup Model!Done \cup {"called"}
    BY <1>2 DEF SelectionOf
<1>4. \A d \in Selections : Model!Active(d)' => d = c
    BY <1>1, <1>3 DEF Model!Active
<1>5. selecting'[c] \in Choosing => Model!Active(c)'
    BY DEF Choosing, Model!Active, Model!Done
<1> QED
    BY <1>2, <1>4, <1>5 DEF SelectionInv, Model!DefaultIsKept

LEMMA SelectionInductive ==
  ASSUME SelectionInv, [Model!SelectionNext]_modelVars
  PROVE  /\ SelectionInv'
         /\ \A c \in Selections :
              selecting[c] = "restore" /\ selecting'[c] # "restore" /\ default' # default
                => default.by = c
<1> DEFINE Goal ==
      \A c \in Selections :
        selecting[c] = "restore" /\ selecting'[c] # "restore" /\ default' # default => default.by = c
<1> USE DEF Model!GoOn, Model!Mishap
<1>1. ASSUME NEW c \in Selections, Model!DescribeBefore(c) PROVE SelectionInv' /\ Goal
  <2>1. selecting[c] = "called" /\ (\A d \in Selections : ~Model!Active(d)) /\ UNCHANGED <<default, after, wanted>>
      BY <1>1 DEF Model!DescribeBefore, Model!First
  <2>2. /\ \A d \in Selections \ {c} : selecting'[d] = selecting[d]
        /\ DOMAIN selecting' = Selections /\ DOMAIN before' = Selections /\ DOMAIN after' = Selections
        /\ default'.revision \in Nat /\ disturbed' \in BOOLEAN
      BY <1>1, <2>1 DEF Model!DescribeBefore, SelectionInv
  <2>3. \/ selecting'[c] = "select" /\ before'[c] = default /\ disturbed' = disturbed
        \/ selecting'[c] = "selectBlind" /\ disturbed' = TRUE
      BY <1>1, <2>1 DEF Model!DescribeBefore, SelectionInv
  <2>4. disturbed \/ default.user = wanted
      BY <2>1 DEF SelectionInv, Model!DefaultIsKept
  <2>5. SelectionOf(c)'
      BY <2>1, <2>2, <2>3, <2>4 DEF SelectionOf, Choosing, SelectionInv
  <2> QED
      BY <2>1, <2>2, <2>3, <2>5, OneSelects DEF Choosing
<1>2. ASSUME NEW c \in Selections, selecting[c] \in Choosing
      PROVE  /\ Model!Active(c) /\ \A d \in Selections \ {c} : ~Model!Active(d)
             /\ SelectionOf(c) /\ default.revision \in Nat
  <2>1. Model!Active(c)
      BY <1>2 DEF Choosing, Model!Active, Model!Done
  <2> QED
      BY <2>1 DEF SelectionInv
<1>3. ASSUME NEW c \in Selections, Model!SelectSessionModel(c) PROVE SelectionInv' /\ Goal
  <2>1. selecting[c] \in {"select", "selectBlind"} /\ UNCHANGED <<before, after, wanted>>
      BY <1>3 DEF Model!SelectSessionModel
  <2>2. /\ \A d \in Selections \ {c} : selecting'[d] = selecting[d]
        /\ DOMAIN selecting' = Selections /\ disturbed' \in BOOLEAN
        /\ default' = default \/ default' = [user |-> Choice[c], revision |-> default.revision + 1, by |-> c]
        /\ \/ /\ default' = [user |-> Choice[c], revision |-> default.revision + 1, by |-> c]
              /\ disturbed' = disturbed
              /\ selecting'[c] = IF selecting[c] = "select" THEN "describe" ELSE "unavailable"
           \/ selecting'[c] = "failed" /\ disturbed' = TRUE
      BY <1>3 DEF Model!SelectSessionModel, Model!HostSelects, SelectionInv
  <2>3. /\ \A d \in Selections \ {c} : ~Model!Active(d)
        /\ SelectionOf(c) /\ default.revision \in Nat
      BY <1>2, <2>1 DEF Choosing
  <2>4. default'.revision \in Nat
      BY <2>2, <2>3
  <2>5. SelectionOf(c)'
    <3>1. CASE selecting'[c] \in {"unavailable", "failed"}
        BY <3>1 DEF SelectionOf, Choosing, Model!Done
    <3>2. CASE selecting'[c] \notin {"unavailable", "failed"}
      <4>1. /\ selecting[c] = "select" /\ selecting'[c] = "describe" /\ disturbed' = disturbed
            /\ default'.user = Choice[c] /\ default'.revision = default.revision + 1 /\ default'.by = c
          BY <2>1, <2>2, <3>2
      <4>2. /\ before[c].revision \in Nat /\ before[c].revision <= default.revision
            /\ disturbed \/ (before[c].user = wanted /\ before[c].revision = default.revision)
          BY <2>3, <4>1 DEF SelectionOf, Choosing
      <4> QED
          BY <2>1, <2>3, <4>1, <4>2 DEF SelectionOf, Choosing, Model!Done
    <3> QED
        BY <3>1, <3>2
  <2>6. ~disturbed' /\ selecting'[c] \notin Choosing => default'.user = wanted'
      BY <2>1, <2>2, <2>3 DEF SelectionOf, Choosing
  <2>7. DOMAIN before' = Selections /\ DOMAIN after' = Selections
      BY <2>1 DEF SelectionInv
  <2>8. SelectionInv'
      BY <2>2, <2>3, <2>4, <2>5, <2>6, <2>7, OneSelects
  <2> QED
      BY <2>1, <2>2, <2>8
<1>4. ASSUME NEW c \in Selections, Model!DescribeAfter(c) PROVE SelectionInv' /\ Goal
  <2>1. selecting[c] = "describe" /\ UNCHANGED <<before, default, wanted>>
      BY <1>4 DEF Model!DescribeAfter
  <2>2. /\ \A d \in Selections \ {c} : selecting'[d] = selecting[d]
        /\ DOMAIN selecting' = Selections /\ DOMAIN after' = Selections /\ DOMAIN before' = Selections
        /\ disturbed' \in BOOLEAN
        /\ \/ selecting'[c] = "compare" /\ after'[c] = default /\ disturbed' = disturbed
           \/ selecting'[c] = "unavailable" /\ disturbed' = TRUE
      BY <1>4, <2>1 DEF Model!DescribeAfter, SelectionInv
  <2>3. /\ \A d \in Selections \ {c} : ~Model!Active(d)
        /\ SelectionOf(c) /\ default.revision \in Nat
      BY <1>2, <2>1 DEF Choosing
  <2>5. SelectionOf(c)'
      BY <2>1, <2>2, <2>3 DEF SelectionOf, Choosing, Model!Done
  <2>6. ~disturbed' => selecting'[c] \in Choosing
      BY <2>2 DEF Choosing
  <2>7. SelectionInv'
      BY <2>1, <2>2, <2>3, <2>5, <2>6, OneSelects
  <2> QED
      BY <2>1, <2>2, <2>7
<1>5. ASSUME NEW c \in Selections, Model!Compare(c) PROVE SelectionInv' /\ Goal
  <2>1. selecting[c] = "compare" /\ UNCHANGED <<before, after, default, wanted, disturbed>>
      BY <1>5 DEF Model!Compare
  <2>2. /\ \A d \in Selections \ {c} : selecting'[d] = selecting[d]
        /\ DOMAIN selecting' = Selections /\ DOMAIN after' = Selections /\ DOMAIN before' = Selections
      BY <1>5, <2>1 DEF Model!Compare, SelectionInv
  <2>3. /\ \A d \in Selections \ {c} : ~Model!Active(d)
        /\ SelectionOf(c) /\ default.revision \in Nat /\ disturbed \in BOOLEAN
      BY <1>2, <2>1 DEF Choosing, SelectionInv
  <2>4. \/ selecting'[c] = "restore" /\ after[c].revision = before[c].revision + 1
        \/ selecting'[c] \in {"not-needed", "skipped-concurrent-change"} /\ disturbed
    <3>1. after[c].revision # before[c].revision
        BY <2>1, <2>3 DEF SelectionOf, Choosing
    <3>2. CASE Model!OwnChange(c)
        BY <1>5, <3>1, <3>2 DEF Model!Compare, Model!OwnChange, SelectionInv
    <3>3. CASE ~Model!OwnChange(c)
      <4>1. selecting'[c] = "skipped-concurrent-change"
          BY <1>5, <3>1, <3>3 DEF Model!Compare, SelectionInv
      <4>2. disturbed
          BY <2>1, <2>3, <3>3 DEF Model!OwnChange, SelectionOf, Choosing
      <4> QED
          BY <4>1, <4>2
    <3> QED
        BY <3>2, <3>3
  <2>5. SelectionOf(c)'
      BY <2>1, <2>2, <2>3, <2>4 DEF SelectionOf, Choosing, Model!Done
  <2>6. ~disturbed' => selecting'[c] \in Choosing
      BY <2>1, <2>4 DEF Choosing
  <2>7. SelectionInv'
      BY <2>1, <2>2, <2>3, <2>5, <2>6, OneSelects
  <2> QED
      BY <2>1, <2>7
<1>6. ASSUME NEW c \in Selections, Model!Restore(c) PROVE SelectionInv' /\ Goal
  <2>1. selecting[c] = "restore" /\ UNCHANGED <<before, after, wanted>>
      BY <1>6 DEF Model!Restore
  <2>2. /\ \A d \in Selections \ {c} : selecting'[d] = selecting[d]
        /\ DOMAIN selecting' = Selections /\ DOMAIN after' = Selections /\ DOMAIN before' = Selections
        /\ disturbed' \in BOOLEAN
      BY <1>6, <2>1 DEF Model!Restore, SelectionInv
  <2>3. /\ \A d \in Selections \ {c} : ~Model!Active(d)
        /\ SelectionOf(c) /\ default.revision \in Nat
      BY <1>2, <2>1 DEF Choosing
  <2>4. \/ default' = default
        \/ /\ default.revision = after[c].revision
           /\ default' = [user |-> before[c].user, revision |-> default.revision + 1, by |-> c]
      BY <1>6 DEF Model!Restore, Model!HostRestores
  <2>5. /\ selecting'[c] \in {"restored", "skipped-concurrent-change"}
        /\ \/ disturbed' = TRUE
           \/ disturbed' = disturbed /\ default.revision # after[c].revision
           \/ /\ disturbed' = disturbed
              /\ default' = [user |-> before[c].user, revision |-> default.revision + 1, by |-> c]
      BY <1>6 DEF Model!Restore, Model!HostRestores, SelectionInv
  <2>6. default'.revision \in Nat
      BY <2>3, <2>4
  <2>7. SelectionOf(c)'
      BY <2>5 DEF SelectionOf, Choosing, Model!Done
  <2>8. ~disturbed' => default'.user = wanted'
      BY <2>1, <2>3, <2>5 DEF SelectionOf, Choosing
  <2>9. SelectionInv'
      BY <2>2, <2>3, <2>6, <2>7, <2>8, OneSelects
  <2>10. default' # default => default.by = c
      BY <2>1, <2>3, <2>4 DEF SelectionOf
  <2>11. \A d \in Selections \ {c} : selecting'[d] = selecting[d]
      BY <2>2
  <2> QED
      BY <2>9, <2>10, <2>11
<1>7. ASSUME NEW m \in Models, Model!UserChanges(m) PROVE SelectionInv' /\ Goal
  <2>1. /\ default' = [user |-> m, revision |-> default.revision + 1, by |-> None] /\ wanted' = m
        /\ disturbed' = (disturbed \/ \E c \in Selections : Model!Active(c))
        /\ UNCHANGED <<selecting, before, after>>
      BY <1>7 DEF Model!UserChanges
  <2>2. default'.revision = default.revision + 1 /\ default.revision \in Nat /\ default'.user = wanted'
      BY <2>1 DEF SelectionInv
  <2>3. \A c \in Selections : Model!Active(c)' <=> Model!Active(c)
      BY <2>1 DEF Model!Active
  <2>4. ASSUME NEW c \in Selections PROVE SelectionOf(c)'
    <3>1. SelectionOf(c) /\ (selecting[c] \in Choosing => disturbed')
        BY <1>2, <2>1 DEF SelectionInv
    <3> QED
        BY <2>1, <2>2, <3>1 DEF SelectionOf, Choosing, Model!Done
  <2>5. disturbed' \in BOOLEAN
      BY <2>1, Zenon
  <2> QED
      BY <2>1, <2>2, <2>3, <2>4, <2>5 DEF SelectionInv, Model!DefaultIsKept
<1>8. CASE UNCHANGED modelVars
  <2>1. UNCHANGED <<default, selecting, before, after, wanted, disturbed>>
      BY <1>8 DEF modelVars
  <2>2. \A c \in Selections : SelectionOf(c)'
      BY <2>1 DEF SelectionInv, SelectionOf
  <2> QED
      BY <2>1, <2>2 DEF SelectionInv, Model!DefaultIsKept, Model!Active
<1> QED
    BY <1>1, <1>3, <1>4, <1>5, <1>6, <1>7, <1>8 DEF Model!SelectionNext

\* However selections of sessions, changes by the user and failed requests interleave,
\* a call writes over its own selection only, and the default of the user comes back
\* when nothing disturbed it (ModelSelectionFacade.select).
THEOREM DefaultComesBack == ServicesSpec => DefaultSurvives
<1>1. ServicesInit => SelectionInv
  <2> SUFFICES ASSUME ServicesInit PROVE SelectionInv
      OBVIOUS
  <2>1. /\ default.revision = 0 /\ wanted = default.user /\ disturbed = FALSE
        /\ selecting = [c \in Selections |-> "called"]
        /\ DOMAIN before = Selections /\ DOMAIN after = Selections
      BY DEF ServicesInit, Model!SelectionInit
  <2>2. \A c \in Selections : ~Model!Active(c)
      BY <2>1 DEF Model!Active
  <2>3. \A c \in Selections : SelectionOf(c)
      BY <2>1 DEF SelectionOf, Choosing
  <2>4. default.revision \in Nat
      BY <2>1
  <2>6. disturbed \in BOOLEAN
      BY <2>1, Zenon
  <2>5. DOMAIN selecting = Selections
      BY <2>1
  <2> QED
      BY <2>1, <2>2, <2>3, <2>4, <2>5, <2>6 DEF SelectionInv, Model!DefaultIsKept
<1>2. SelectionInv /\ [ServicesNext]_servicesVars =>
        /\ SelectionInv'
        /\ [\A c \in Selections :
              selecting[c] = "restore" /\ selecting'[c] # "restore" /\ default' # default
                => default.by = c]_<<default, selecting, before, after, wanted, disturbed, changes, selectMishaps>>
    BY PartsApart, SelectionInductive
<1>3. SelectionInv => Model!DefaultIsKept
    BY DEF SelectionInv
<1> QED
    BY <1>1, <1>2, <1>3, PTL DEF ServicesSpec, DefaultSurvives, Model!RestoresOwnWrite, Model!selectionVars

-----------------------------------------------------------------------------
(* UserInteractions                                                        *)

\* Each part counts in the same way.
LEMMA Counting ==
  /\ \A S : Interactions!Cardinality(S) = Cardinality(S)
  /\ \A S : Http!Cardinality(S) = Cardinality(S)
  /\ \A S : Events!Cardinality(S) = Cardinality(S)
<1>1. \A S : Interactions!Cardinality(S) = Cardinality(S)
    BY Zenon DEF Cardinality, Interactions!Cardinality
<1>2. \A S : Http!Cardinality(S) = Cardinality(S)
    BY Zenon DEF Cardinality, Http!Cardinality
<1>3. \A S : Events!Cardinality(S) = Cardinality(S)
    BY Zenon DEF Cardinality, Events!Cardinality
<1> QED
    BY <1>1, <1>2, <1>3

\* A request that is pending is open, and one that was answered is not.
AskInv ==
  /\ DOMAIN holder = AgentRequests /\ DOMAIN outcome = AgentRequests /\ DOMAIN answer = AgentRequests
  /\ pending \subseteq AgentRequests /\ IsFiniteSet(pending)
  /\ \A q \in AgentRequests : answer[q] # None => outcome[q] # "none"
  /\ Interactions!AnsweredByOwner /\ Interactions!PendingIsLive /\ Interactions!AnswerFits

\* As many different answers as there are questions answer each of them.
LEMMA EachIsAnswered ==
  ASSUME NEW q \in AgentRequests, NEW r \in Interactions!Responses, r.kind = "question",
         Interactions!validateResponse(q, r)
  PROVE  {r.ids[i] : i \in DOMAIN r.ids} = Questions
<1>1. r.ids \in UNION {[1 .. n -> Questions] : n \in 0 .. Cardinality(Questions)}
  <2> DEFINE Ids == UNION {[1 .. n -> Questions] : n \in 0 .. Cardinality(Questions)}
  <2>1. \/ r \in [kind : {"cancel"}]
        \/ r \in [kind : {"approval"}, explained : BOOLEAN, allows : BOOLEAN, basis : BOOLEAN]
        \/ r \in [kind : {"question"}, ids : Ids, selected : SUBSET Options, custom : BOOLEAN]
      BY Counting DEF Interactions!Responses
  <2> HIDE DEF Ids
  <2>2. r \in [kind : {"cancel"}] => r.kind = "cancel"
      OBVIOUS
  <2>3. r \in [kind : {"approval"}, explained : BOOLEAN, allows : BOOLEAN, basis : BOOLEAN]
          => r.kind = "approval"
      OBVIOUS
  <2>4. r \in [kind : {"question"}, ids : Ids, selected : SUBSET Options, custom : BOOLEAN] => r.ids \in Ids
      OBVIOUS
  <2>5. r.ids \in Ids
      BY <2>1, <2>2, <2>3, <2>4
  <2> QED
      BY <2>5 DEF Ids
<1>2. PICK n \in 0 .. Cardinality(Questions) : r.ids \in [1 .. n -> Questions]
    BY <1>1
<1>3. Cardinality(Questions) \in Nat
    BY ServicesAssumption, FS_CardinalityType
<1>4. n \in Nat
    BY <1>2, <1>3
<1>5. r.ids \in Seq(Questions) /\ Len(r.ids) = n
    BY <1>2, <1>4
<1>6. n = Cardinality(Questions) /\ \A i, j \in DOMAIN r.ids : r.ids[i] = r.ids[j] => i = j
  <2>1. /\ Len(r.ids) = Cardinality(Questions)
        /\ \A i, j \in DOMAIN r.ids : r.ids[i] = r.ids[j] => i = j
      BY Zenon, Counting DEF Interactions!validateResponse
  <2> QED
      BY <1>5, <2>1
<1>7. r.ids \in Injection(1 .. n, Questions)
    BY <1>2, <1>6 DEF Injection, IsInjective
<1>8. Cardinality(1 .. n) = n
    BY <1>4, FS_Interval
<1>9. r.ids \in Surjection(1 .. n, Questions)
    BY <1>6, <1>7, <1>8, FS_Injection, ServicesAssumption
<1> QED
    BY <1>2, <1>9 DEF Surjection

\* What remains when the requests that are not current are pruned.
LEMMA Pruning ==
  ASSUME AskInv
  PROVE  /\ Interactions!Current \subseteq pending /\ IsFiniteSet(Interactions!Current)
         /\ Cardinality(Interactions!Current) <= Cardinality(pending)
         /\ Cardinality(Interactions!Current) \in Nat /\ Cardinality(pending) \in Nat
         /\ DOMAIN Interactions!Pruned = AgentRequests
         /\ \A q \in AgentRequests : outcome[q] # "none" => Interactions!Pruned[q] = outcome[q]
         /\ \A q \in AgentRequests :
              Interactions!Pruned[q] = IF q \in pending \ Interactions!Current THEN "cancelled" ELSE outcome[q]
<1>1. Interactions!Current \subseteq pending
    BY DEF Interactions!Current
<1>2. IsFiniteSet(Interactions!Current) /\ Cardinality(Interactions!Current) <= Cardinality(pending)
    BY <1>1, FS_Subset DEF AskInv
<1>3. Cardinality(Interactions!Current) \in Nat /\ Cardinality(pending) \in Nat
    BY <1>2, FS_CardinalityType DEF AskInv
<1> QED
    BY <1>1, <1>2, <1>3 DEF Interactions!Pruned, AskInv, Interactions!PendingIsLive

\* Nothing new is asked, and what is answered fits and comes from the owner.
LEMMA Fewer ==
  ASSUME AskInv, pending' \subseteq pending,
         DOMAIN outcome' = AgentRequests, DOMAIN answer' = AgentRequests, holder' = holder,
         \A q \in pending' : outcome'[q] = "none" /\ q \notin aborted',
         disposed' => pending' = {},
         \A q \in AgentRequests : outcome[q] # "none" => outcome'[q] = outcome[q],
         \A q \in AgentRequests :
           \/ answer'[q] = answer[q] /\ (outcome'[q] = "answered" => outcome[q] = "answered")
           \/ /\ answer'[q].by = Principal[holder[q]] /\ answer'[q].run = holder[q]
              /\ outcome'[q] \in {"cancelled", "answered"}
              /\ outcome'[q] = "answered" =>
                   LET r == answer'[q].response
                   IN  IF KindOfRequest[q] = "question" THEN {r.ids[i] : i \in DOMAIN r.ids} = Questions
                       ELSE r.kind = "approval" /\ r.explained /\ (r.allows => r.basis)
  PROVE  AskInv'
<1>1. IsFiniteSet(pending') /\ Cardinality(pending') <= Cardinality(pending)
    BY FS_Subset DEF AskInv
<1>2. Cardinality(pending') \in Nat /\ Cardinality(pending) \in Nat /\ Cardinality(pending) <= MaxPending
  <2>1. Cardinality(pending') \in Nat
      BY <1>1, FS_CardinalityType
  <2>2. Cardinality(pending) \in Nat
      BY FS_CardinalityType DEF AskInv
  <2> QED
      BY <2>1, <2>2, Counting DEF AskInv, Interactions!PendingIsLive
<1>3. Cardinality(pending') <= MaxPending
    BY <1>1, <1>2, ServicesAssumption
<1>4. Interactions!AnsweredByOwner'
    BY DEF AskInv, Interactions!AnsweredByOwner
<1>5. Interactions!AnswerFits'
  <2> SUFFICES ASSUME NEW q \in AgentRequests, outcome'[q] = "answered"
               PROVE  LET r == answer'[q].response
                      IN  IF KindOfRequest[q] = "question" THEN {r.ids[i] : i \in DOMAIN r.ids} = Questions
                          ELSE r.kind = "approval" /\ r.explained /\ (r.allows => r.basis)
      BY DEF Interactions!AnswerFits
  <2>1. CASE answer'[q] = answer[q] /\ (outcome'[q] = "answered" => outcome[q] = "answered")
      BY <2>1 DEF AskInv, Interactions!AnswerFits
  <2> QED
      BY <2>1
<1>6. \A q \in AgentRequests : answer'[q] # None => outcome'[q] # "none"
    BY DEF AskInv
<1>7. Interactions!PendingIsLive'
    BY <1>3, Counting DEF Interactions!PendingIsLive
<1>8. DOMAIN holder' = AgentRequests /\ pending' \subseteq AgentRequests
    BY DEF AskInv
<1> QED
    BY <1>1, <1>4, <1>5, <1>6, <1>7, <1>8 DEF AskInv

LEMMA AskInductive ==
  ASSUME AskInv, [Interactions!InteractionNext]_askVars
  PROVE  AskInv' /\ \A q \in AgentRequests : outcome[q] # "none" => outcome'[q] = outcome[q]
<1> DEFINE Kept == \A q \in AgentRequests : outcome[q] # "none" => outcome'[q] = outcome[q]
<1>0. /\ DOMAIN holder = AgentRequests /\ DOMAIN outcome = AgentRequests /\ DOMAIN answer = AgentRequests
      /\ pending \subseteq AgentRequests
      /\ \A q \in pending : outcome[q] = "none" /\ q \notin aborted
      /\ disposed => pending = {}
    BY DEF AskInv, Interactions!PendingIsLive
<1>1. CASE \/ Interactions!OwnerChanges \/ UNCHANGED askVars
             \/ \E p \in Principals, r \in Runs, q \in AgentRequests : Interactions!Respond(p, r, q)
  <2>1. UNCHANGED <<pending, holder, outcome, aborted, answer, disposed>>
      BY <1>1 DEF Interactions!OwnerChanges, askVars, Interactions!Respond
  <2> QED
      BY <2>1, <1>0, Fewer
<1>2. CASE Interactions!List
  <2>1. /\ pending' = Interactions!Current /\ outcome' = Interactions!Pruned
        /\ UNCHANGED <<holder, aborted, answer, disposed>>
      BY <1>2 DEF Interactions!List
  <2> QED
      BY <2>1, <1>0, Pruning, Fewer
<1>3. CASE Interactions!Dispose
  <2>1. /\ pending' = {} /\ outcome' = [q \in AgentRequests |-> IF q \in pending THEN "cancelled" ELSE outcome[q]]
        /\ UNCHANGED <<holder, aborted, answer>>
      BY <1>3 DEF Interactions!Dispose
  <2> QED
      BY <2>1, <1>0, Fewer
<1>4. ASSUME NEW q \in AgentRequests, Interactions!Abort(q) PROVE AskInv' /\ Kept
  <2>1. /\ pending' = pending \ {q} /\ aborted' = aborted \cup {q} /\ outcome[q] = "none"
        /\ outcome' = IF q \in pending THEN [outcome EXCEPT ![q] = "cancelled"] ELSE outcome
        /\ UNCHANGED <<holder, answer, disposed>>
      BY <1>4 DEF Interactions!Abort
  <2>2. DOMAIN outcome' = AgentRequests /\ \A p \in AgentRequests : p # q => outcome'[p] = outcome[p]
      BY <2>1, <1>0
  <2>3. outcome'[q] \in {"none", "cancelled"}
      BY <2>1, <1>0
  <2> QED
      BY <2>1, <2>2, <2>3, <1>0, Fewer
<1>5. ASSUME NEW q \in AgentRequests, Interactions!Ask(q) PROVE AskInv' /\ Kept
  <2>1. outcome[q] = "none" /\ q \notin pending /\ UNCHANGED <<aborted, answer, disposed>>
      BY <1>5 DEF Interactions!Ask
  <2>2. ASSUME UNCHANGED <<pending, holder>>,
               outcome' = [outcome EXCEPT ![q] = "native"] \/ outcome' = [outcome EXCEPT ![q] = "cancelled"]
        PROVE  AskInv' /\ Kept
    <3>1. DOMAIN outcome' = AgentRequests /\ \A p \in AgentRequests : p # q => outcome'[p] = outcome[p]
        BY <2>2, <1>0
    <3>2. outcome'[q] \in {"native", "cancelled"}
        BY <2>2, <1>0
    <3> QED
        BY <2>1, <2>2, <3>1, <3>2, <1>0, Fewer
  <2>3. CASE /\ pending' = Interactions!Current /\ UNCHANGED holder
             /\ outcome' = [Interactions!Pruned EXCEPT ![q] = "refused"]
    <3>1. DOMAIN outcome' = AgentRequests /\ outcome'[q] = "refused"
          /\ \A p \in AgentRequests : p # q => outcome'[p] = Interactions!Pruned[p]
        BY <2>3, Pruning
    <3> QED
        BY <2>1, <2>3, <3>1, <1>0, Pruning, Fewer
  <2>4. CASE /\ ~disposed /\ owner # None /\ q \notin aborted
             /\ Cardinality(Interactions!Current) < MaxPending
             /\ pending' = Interactions!Current \cup {q} /\ holder' = [holder EXCEPT ![q] = owner]
             /\ outcome' = Interactions!Pruned
    <3>1. q \notin Interactions!Current
        BY <2>1, Pruning
    <3>2. IsFiniteSet(pending') /\ Cardinality(pending') = Cardinality(Interactions!Current) + 1
        BY <2>4, <3>1, Pruning, FS_AddElement
    <3>3. Cardinality(pending') <= MaxPending
        BY <2>4, <3>2, Pruning, ServicesAssumption
    <3>4. outcome'[q] = "none" /\ answer[q] = None
        BY <2>1, <2>4, Pruning DEF AskInv
    <3>5. \A p \in AgentRequests : p # q => holder'[p] = holder[p]
        BY <2>4, <1>0
    <3>6. Interactions!AnsweredByOwner'
        BY <2>1, <3>4, <3>5 DEF AskInv, Interactions!AnsweredByOwner
    <3>7. \A p \in AgentRequests : outcome'[p] = "answered" => outcome[p] = "answered"
        BY <2>4, Pruning
    <3>8. Interactions!AnswerFits'
        BY <2>1, <3>7 DEF AskInv, Interactions!AnswerFits
    <3>9. \A p \in pending' : outcome'[p] = "none" /\ p \notin aborted'
        BY <2>1, <2>4, <3>4, <1>0, Pruning
    <3>10. DOMAIN holder' = AgentRequests /\ DOMAIN outcome' = AgentRequests /\ pending' \subseteq AgentRequests
        BY <2>4, <1>0, Pruning
    <3>11. \A p \in AgentRequests : answer'[p] # None => outcome'[p] # "none"
        BY <2>1, <2>4, Pruning DEF AskInv
    <3>12. Kept
        BY <2>4, Pruning
    <3>13. Interactions!PendingIsLive'
        BY <2>1, <2>4, <3>3, <3>9, Counting DEF Interactions!PendingIsLive
    <3>14. DOMAIN answer' = AgentRequests
        BY <2>1, <1>0
    <3>15. AskInv'
        BY <3>2, <3>6, <3>8, <3>10, <3>11, <3>13, <3>14 DEF AskInv
    <3> QED
        BY <3>12, <3>15
  <2>5. CASE owner = None \/ disposed \/ q \in aborted
      BY <1>5, <2>2, <2>5 DEF Interactions!Ask
  <2>6. CASE ~(owner = None \/ disposed \/ q \in aborted)
      BY <1>5, <2>3, <2>4, <2>6, Counting DEF Interactions!Ask
  <2> QED
      BY <2>5, <2>6
<1>6. ASSUME NEW p \in Principals, NEW r \in Interactions!Responses, Interactions!Settle(p, r)
      PROVE  AskInv' /\ Kept
  <2>1. UNCHANGED <<owner, holder, aborted, disposed>>
      BY <1>6 DEF Interactions!Settle
  <2>2. CASE pending' = Interactions!Current /\ outcome' = Interactions!Pruned /\ UNCHANGED answer
      BY <2>1, <2>2, <1>0, Pruning, Fewer
  <2>3. ASSUME NEW q \in Interactions!Current, Principal[holder[q]] = p, Interactions!validateResponse(q, r),
               pending' = Interactions!Current \ {q},
               outcome' = [Interactions!Pruned EXCEPT ![q] = IF r.kind = "cancel" THEN "cancelled" ELSE "answered"],
               answer' = [answer EXCEPT ![q] = [by |-> p, run |-> owner, response |-> r]]
        PROVE  AskInv' /\ Kept
    <3>1. q \in AgentRequests /\ q \in pending /\ outcome[q] = "none" /\ owner = holder[q]
        BY <2>3, <1>0, Pruning DEF Interactions!Current, Interactions!isCurrent
    <3>2. /\ answer'[q] = [by |-> p, run |-> owner, response |-> r] /\ DOMAIN answer' = AgentRequests
          /\ \A s \in AgentRequests : s # q => answer'[s] = answer[s]
        BY <2>3, <3>1, <1>0
    <3>3. answer'[q].by = p /\ answer'[q].run = owner /\ answer'[q].response = r
        BY <3>2
    <3>4. /\ outcome'[q] = IF r.kind = "cancel" THEN "cancelled" ELSE "answered"
          /\ DOMAIN outcome' = AgentRequests
          /\ \A s \in AgentRequests : s # q => outcome'[s] = Interactions!Pruned[s]
        BY <2>3, <3>1, Pruning
    <3>5. r.kind \in {"cancel", "approval", "question"}
        BY DEF Interactions!Responses
    <3>6. ASSUME outcome'[q] = "answered"
          PROVE  IF KindOfRequest[q] = "question" THEN {r.ids[i] : i \in DOMAIN r.ids} = Questions
                 ELSE r.kind = "approval" /\ r.explained /\ (r.allows => r.basis)
      <4>1. r.kind = "question" \/ r.kind = "approval"
          BY <3>4, <3>5, <3>6
      <4>2. CASE r.kind = "question"
          BY <4>2, <2>3, <3>1, EachIsAnswered DEF Interactions!validateResponse
      <4>3. CASE r.kind = "approval"
          BY <4>3, <2>3 DEF Interactions!validateResponse
      <4> QED
          BY <4>1, <4>2, <4>3
    <3>7. \A s \in AgentRequests : outcome[s] # "none" => outcome'[s] = outcome[s]
        BY <3>1, <3>4, Pruning
    <3>8. \A s \in pending' : outcome'[s] = "none" /\ s \notin aborted'
        BY <2>1, <2>3, <3>4, <1>0, Pruning
    <3>9. disposed' => pending' = {}
        BY <2>1, <2>3, <1>0, Pruning
    <3>10. \A s \in AgentRequests : s # q =>
             answer'[s] = answer[s] /\ (outcome'[s] = "answered" => outcome[s] = "answered")
        BY <3>2, <3>4, Pruning
    <3>11. /\ answer'[q].by = Principal[holder[q]] /\ answer'[q].run = holder[q]
           /\ outcome'[q] \in {"cancelled", "answered"}
        BY <2>3, <3>1, <3>3, <3>4
    <3>12. pending' \subseteq pending
        BY <2>3, Pruning
    <3>13. AskInv'
        BY <2>1, <3>2, <3>3, <3>4, <3>6, <3>7, <3>8, <3>9, <3>10, <3>11, <3>12, Fewer
    <3> QED
        BY <3>7, <3>13
  <2> QED
      BY <1>6, <2>2, <2>3 DEF Interactions!Settle
<1> QED
    BY <1>1, <1>2, <1>3, <1>4, <1>5, <1>6 DEF Interactions!InteractionNext

\* Of any number of requests, runs and clients, each request of an Agent is settled
\* once, by the principal of the run that still has its session and with an answer
\* that fits it, and whoever waits can be answered (UserInteractionFacade.respond).
THEOREM InteractionsHold == ServicesSpec => InteractionsAreOwned
<1>1. ServicesInit => AskInv
  <2> SUFFICES ASSUME ServicesInit PROVE AskInv
      OBVIOUS
  <2>1. /\ pending = {} /\ disposed = FALSE
        /\ holder = [q \in AgentRequests |-> None] /\ answer = [q \in AgentRequests |-> None]
        /\ outcome = [q \in AgentRequests |-> "none"]
      BY DEF ServicesInit, Interactions!InteractionInit
  <2>2. IsFiniteSet(pending) /\ Cardinality(pending) <= MaxPending
      BY <2>1, FS_EmptySet, ServicesAssumption
  <2> QED
      BY <2>1, <2>2, Counting DEF AskInv, Interactions!AnsweredByOwner, Interactions!PendingIsLive, Interactions!AnswerFits
<1>2. AskInv /\ [ServicesNext]_servicesVars =>
        /\ AskInv'
        /\ [\A q \in AgentRequests : outcome[q] # "none" => outcome'[q] = outcome[q]]_<<
              owner, pending, holder, outcome, aborted, answer, calling, disposed>>
    BY PartsApart, AskInductive
<1>3. AskInv => Interactions!AnsweredByOwner /\ Interactions!PendingIsLive /\ Interactions!AnswerFits
    BY DEF AskInv
<1> QED
    BY <1>1, <1>2, <1>3, PTL DEF ServicesSpec, InteractionsAreOwned, Interactions!SettledOnce,
       Interactions!interactionVars

-----------------------------------------------------------------------------
(* McpHttp                                                                 *)

Since(t)     == {r \in HttpRequests : granted[r] # None /\ t <= granted[r]}
Within(t, u) == {r \in HttpRequests : granted[r] # None /\ granted[r] \in t .. u}

\* What was granted and what is left in the bucket is what it held and what flowed in.
Balanced ==
  \A t \in Nat : t <= bucket.at =>
    bucket.tokens + Minute * Cardinality(Since(t)) <= PerMinute * Minute + (bucket.at - t) * PerMinute

HttpInv ==
  /\ clock \in Nat /\ DOMAIN phase = HttpRequests
  /\ granted \in [HttpRequests -> Nat \cup {None}]
  /\ bucket \in [tokens : Nat, at : Nat]
  /\ bucket.tokens <= PerMinute * Minute /\ bucket.at <= clock
  /\ IsFiniteSet(Since(0))
  /\ \A r \in HttpRequests : granted[r] # None => phase[r] # "new" /\ granted[r] <= bucket.at
  /\ Balanced
  /\ \A t \in Nat :
       Minute * Cardinality(Within(t, t + Minute - 1)) <= PerMinute * Minute + (Minute - 1) * PerMinute
  /\ IsFiniteSet(active) /\ Http!SlotsMatchHandlers
  /\ \A r \in HttpRequests : r \in destroyed => phase[r] # "new"
  /\ drain = "over" => active = {}

\* What flows in at a later time is at most a rate for the time that passed.
LEMMA Flows ==
  ASSUME NEW m \in Nat, NEW p \in Nat, NEW full \in Nat, NEW tokens \in Nat, NEW n \in Nat,
         NEW from \in Nat, NEW then \in Nat, NEW now \in Nat,
         from <= then, then <= now, tokens + m * n <= full + (then - from) * p
  PROVE  tokens + (now - then) * p + m * n <= full + (now - from) * p
<1>1. (now - from) * p = (then - from) * p + (now - then) * p
    OBVIOUS
<1> DEFINE a == (now - then) * p
           b == (then - from) * p
           d == m * n
<1>2. a \in Nat /\ b \in Nat /\ d \in Nat
    OBVIOUS
<1>3. (now - from) * p = b + a /\ tokens + d <= full + b
    BY <1>1
<1> HIDE DEF a, b, d
<1>4. tokens + a + d <= full + (b + a)
    BY <1>2, <1>3
<1> QED
    BY <1>3, <1>4 DEF a, d

\* As many as flow in within a minute, and a bucket, are at most two buckets.
LEMMA TwoBuckets ==
  ASSUME NEW m \in Nat \ {0}, NEW p \in Nat, NEW n \in Nat, m * n <= p * m + (m - 1) * p
  PROVE  n <= 2 * p
<1> SUFFICES ASSUME n >= 2 * p + 1 PROVE FALSE
    OBVIOUS
<1>1. (m - 1) * p = m * p - p
    OBVIOUS
<1>2. m * n >= m * (2 * p + 1)
    OBVIOUS
<1>3. m * (2 * p + 1) = 2 * (m * p) + m
    OBVIOUS
<1>4. p * m = m * p
    OBVIOUS
<1> QED
    BY <1>1, <1>2, <1>3, <1>4

LEMMA Finite ==
  ASSUME HttpInv, NEW t \in Nat
  PROVE  /\ IsFiniteSet(Since(t)) /\ Cardinality(Since(t)) \in Nat
         /\ \A u : IsFiniteSet(Within(t, u)) /\ Cardinality(Within(t, u)) \in Nat
         /\ t > bucket.at => Cardinality(Since(t)) = 0
<1>1. Since(t) \subseteq Since(0) /\ \A u : Within(t, u) \subseteq Since(0)
    BY DEF Since, Within, HttpInv
<1>2. t > bucket.at => Since(t) = {}
    BY DEF Since, HttpInv
<1> QED
    BY <1>1, <1>2, FS_Subset, FS_CardinalityType, FS_EmptySet DEF HttpInv

\* The bucket is filled up to the present, and one request is let through or none.
LEMMA Taken ==
  ASSUME HttpInv, NEW r \in HttpRequests, granted[r] = None, NEW n \in {0, 1},
         bucket' = [tokens |-> Http!Replenished - n * Minute, at |-> clock],
         n * Minute <= Http!Replenished,
         clock' = clock,
         granted' = IF n = 1 THEN [granted EXCEPT ![r] = clock] ELSE granted
  PROVE  /\ granted' \in [HttpRequests -> Nat \cup {None}] /\ bucket' \in [tokens : Nat, at : Nat]
         /\ bucket'.tokens <= PerMinute * Minute /\ bucket'.at <= clock'
         /\ IsFiniteSet(Since(0)')
         /\ Balanced'
         /\ \A t \in Nat :
              Minute * Cardinality(Within(t, t + Minute - 1)') <= PerMinute * Minute + (Minute - 1) * PerMinute
<1> DEFINE full == PerMinute * Minute
           made == (clock - bucket.at) * PerMinute
           left == bucket'.tokens
<1>1. /\ clock \in Nat /\ bucket.tokens \in Nat /\ bucket.at \in Nat /\ bucket.at <= clock
      /\ bucket.tokens <= full /\ PerMinute \in Nat /\ Minute \in Nat \ {0} /\ None \notin Nat
    BY ServicesAssumption DEF HttpInv
<1>2. full \in Nat /\ made \in Nat
    BY <1>1
<1>3. Http!Replenished = IF full < bucket.tokens + made THEN full ELSE bucket.tokens + made
    BY DEF Http!Replenished, Http!Least, Http!Full
<1>4. /\ left = Http!Replenished - n * Minute /\ bucket'.at = clock
      /\ Http!Replenished \in Nat /\ n * Minute \in Nat /\ left \in Nat
    BY <1>1, <1>2, <1>3
<1>5. left + n * Minute <= full /\ left + n * Minute <= bucket.tokens + made
  <2> HIDE DEF full, made, left
  <2> QED
      BY <1>1, <1>2, <1>3, <1>4
<1>6. granted' \in [HttpRequests -> Nat \cup {None}]
    BY <1>1 DEF HttpInv
<1>7. bucket' \in [tokens : Nat, at : Nat]
    BY <1>1, <1>4
<1>8. \A q \in HttpRequests : granted[q] # None => granted[q] <= bucket.at /\ granted[q] \in Nat
    BY DEF HttpInv
<1>9. ASSUME NEW t \in Nat, t <= clock
      PROVE  /\ IsFiniteSet(Since(t)') /\ Cardinality(Since(t)') = Cardinality(Since(t)) + n
             /\ Cardinality(Since(t)) \in Nat
  <2>1. r \notin Since(t) /\ IsFiniteSet(Since(t)) /\ Cardinality(Since(t)) \in Nat
      BY Finite DEF Since
  <2>2. CASE n = 0
    <3>1. Since(t)' = Since(t)
        BY <2>2 DEF Since
    <3> QED
        BY <2>1, <2>2, <3>1
  <2>3. CASE n = 1
    <3>1. granted'[r] = clock /\ \A q \in HttpRequests : q # r => granted'[q] = granted[q]
        BY <2>3 DEF HttpInv
    <3>2. Since(t)' = Since(t) \cup {r}
        BY <1>1, <1>9, <3>1 DEF Since
    <3> QED
        BY <2>1, <2>3, <3>2, FS_AddElement
  <2> QED
      BY <2>2, <2>3
<1>10. ASSUME NEW t \in Nat, t <= clock
       PROVE  left + Minute * Cardinality(Since(t)') <= full + (clock - t) * PerMinute
  <2> DEFINE k == Cardinality(Since(t))
  <2>1. k \in Nat /\ Cardinality(Since(t)') = k + n
      BY <1>9, <1>10
  <2>2. Minute * (k + n) = Minute * k + n * Minute /\ Minute * k \in Nat
    <3> HIDE DEF k
    <3> QED
        BY <1>1, <2>1
  <2>3. CASE t <= bucket.at
    <3>1. bucket.tokens + Minute * k <= full + (bucket.at - t) * PerMinute
        BY <2>3 DEF HttpInv, Balanced
    <3>2. bucket.tokens + made + Minute * k <= full + (clock - t) * PerMinute
      <4> HIDE DEF k
      <4> QED
          BY <1>1, <1>2, <2>1, <2>3, <3>1, Flows
    <3>3. (clock - t) * PerMinute \in Nat
        BY <1>1, <1>10
    <3> DEFINE flow == (clock - t) * PerMinute
               used == Minute * k
               one  == n * Minute
    <3> HIDE DEF k, full, made, left, flow, used, one
    <3>4. left + one <= bucket.tokens + made /\ bucket.tokens + made + used <= full + flow
        BY <1>5, <3>2 DEF flow, used, one
    <3>5. left + (used + one) <= full + flow
      <4>1. one \in Nat /\ used \in Nat /\ flow \in Nat
          BY <1>4, <2>2, <3>3 DEF one, used, flow
      <4>2. left \in Nat
          BY <1>4 DEF left
      <4> QED
          BY <1>1, <1>2, <3>4, <4>1, <4>2
    <3> QED
        BY <2>1, <2>2, <3>5 DEF flow, used, one
  <2>4. CASE t > bucket.at
    <3>1. k = 0
        BY <2>4, Finite
    <3>2. (clock - t) * PerMinute \in Nat
        BY <1>1, <1>10
    <3>3. Minute * Cardinality(Since(t)') = n * Minute
        BY <1>1, <2>1, <3>1
    <3> DEFINE flow == (clock - t) * PerMinute
               one  == n * Minute
    <3> HIDE DEF full, made, left, flow, one
    <3>4. left + one <= full /\ flow \in Nat
        BY <1>5, <3>2 DEF flow, one
    <3>5. left \in Nat /\ one \in Nat
        BY <1>4 DEF left, one
    <3>6. left + one <= full + flow
        BY <1>2, <3>4, <3>5
    <3> QED
        BY <3>3, <3>6 DEF flow, one
  <2> QED
      BY <1>1, <1>10, <2>3, <2>4
<1>11. Balanced'
    BY <1>4, <1>10 DEF Balanced
<1>12. ASSUME NEW t \in Nat
       PROVE  Minute * Cardinality(Within(t, t + Minute - 1)') <= full + (Minute - 1) * PerMinute
  <2> DEFINE u == t + Minute - 1
  <2>1. u \in Nat
      BY <1>1
  <2>2. CASE Within(t, u)' = Within(t, u)
      BY <2>2 DEF HttpInv
  <2>3. CASE Within(t, u)' # Within(t, u)
    <3>1. n = 1 /\ t <= clock /\ clock <= u
      <4>1. n = 1
          BY <2>3 DEF Within
      <4>2. \A q \in HttpRequests : q # r => granted'[q] = granted[q]
          BY <4>1 DEF HttpInv
      <4>3. granted'[r] = clock
          BY <4>1 DEF HttpInv
      <4>4. clock \in t .. u
          BY <2>3, <4>2, <4>3 DEF Within
      <4> QED
          BY <1>1, <2>1, <4>1, <4>4
    <3>2. \A q \in HttpRequests : granted'[q] # None => granted'[q] <= clock /\ granted'[q] \in Nat
        BY <1>1, <1>8 DEF HttpInv
    <3>3. Within(t, u)' = Since(t)'
        BY <1>1, <2>1, <3>1, <3>2 DEF Within, Since
    <3>4. left + Minute * Cardinality(Since(t)') <= full + (clock - t) * PerMinute
        BY <1>10, <3>1
    <3>5. (clock - t) * PerMinute <= (Minute - 1) * PerMinute
      <4>1. clock - t \in Nat /\ Minute - 1 \in Nat /\ clock - t <= Minute - 1
          BY <1>1, <3>1
      <4> QED
          BY <1>1, <4>1
    <3>6. Cardinality(Since(t)') \in Nat
        BY <1>9, <3>1
    <3> DEFINE used == Minute * Cardinality(Since(t)')
               flow == (clock - t) * PerMinute
               most == (Minute - 1) * PerMinute
    <3>7. used \in Nat /\ flow \in Nat /\ most \in Nat
        BY <1>1, <3>1, <3>6
    <3> HIDE DEF used, flow, most, full, left
    <3>8. left + used <= full + flow /\ flow <= most /\ left \in Nat /\ full \in Nat
        BY <1>2, <1>4, <3>4, <3>5 DEF used, flow, most
    <3>9. used <= full + most
        BY <3>7, <3>8
    <3> QED
        BY <3>3, <3>9 DEF used, most
  <2> QED
      BY <2>2, <2>3
<1>13. left <= full
  <2> HIDE DEF left, full
  <2>1. left \in Nat
      BY <1>4 DEF left
  <2> QED
      BY <1>2, <1>4, <1>5, <2>1
<1>14. IsFiniteSet(Since(0)')
    BY <1>1, <1>9
<1> QED
    BY <1>4, <1>6, <1>7, <1>11, <1>12, <1>13, <1>14

\* The limiter does not move.
LEMMA RateKept ==
  ASSUME HttpInv, UNCHANGED <<bucket, granted>>, clock' \in Nat, clock' >= clock,
         \A r \in HttpRequests : phase[r] # "new" => phase'[r] # "new"
  PROVE  /\ granted' \in [HttpRequests -> Nat \cup {None}] /\ bucket' \in [tokens : Nat, at : Nat]
         /\ bucket'.tokens <= PerMinute * Minute /\ bucket'.at <= clock'
         /\ IsFiniteSet(Since(0)')
         /\ \A r \in HttpRequests : granted'[r] # None => phase'[r] # "new" /\ granted'[r] <= bucket'.at
         /\ Balanced'
         /\ \A t \in Nat :
              Minute * Cardinality(Within(t, t + Minute - 1)') <= PerMinute * Minute + (Minute - 1) * PerMinute
<1>1. \A t : Since(t)' = Since(t) /\ \A u : Within(t, u)' = Within(t, u)
    BY DEF Since, Within
<1>2. Balanced'
    BY <1>1 DEF HttpInv, Balanced
<1>3. \A t \in Nat :
        Minute * Cardinality(Within(t, t + Minute - 1)') <= PerMinute * Minute + (Minute - 1) * PerMinute
    BY <1>1 DEF HttpInv
<1>4. bucket.at <= clock'
  <2>1. bucket.at \in Nat /\ clock \in Nat /\ bucket.at <= clock
      BY DEF HttpInv
  <2> QED
      BY <2>1
<1> QED
    BY <1>1, <1>2, <1>3, <1>4 DEF HttpInv

\* A handler that was at work may end, and gives its slot back.
LEMMA SlotsKept ==
  ASSUME HttpInv, DOMAIN phase' = HttpRequests, UNCHANGED <<destroyed, drain>>,
         \A r \in HttpRequests : phase'[r] = phase[r] \/ (phase[r] # "new" /\ phase'[r] # "new")
                                   \/ (phase[r] = "new" /\ phase'[r] \notin Http!Handling),
         \A r \in HttpRequests : phase'[r] \in Http!Handling => phase[r] \in Http!Handling,
         active' = {r \in active : phase'[r] \in Http!Handling}
  PROVE  /\ IsFiniteSet(active') /\ Http!SlotsMatchHandlers'
         /\ \A r \in HttpRequests : r \in destroyed' => phase'[r] # "new"
         /\ drain' = "over" => active' = {}
<1>1. active' \subseteq active
    OBVIOUS
<1>2. IsFiniteSet(active') /\ Cardinality(active') <= Cardinality(active)
    BY <1>1, FS_Subset DEF HttpInv
<1>3. Cardinality(active') \in Nat /\ Cardinality(active) \in Nat
    BY <1>2, FS_CardinalityType DEF HttpInv
<1>4. Cardinality(active) <= MaxConcurrent /\ active = {r \in HttpRequests : phase[r] \in Http!Handling} \ destroyed
    BY Counting DEF HttpInv, Http!SlotsMatchHandlers
<1>5. Cardinality(active') <= MaxConcurrent
    BY <1>2, <1>3, <1>4, ServicesAssumption
<1>6. active' = {r \in HttpRequests : phase'[r] \in Http!Handling} \ destroyed'
    BY <1>4
<1>7. Http!SlotsMatchHandlers'
    BY <1>5, <1>6, Counting DEF Http!SlotsMatchHandlers
<1>8. \A r \in HttpRequests : r \in destroyed' => phase'[r] # "new"
    BY DEF HttpInv
<1>9. drain' = "over" => active' = {}
    BY <1>1 DEF HttpInv
<1> QED
    BY <1>2, <1>7, <1>8, <1>9

LEMMA HttpInductive ==
  ASSUME HttpInv, [Http!HttpNext]_httpVars
  PROVE  HttpInv'
<1>0. clock \in Nat /\ DOMAIN phase = HttpRequests
    BY DEF HttpInv
<1>1. CASE Http!Tick \/ Http!Drain \/ UNCHANGED httpVars
  <2>1. UNCHANGED <<phase, active, destroyed, bucket, granted>> /\ clock' \in Nat /\ clock' >= clock
      BY <1>0, <1>1 DEF Http!Tick, Http!Drain, httpVars
  <2>2. drain' = "over" => drain = "over"
      BY <1>1 DEF Http!Tick, Http!Drain, httpVars
  <2>3. IsFiniteSet(active') /\ Http!SlotsMatchHandlers'
      BY <2>1 DEF HttpInv, Http!SlotsMatchHandlers
  <2>4. DOMAIN phase' = HttpRequests /\ \A r \in HttpRequests : r \in destroyed' => phase'[r] # "new"
      BY <2>1 DEF HttpInv
  <2>5. drain' = "over" => active' = {}
      BY <2>1, <2>2 DEF HttpInv
  <2>6. \A r \in HttpRequests : phase[r] # "new" => phase'[r] # "new"
      BY <2>1
  <2> QED
      BY <2>1, <2>3, <2>4, <2>5, <2>6, RateKept DEF HttpInv
<1>2. CASE Http!Drained
  <2>1. /\ UNCHANGED <<clock, phase, bucket, granted>> /\ active' = {} /\ destroyed' = destroyed \cup active
        /\ clock' \in Nat /\ clock' >= clock
      BY <1>0, <1>2 DEF Http!Drained
  <2>2. active = {r \in HttpRequests : phase[r] \in Http!Handling} \ destroyed
      BY DEF HttpInv, Http!SlotsMatchHandlers
  <2>3. IsFiniteSet(active') /\ Cardinality(active') <= MaxConcurrent
      BY <2>1, FS_EmptySet, ServicesAssumption
  <2>4. active' = {r \in HttpRequests : phase'[r] \in Http!Handling} \ destroyed'
      BY <2>1, <2>2
  <2>5. Http!SlotsMatchHandlers'
      BY <2>3, <2>4, Counting DEF Http!SlotsMatchHandlers
  <2>6. \A r \in HttpRequests : r \in destroyed' => phase'[r] # "new"
      BY <2>1, <2>2 DEF HttpInv, Http!Handling
  <2>7. DOMAIN phase' = HttpRequests /\ \A r \in HttpRequests : phase[r] # "new" => phase'[r] # "new"
      BY <2>1, <1>0
  <2> QED
      BY <2>1, <2>3, <2>5, <2>6, <2>7, RateKept DEF HttpInv
<1>3. ASSUME NEW r \in HttpRequests, Http!Body(r) \/ Http!Serve(r) PROVE HttpInv'
  <2>1. UNCHANGED <<clock, destroyed, bucket, granted, drain>>
      BY <1>3 DEF Http!Body, Http!Serve
  <2>2. /\ phase[r] \in Http!Handling /\ DOMAIN phase' = HttpRequests
        /\ \A q \in HttpRequests : q # r => phase'[q] = phase[q]
        /\ phase'[r] \in {"serving", "answered", "failed"}
        /\ active' = IF phase'[r] = "serving" THEN active ELSE active \ {r}
      BY <1>0, <1>3 DEF Http!Body, Http!Serve, Http!Handling
  <2>3. active = {q \in HttpRequests : phase[q] \in Http!Handling} \ destroyed
      BY DEF HttpInv, Http!SlotsMatchHandlers
  <2>4. \A q \in HttpRequests : phase'[q] \in Http!Handling => phase[q] \in Http!Handling
      BY <2>2
  <2>5. phase'[r] \in Http!Handling <=> phase'[r] = "serving"
      BY <2>2 DEF Http!Handling
  <2>6. active' = {q \in active : phase'[q] \in Http!Handling}
      BY <2>2, <2>3, <2>5
  <2>7. phase[r] # "new" /\ phase'[r] # "new"
      BY <2>2 DEF Http!Handling
  <2>8. \A q \in HttpRequests : phase[q] # "new" => phase'[q] # "new"
      BY <2>2, <2>7
  <2>9. \A q \in HttpRequests : phase'[q] = phase[q] \/ (phase[q] # "new" /\ phase'[q] # "new")
                                   \/ (phase[q] = "new" /\ phase'[q] \notin Http!Handling)
      BY <2>2, <2>7
  <2>10. /\ IsFiniteSet(active') /\ Http!SlotsMatchHandlers'
         /\ \A q \in HttpRequests : q \in destroyed' => phase'[q] # "new"
         /\ drain' = "over" => active' = {}
      BY <2>1, <2>2, <2>4, <2>6, <2>9, SlotsKept
  <2>11. clock' \in Nat /\ clock' >= clock
      BY <2>1, <1>0
  <2> QED
      BY <2>1, <2>2, <2>8, <2>10, <2>11, RateKept DEF HttpInv
<1>4. ASSUME NEW r \in HttpRequests, Http!Handle(r) PROVE HttpInv'
  <2>1. /\ UNCHANGED <<clock, destroyed, drain>> /\ phase[r] = "new" /\ granted[r] = None
        /\ clock' \in Nat /\ clock' >= clock
      BY <1>0, <1>4 DEF Http!Handle, HttpInv
  <2>2. active = {q \in HttpRequests : phase[q] \in Http!Handling} \ destroyed
        /\ Cardinality(active) <= MaxConcurrent /\ Cardinality(active) \in Nat
      BY Counting, FS_CardinalityType DEF HttpInv, Http!SlotsMatchHandlers
  <2>3. ASSUME phase' = [phase EXCEPT ![r] = "refused"], UNCHANGED <<active, granted>>
        PROVE  /\ DOMAIN phase' = HttpRequests /\ IsFiniteSet(active') /\ Http!SlotsMatchHandlers'
               /\ \A q \in HttpRequests : q \in destroyed' => phase'[q] # "new"
               /\ drain' = "over" => active' = {}
               /\ \A q \in HttpRequests : phase[q] # "new" => phase'[q] # "new"
    <3>1. /\ DOMAIN phase' = HttpRequests /\ phase'[r] = "refused"
          /\ \A q \in HttpRequests : q # r => phase'[q] = phase[q]
        BY <2>3, <1>0
    <3>2. "refused" \notin Http!Handling /\ "new" \notin Http!Handling
        BY DEF Http!Handling
    <3>3. \A q \in HttpRequests : phase'[q] \in Http!Handling => phase[q] \in Http!Handling
        BY <3>1, <3>2
    <3>4. active' = {q \in active : phase'[q] \in Http!Handling}
        BY <2>1, <2>2, <2>3, <3>1, <3>2
    <3>5. \A q \in HttpRequests : phase'[q] = phase[q] \/ (phase[q] # "new" /\ phase'[q] # "new")
                                     \/ (phase[q] = "new" /\ phase'[q] \notin Http!Handling)
        BY <2>1, <3>1, <3>2
    <3>6. \A q \in HttpRequests : phase[q] # "new" => phase'[q] # "new"
        BY <3>1
    <3> QED
        BY <2>1, <3>1, <3>3, <3>4, <3>5, <3>6, SlotsKept
  <2>4. CASE drain # "no" \/ ~Http!authorize(r) \/ Cardinality(active) >= MaxConcurrent
    <3>1. phase' = [phase EXCEPT ![r] = "refused"] /\ UNCHANGED <<active, bucket, granted>>
        BY <1>4, <2>4, Counting DEF Http!Handle
    <3> QED
        BY <2>1, <2>3, <3>1, RateKept DEF HttpInv
  <2>5. ASSUME ~(drain # "no" \/ ~Http!authorize(r) \/ Cardinality(active) >= MaxConcurrent),
               Http!Replenished < Minute
        PROVE  HttpInv'
    <3>1. /\ phase' = [phase EXCEPT ![r] = "refused"] /\ UNCHANGED <<active, granted>>
          /\ bucket' = [tokens |-> Http!Replenished, at |-> clock]
        BY <1>4, <2>5, Counting DEF Http!Handle
    <3>2. Http!Replenished \in Nat
      <4>1. /\ bucket.tokens \in Nat /\ bucket.at \in Nat /\ clock \in Nat /\ bucket.at <= clock
            /\ PerMinute \in Nat /\ Minute \in Nat
          BY ServicesAssumption DEF HttpInv
      <4>2. (clock - bucket.at) * PerMinute \in Nat /\ PerMinute * Minute \in Nat
          BY <4>1
      <4> QED
          BY <4>1, <4>2 DEF Http!Replenished, Http!Least, Http!Full
    <3>3. /\ 0 * Minute = 0 /\ 0 * Minute <= Http!Replenished
          /\ bucket' = [tokens |-> Http!Replenished - 0 * Minute, at |-> clock]
        BY <3>1, <3>2, ServicesAssumption
    <3>4. /\ granted' \in [HttpRequests -> Nat \cup {None}] /\ bucket' \in [tokens : Nat, at : Nat]
          /\ bucket'.tokens <= PerMinute * Minute /\ bucket'.at <= clock'
          /\ IsFiniteSet(Since(0)')
          /\ Balanced'
          /\ \A t \in Nat :
               Minute * Cardinality(Within(t, t + Minute - 1)') <= PerMinute * Minute + (Minute - 1) * PerMinute
      <4>1. granted' = IF 0 = 1 THEN [granted EXCEPT ![r] = clock] ELSE granted
          BY <3>1
      <4> QED
          BY <2>1, <3>3, <4>1, Taken
    <3>5. \A q \in HttpRequests : granted'[q] # None => phase'[q] # "new" /\ granted'[q] <= bucket'.at
      <4>1. \A q \in HttpRequests : granted[q] # None => phase[q] # "new" /\ granted[q] <= bucket.at
          BY DEF HttpInv
      <4>2. bucket'.at = clock /\ bucket.at <= clock /\ bucket.at \in Nat
            /\ \A q \in HttpRequests : granted[q] # None => granted[q] \in Nat
          BY <3>1 DEF HttpInv
      <4> QED
          BY <1>0, <2>3, <3>1, <4>1, <4>2
    <3> QED
        BY <2>1, <2>3, <3>1, <3>4, <3>5 DEF HttpInv
  <2>6. ASSUME ~(drain # "no" \/ ~Http!authorize(r) \/ Cardinality(active) >= MaxConcurrent),
               ~(Http!Replenished < Minute)
        PROVE  HttpInv'
    <3>1. /\ phase' = [phase EXCEPT ![r] = "body"] /\ active' = active \cup {r}
          /\ granted' = [granted EXCEPT ![r] = clock]
          /\ bucket' = [tokens |-> Http!Replenished - Minute, at |-> clock]
        BY <1>4, <2>6, Counting DEF Http!Handle
    <3>2. Http!Replenished \in Int
      <4>1. /\ bucket.tokens \in Nat /\ bucket.at \in Nat /\ clock \in Nat /\ bucket.at <= clock
            /\ PerMinute \in Nat /\ Minute \in Nat
          BY ServicesAssumption DEF HttpInv
      <4>2. (clock - bucket.at) * PerMinute \in Nat /\ PerMinute * Minute \in Nat
          BY <4>1
      <4> QED
          BY <4>1, <4>2 DEF Http!Replenished, Http!Least, Http!Full
    <3>3. /\ 1 * Minute <= Http!Replenished
          /\ bucket' = [tokens |-> Http!Replenished - 1 * Minute, at |-> clock]
        BY <2>6, <3>1, <3>2, ServicesAssumption
    <3>4. /\ granted' \in [HttpRequests -> Nat \cup {None}] /\ bucket' \in [tokens : Nat, at : Nat]
          /\ bucket'.tokens <= PerMinute * Minute /\ bucket'.at <= clock'
          /\ IsFiniteSet(Since(0)')
          /\ Balanced'
          /\ \A t \in Nat :
               Minute * Cardinality(Within(t, t + Minute - 1)') <= PerMinute * Minute + (Minute - 1) * PerMinute
      <4>1. granted' = IF 1 = 1 THEN [granted EXCEPT ![r] = clock] ELSE granted
          BY <3>1
      <4> QED
          BY <2>1, <3>3, <4>1, Taken
    <3>5. /\ DOMAIN phase' = HttpRequests /\ phase'[r] = "body"
          /\ \A q \in HttpRequests : q # r => phase'[q] = phase[q]
        BY <3>1, <1>0
    <3>6. /\ granted'[r] = clock /\ bucket'.at = clock
          /\ \A q \in HttpRequests : q # r => granted'[q] = granted[q]
        BY <3>1 DEF HttpInv
    <3>7. \A q \in HttpRequests : granted'[q] # None => phase'[q] # "new" /\ granted'[q] <= bucket'.at
      <4>1. \A q \in HttpRequests : granted[q] # None => phase[q] # "new" /\ granted[q] <= bucket.at
          BY DEF HttpInv
      <4>2. bucket.at <= clock /\ bucket.at \in Nat
            /\ \A q \in HttpRequests : granted[q] # None => granted[q] \in Nat
          BY DEF HttpInv
      <4> QED
          BY <1>0, <3>5, <3>6, <4>1, <4>2
    <3>8. r \notin destroyed
        BY <2>1 DEF HttpInv
    <3>9. active' = {q \in HttpRequests : phase'[q] \in Http!Handling} \ destroyed'
        BY <2>1, <2>2, <3>1, <3>5, <3>8 DEF Http!Handling
    <3>10. IsFiniteSet(active') /\ Cardinality(active') <= Cardinality(active) + 1
           /\ Cardinality(active') \in Nat
      <4>1. IsFiniteSet(active)
          BY DEF HttpInv
      <4>2. IsFiniteSet(active') /\ Cardinality(active') \in {Cardinality(active), Cardinality(active) + 1}
          BY <3>1, <4>1, FS_AddElement
      <4> QED
          BY <2>2, <4>2
    <3>11. Cardinality(active') <= MaxConcurrent
        BY <2>2, <2>6, <3>10, ServicesAssumption
    <3>12. Http!SlotsMatchHandlers'
        BY <3>9, <3>11, Counting DEF Http!SlotsMatchHandlers
    <3>13. \A q \in HttpRequests : q \in destroyed' => phase'[q] # "new"
        BY <2>1, <3>5, <3>8 DEF HttpInv
    <3>14. drain' # "over"
        BY <2>1, <2>6
    <3> QED
        BY <2>1, <3>4, <3>5, <3>7, <3>10, <3>12, <3>13, <3>14 DEF HttpInv
  <2> QED
      BY <2>4, <2>5, <2>6
<1> QED
    BY <1>1, <1>2, <1>3, <1>4 DEF Http!HttpNext

\* For any number of requests and slots and any rate, a slot is held exactly by the
\* handlers whose response stands, a drain leaves none, and no minute sees more than
\* two buckets of requests (McpHttpFacade.handle, RateLimiter.take).
THEOREM RequestsStayBounded == ServicesSpec => []RequestsAreBounded
<1>1. ServicesInit => HttpInv
  <2> SUFFICES ASSUME ServicesInit PROVE HttpInv
      OBVIOUS
  <2>1. /\ clock = 0 /\ phase = [r \in HttpRequests |-> "new"] /\ active = {} /\ destroyed = {}
        /\ bucket = [tokens |-> PerMinute * Minute, at |-> 0]
        /\ granted = [r \in HttpRequests |-> None] /\ drain = "no"
      BY DEF ServicesInit, Http!HttpInit, Http!Full
  <2>2. PerMinute * Minute \in Nat /\ (Minute - 1) * PerMinute \in Nat
        /\ PerMinute \in Nat /\ Minute \in Nat \ {0} /\ MaxConcurrent \in Nat
      BY ServicesAssumption
  <2>3. \A t, u : Since(t) = {} /\ Within(t, u) = {}
      BY <2>1 DEF Since, Within
  <2>4. \A t, u : Cardinality(Since(t)) = 0 /\ Cardinality(Within(t, u)) = 0
                  /\ IsFiniteSet(Since(t))
      BY <2>3, FS_EmptySet
  <2>5. Balanced
    <3>1. bucket.tokens = PerMinute * Minute /\ bucket.at = 0
        BY <2>1
    <3> SUFFICES ASSUME NEW t \in Nat, t <= 0
                 PROVE  PerMinute * Minute + Minute * 0 <= PerMinute * Minute + (0 - t) * PerMinute
        BY <2>4, <3>1 DEF Balanced
    <3>2. t = 0
        OBVIOUS
    <3> QED
        BY <2>2, <3>2
  <2>6. \A t \in Nat :
          Minute * Cardinality(Within(t, t + Minute - 1)) <= PerMinute * Minute + (Minute - 1) * PerMinute
      BY <2>2, <2>4
  <2>7. IsFiniteSet(active) /\ Http!SlotsMatchHandlers
      BY <2>1, <2>2, FS_EmptySet, Counting DEF Http!SlotsMatchHandlers, Http!Handling
  <2>8. bucket \in [tokens : Nat, at : Nat] /\ bucket.tokens <= PerMinute * Minute /\ bucket.at <= clock
      BY <2>1, <2>2
  <2> QED
      BY <2>1, <2>4, <2>5, <2>6, <2>7, <2>8 DEF HttpInv
<1>2. HttpInv /\ [ServicesNext]_servicesVars => HttpInv'
    BY PartsApart, HttpInductive
<1>3. HttpInv => RequestsAreBounded
  <2> SUFFICES ASSUME HttpInv PROVE RequestsAreBounded
      OBVIOUS
  <2>1. Http!SlotsMatchHandlers /\ Http!DrainIsComplete
      BY DEF HttpInv, Http!SlotsMatchHandlers, Http!DrainIsComplete
  <2>2. ASSUME NEW t \in 0 .. clock PROVE Cardinality(Within(t, t + Minute - 1)) <= 2 * PerMinute
    <3>1. t \in Nat
        BY DEF HttpInv
    <3>2. Cardinality(Within(t, t + Minute - 1)) \in Nat
        BY <3>1, Finite
    <3>3. Minute * Cardinality(Within(t, t + Minute - 1)) <= PerMinute * Minute + (Minute - 1) * PerMinute
        BY <3>1 DEF HttpInv
    <3> QED
        BY <3>2, <3>3, TwoBuckets, ServicesAssumption
  <2>3. Http!RateIsBounded
      BY <2>2, Counting DEF Http!RateIsBounded, Within
  <2> QED
      BY <2>1, <2>3 DEF RequestsAreBounded
<1> QED
    BY <1>1, <1>2, <1>3, PTL DEF ServicesSpec

-----------------------------------------------------------------------------
(* NotificationBuffer                                                      *)

\* A set of numbers has a least one: what does not hold of all has a first exception.
LEMMA LeastOf ==
  ASSUME NEW S \in SUBSET Nat, S # {}
  PROVE  \E m \in S : \A y \in S : m <= y
<1> DEFINE R == OpToRel(<, Nat)
<1>1. IsWellFoundedOn(R, Nat)
    BY NatLessThanWellFounded
<1>2. \A x, y \in Nat : y < x => <<y, x>> \in R
    BY DEF OpToRel
<1> HIDE DEF R
<1>3. PICK m \in S : \A y \in S : <<y, m>> \notin R
    BY <1>1, WFMin
<1>4. \A y \in S : y \in Nat /\ ~(y < m)
    BY <1>2, <1>3
<1> QED
    BY <1>4

\* f repeats the step G along the sequence s, from z.
Fold(f, S, G, z, s) ==
  /\ f \in [0 .. Len(s) -> S] /\ f[0] = z
  /\ \A i \in 1 .. Len(s) : f[i] = G[<<f[i - 1], s[i]>>]

\* However long the sequence, there is such a function.
LEMMA FoldsExist ==
  ASSUME NEW S, NEW A, NEW G \in [S \X A -> S], NEW z \in S, NEW s \in Seq(A)
  PROVE  \E f : Fold(f, S, G, z, s)
<1> DEFINE Upto(n, f) == /\ f \in [0 .. n -> S] /\ f[0] = z
                         /\ \A i \in 1 .. n : f[i] = G[<<f[i - 1], s[i]>>]
           Bad == {n \in 0 .. Len(s) : ~\E f : Upto(n, f)}
<1>0. Len(s) \in Nat /\ \A i \in 1 .. Len(s) : s[i] \in A
    OBVIOUS
<1>1. SUFFICES Bad = {}
    BY <1>0 DEF Fold
<1>2. SUFFICES ASSUME Bad # {} PROVE FALSE
    OBVIOUS
<1>3. PICK n \in Bad : \A y \in Bad : n <= y
  <2>1. Bad \in SUBSET Nat
      BY <1>0
  <2> HIDE DEF Bad
  <2> QED
      BY <1>2, <2>1, LeastOf
<1>4. n \in 0 .. Len(s) /\ ~\E f : Upto(n, f)
    OBVIOUS
<1>5. CASE n = 0
  <2>1. Upto(0, [i \in 0 .. 0 |-> z])
      OBVIOUS
  <2> QED
      BY <1>4, <1>5, <2>1
<1>6. CASE n > 0
  <2>0. n - 1 \in 0 .. Len(s) /\ ~(n <= n - 1)
      BY <1>0, <1>4, <1>6
  <2>1. n - 1 \in 0 .. Len(s) /\ n - 1 \notin Bad
    <3> HIDE DEF Bad
    <3> QED
        BY <1>3, <2>0
  <2>2. PICK g : Upto(n - 1, g)
      BY <2>1
  <2>3. n \in Nat /\ n \in 1 .. Len(s) /\ s[n] \in A
      BY <1>0, <1>4, <1>6
  <2>4. /\ g \in [0 .. n - 1 -> S] /\ g[0] = z
        /\ \A i \in 1 .. n - 1 : g[i] = G[<<g[i - 1], s[i]>>]
      BY <2>2
  <2> DEFINE next == G[<<g[n - 1], s[n]>>]
             f    == [i \in 0 .. n |-> IF i = n THEN next ELSE g[i]]
  <2>5. next \in S
      BY <1>6, <2>3, <2>4
  <2> HIDE DEF next
  <2>6. f \in [0 .. n -> S] /\ f[0] = z /\ f[n] = next
      BY <1>6, <2>3, <2>4, <2>5
  <2>7. \A i \in 0 .. n - 1 : f[i] = g[i]
      BY <2>3
  <2> HIDE DEF f
  <2>8. ASSUME NEW i \in 1 .. n PROVE f[i] = G[<<f[i - 1], s[i]>>]
    <3>1. CASE i = n
      <4>1. f[n - 1] = g[n - 1]
          BY <1>6, <2>3, <2>7
      <4> QED
          BY <2>6, <3>1, <4>1 DEF next
    <3>2. CASE i # n
      <4>1. i \in 1 .. n - 1 /\ i - 1 \in 0 .. n - 1 /\ i \in 0 .. n - 1
          BY <2>3, <3>2
      <4> QED
          BY <2>4, <2>7, <4>1
    <3> QED
        BY <3>1, <3>2
  <2>9. Upto(n, f)
      BY <2>6, <2>8
  <2> QED
      BY <1>4, <2>9
<1> QED
    BY <1>0, <1>4, <1>5, <1>6

Entries == [cursor : Nat, bytes : Nat]

\* The sums of the sizes of the first notifications of s.
SumsOf(s, f) ==
  /\ f \in [0 .. Len(s) -> Int] /\ f[0] = 0
  /\ \A i \in 1 .. Len(s) : f[i] = f[i - 1] + s[i].bytes

LEMMA SumsExist ==
  ASSUME NEW s \in Seq(Entries)
  PROVE  \E f : SumsOf(s, f)
<1> DEFINE I == Int
           G == [p \in I \X Entries |-> p[1] + p[2].bytes]
           zero == 0
<1>1. G \in [I \X Entries -> I] /\ \A n \in Int, e \in Entries : G[<<n, e>>] = n + e.bytes
    BY DEF Entries
<1>2. zero \in I
    OBVIOUS
<1> HIDE DEF G, I, zero
<1>3. PICK f : Fold(f, I, G, zero, s)
    BY <1>1, <1>2, FoldsExist
<1>4. /\ f \in [0 .. Len(s) -> Int] /\ f[0] = 0
      /\ \A i \in 1 .. Len(s) : f[i] = G[<<f[i - 1], s[i]>>]
    BY <1>3 DEF I, zero, Fold
<1>5. ASSUME NEW i \in 1 .. Len(s) PROVE f[i] = f[i - 1] + s[i].bytes
  <2>1. s[i] \in Entries /\ i - 1 \in 0 .. Len(s) /\ f[i - 1] \in Int
      BY <1>4
  <2> QED
      BY <1>1, <1>4, <2>1
<1> QED
    BY <1>4, <1>5 DEF SumsOf

\* Bytes adds up, notification by notification.
LEMMA BytesAre ==
  ASSUME NEW s \in Seq(Entries), NEW g, SumsOf(s, g)
  PROVE  Bytes(s) = g[Len(s)] /\ Bytes(s) \in Int
<1> DEFINE F(f) == [i \in 0 .. Len(s) |-> IF i = 0 THEN 0 ELSE f[i - 1] + s[i].bytes]
           sum  == CHOOSE f : f = F(f)
<1>0. Len(s) \in Nat
    OBVIOUS
<1>1. g = F(g)
  <2>1. /\ g \in [0 .. Len(s) -> Int] /\ g[0] = 0
        /\ \A i \in 1 .. Len(s) : g[i] = g[i - 1] + s[i].bytes
      BY DEF SumsOf
  <2>2. \A i \in 0 .. Len(s) : g[i] = IF i = 0 THEN 0 ELSE g[i - 1] + s[i].bytes
      BY <1>0, <2>1
  <2> QED
      BY <2>1, <2>2
<1>2. sum = F(sum)
    BY <1>1
<1>3. Bytes(s) = sum[Len(s)]
    BY DEF Bytes
<1> HIDE DEF sum
<1>4. \A i \in 0 .. Len(s) : sum[i] = IF i = 0 THEN 0 ELSE sum[i - 1] + s[i].bytes
    BY <1>2
<1> HIDE DEF F
<1> DEFINE Bad == {i \in 0 .. Len(s) : sum[i] # g[i]}
<1>5. Bad = {}
  <2> SUFFICES ASSUME Bad # {} PROVE FALSE
      OBVIOUS
  <2>1. Bad \in SUBSET Nat
      BY <1>0
  <2>2. PICK m \in Bad : \A y \in Bad : m <= y
    <3> HIDE DEF Bad
    <3> QED
        BY <2>1, LeastOf
  <2>3. m \in 0 .. Len(s) /\ sum[m] # g[m]
      OBVIOUS
  <2>4. m # 0
      BY <1>0, <1>4, <2>3 DEF SumsOf
  <2>5. m \in 1 .. Len(s) /\ m - 1 \in 0 .. Len(s) /\ m - 1 \notin Bad
      BY <1>0, <2>1, <2>2, <2>3, <2>4
  <2>6. sum[m - 1] = g[m - 1]
      BY <2>5
  <2>7. sum[m] = sum[m - 1] + s[m].bytes
      BY <1>4, <2>3, <2>4
  <2> QED
      BY <2>3, <2>5, <2>6, <2>7 DEF SumsOf
<1>6. Len(s) \in 0 .. Len(s)
    BY <1>0
<1> QED
    BY <1>3, <1>5, <1>6 DEF SumsOf

\* What is cut off the queue in front, and what is left, make up its bytes.
LEMMA BytesSplit ==
  ASSUME NEW q \in Seq(Entries), NEW k \in 0 .. Len(q)
  PROVE  /\ Bytes(SubSeq(q, k + 1, Len(q))) = Bytes(q) - Bytes(SubSeq(q, 1, k))
         /\ Bytes(q) \in Int /\ Bytes(SubSeq(q, 1, k)) \in Int
<1>0. Len(q) \in Nat /\ k \in Nat /\ k <= Len(q)
    OBVIOUS
<1>1. PICK f : SumsOf(q, f)
    BY SumsExist
<1>2. /\ f \in [0 .. Len(q) -> Int] /\ f[0] = 0
      /\ \A i \in 1 .. Len(q) : f[i] = f[i - 1] + q[i].bytes
    BY <1>1 DEF SumsOf
<1> DEFINE front == SubSeq(q, 1, k)
           rest  == SubSeq(q, k + 1, Len(q))
           g     == [i \in 0 .. k |-> f[i]]
           h     == [i \in 0 .. Len(q) - k |-> f[k + i] - f[k]]
<1>3. /\ front \in Seq(Entries) /\ Len(front) = k
      /\ \A i \in 1 .. k : front[i] = q[i]
    BY <1>0
<1>4. /\ rest \in Seq(Entries) /\ Len(rest) = Len(q) - k
      /\ \A i \in 1 .. Len(q) - k : rest[i] = q[k + i]
    BY <1>0
<1> HIDE DEF front, rest
<1>5. SumsOf(front, g)
  <2>1. g \in [0 .. k -> Int] /\ \A i \in 0 .. k : g[i] = f[i]
      BY <1>0, <1>2
  <2>2. \A i \in 1 .. k : i \in 1 .. Len(q) /\ i \in 0 .. k /\ i - 1 \in 0 .. k
      BY <1>0
  <2>3. 0 \in 0 .. k
      BY <1>0
  <2> HIDE DEF g
  <2>4. \A i \in 1 .. k : g[i] = g[i - 1] + front[i].bytes
      BY <1>2, <1>3, <2>1, <2>2
  <2> QED
      BY <1>2, <1>3, <2>1, <2>3, <2>4 DEF SumsOf
<1>6. SumsOf(rest, h)
  <2> DEFINE n == Len(q) - k
  <2>1. n \in Nat /\ \A i \in 0 .. n : k + i \in 0 .. Len(q) /\ f[k + i] \in Int
      BY <1>0, <1>2
  <2>2. k \in 0 .. Len(q) /\ f[k] \in Int
      BY <1>2
  <2>3. h \in [0 .. n -> Int] /\ \A i \in 0 .. n : h[i] = f[k + i] - f[k]
    <3>1. \A i \in 0 .. n : f[k + i] - f[k] \in Int
      <4> DEFINE z == f[k]
      <4>1. z \in Int
          BY <2>2
      <4> HIDE DEF z
      <4>2. ASSUME NEW i \in 0 .. n PROVE f[k + i] - z \in Int
        <5> DEFINE y == f[k + i]
        <5>1. y \in Int
            BY <2>1
        <5> HIDE DEF y
        <5>2. y - z \in Int
            BY <4>1, <5>1
        <5> QED
            BY <5>2 DEF y
      <4> QED
          BY <4>2 DEF z
    <3>2. \A i \in 0 .. n : h[i] = f[k + i] - f[k]
        OBVIOUS
    <3> QED
        BY <3>1, <3>2
  <2>4. h[0] = 0
      BY <1>0, <2>1, <2>2, <2>3
  <2> HIDE DEF h
  <2>5. ASSUME NEW i \in 1 .. n PROVE h[i] = h[i - 1] + rest[i].bytes
    <3>1. k + i \in 1 .. Len(q) /\ i - 1 \in 0 .. n /\ i \in 0 .. n /\ k + i - 1 = k + (i - 1)
        BY <1>0, <2>1
    <3>2. f[k + i] = f[k + (i - 1)] + q[k + i].bytes
        BY <1>2, <3>1
    <3>3. q[k + i].bytes = rest[i].bytes
        BY <1>4
    <3>4. f[k + i] \in Int /\ f[k + (i - 1)] \in Int /\ f[k] \in Int
        BY <2>1, <2>2, <3>1
    <3>5. rest[i].bytes \in Int
      <4>1. rest[i] \in Entries
          BY <1>4, <2>1
      <4> QED
          BY <4>1 DEF Entries
    <3>6. h[i] = f[k + i] - f[k] /\ h[i - 1] = f[k + (i - 1)] - f[k]
        BY <2>3, <3>1
    <3> DEFINE x == f[k + i]
               y == f[k + (i - 1)]
               z == f[k]
               b == rest[i].bytes
    <3>7. x \in Int /\ y \in Int /\ z \in Int /\ b \in Int /\ x = y + b
        BY <3>2, <3>3, <3>4, <3>5
    <3>8. h[i] = x - z /\ h[i - 1] = y - z
        BY <3>6
    <3> HIDE DEF x, y, z, b
    <3>9. h[i] = h[i - 1] + b
        BY <3>7, <3>8
    <3> QED
        BY <3>9 DEF b
  <2> QED
      BY <1>4, <2>3, <2>4, <2>5 DEF SumsOf
<1>7. Bytes(front) = f[k] /\ Bytes(front) \in Int
  <2>1. g[k] = f[k]
      BY <1>0
  <2> QED
      BY <1>3, <1>5, <2>1, BytesAre
<1>8. Bytes(rest) = f[Len(q)] - f[k]
  <2>1. h[Len(q) - k] = f[Len(q)] - f[k]
    <3>1. Len(q) - k \in 0 .. Len(q) - k /\ k + (Len(q) - k) = Len(q)
        BY <1>0
    <3> QED
        BY <3>1
  <2> QED
      BY <1>4, <1>6, <2>1, BytesAre
<1>9. Bytes(q) = f[Len(q)] /\ Bytes(q) \in Int
    BY <1>1, BytesAre
<1> QED
    BY <1>7, <1>8, <1>9 DEF front, rest

LEMMA BytesOfNone == Bytes(<<>>) = 0
<1>1. SumsOf(<<>>, [i \in 0 .. 0 |-> 0]) /\ <<>> \in Seq(Entries)
    BY DEF SumsOf
<1> DEFINE z == [i \in 0 .. 0 |-> 0]
<1>2. z[Len(<<>>)] = 0
    OBVIOUS
<1> HIDE DEF z
<1> QED
    BY <1>1, <1>2, BytesAre DEF z

\* One more notification has its size more.
LEMMA BytesAppended ==
  ASSUME NEW s \in Seq(Entries), NEW e \in Entries
  PROVE  Bytes(Append(s, e)) = Bytes(s) + e.bytes /\ Bytes(s) \in Int
<1> DEFINE q == Append(s, e)
<1>1. q \in Seq(Entries) /\ Len(q) = Len(s) + 1 /\ q[Len(q)] = e /\ Len(s) \in Nat
    OBVIOUS
<1>2. SubSeq(q, 1, Len(s)) = s
    BY <1>1
<1> HIDE DEF q
<1>3. PICK f : SumsOf(q, f)
    BY <1>1, SumsExist
<1>4. Bytes(q) = f[Len(q)]
    BY <1>1, <1>3, BytesAre
<1> DEFINE g == [i \in 0 .. Len(s) |-> f[i]]
<1>5. SumsOf(s, g)
  <2>1. /\ f \in [0 .. Len(q) -> Int] /\ f[0] = 0
        /\ \A i \in 1 .. Len(q) : f[i] = f[i - 1] + q[i].bytes
      BY <1>3 DEF SumsOf
  <2>2. g \in [0 .. Len(s) -> Int] /\ \A i \in 0 .. Len(s) : g[i] = f[i]
      BY <1>1, <2>1
  <2>3. \A i \in 1 .. Len(s) : i \in 1 .. Len(q) /\ i \in 0 .. Len(s) /\ i - 1 \in 0 .. Len(s) /\ q[i] = s[i]
      BY <1>1 DEF q
  <2>4. 0 \in 0 .. Len(s)
      BY <1>1
  <2> HIDE DEF g
  <2> QED
      BY <2>1, <2>2, <2>3, <2>4 DEF SumsOf
<1>6. Bytes(s) = f[Len(s)] /\ Bytes(s) \in Int
  <2>1. g[Len(s)] = f[Len(s)]
      BY <1>1
  <2> HIDE DEF g
  <2> QED
      BY <1>5, <2>1, BytesAre
<1>7. f[Len(q)] = f[Len(s)] + e.bytes
  <2>1. Len(q) \in 1 .. Len(q) /\ Len(q) - 1 = Len(s)
      BY <1>1
  <2> QED
      BY <1>1, <1>3, <2>1 DEF SumsOf
<1> QED
    BY <1>4, <1>6, <1>7 DEF q

\* The search finds the first notification after a cursor that is not expired.
LEMMA SearchFinds ==
  ASSUME items \in Seq(Entries), discarded \in Nat, Contiguous,
         NEW c \in Nat, discarded <= c, c < nextCursor
  PROVE  firstAfter(c) = c - discarded + 1
<1> DEFINE L == Len(items)
           x == c - discarded
           D == (0 .. L) \X (0 .. L)
           Body(f, low, high) ==
             LET middle == low + (high - low) \div 2
             IN  IF low >= high THEN low
                 ELSE IF items[middle + 1].cursor <= c THEN f[<<middle + 1, high>>] ELSE f[<<low, middle>>]
           F(f) == [range \in D |-> Body(f, range[1], range[2])]
           search == CHOOSE f : f = F(f)
           At2(low, high) == IF low >= high THEN low
                             ELSE IF x <= low THEN low ELSE IF high <= x THEN high ELSE x
           found == [range \in D |-> At2(range[1], range[2])]
<1>0. L \in Nat /\ x \in Nat /\ x <= L
    BY DEF Contiguous
<1>1. ASSUME NEW low \in 0 .. L, NEW high \in 0 .. L, low < high,
             NEW middle, middle = low + (high - low) \div 2
      PROVE  /\ middle \in 0 .. L /\ middle + 1 \in 0 .. L
             /\ low <= middle /\ middle < high
             /\ items[middle + 1].cursor <= c <=> middle + 1 <= x
  <2>1. /\ middle \in Int /\ low <= middle /\ middle < high
      BY <1>0, <1>1
  <2>2. middle \in 0 .. L /\ middle + 1 \in 1 .. L /\ middle + 1 \in 0 .. L
      BY <1>0, <1>1, <2>1
  <2>3. items[middle + 1].cursor = discarded + (middle + 1)
      BY <2>2 DEF Contiguous
  <2> QED
      BY <1>0, <2>1, <2>2, <2>3
<1>2. ASSUME NEW g, \A low, high \in 0 .. L : g[<<low, high>>] = At2(low, high)
      PROVE  \A low, high \in 0 .. L : Body(g, low, high) = At2(low, high)
  <2> SUFFICES ASSUME NEW low \in 0 .. L, NEW high \in 0 .. L
               PROVE  Body(g, low, high) = At2(low, high)
      OBVIOUS
  <2>1. CASE low >= high
      BY <2>1
  <2>2. CASE low < high
    <3> DEFINE middle == low + (high - low) \div 2
    <3>1. /\ middle \in 0 .. L /\ middle + 1 \in 0 .. L
          /\ low <= middle /\ middle < high
          /\ items[middle + 1].cursor <= c <=> middle + 1 <= x
        BY <1>1, <2>2
    <3>2. low \in Nat /\ high \in Nat /\ middle \in Nat
        BY <1>0, <3>1
    <3>3. ~(low >= high)
        BY <2>2, <3>2
    <3>4. Body(g, low, high) = IF middle + 1 <= x THEN g[<<middle + 1, high>>] ELSE g[<<low, middle>>]
        BY <3>1, <3>3
    <3>5. Body(g, low, high) = IF middle + 1 <= x THEN At2(middle + 1, high) ELSE At2(low, middle)
        BY <1>2, <3>1, <3>4
    <3> HIDE DEF Body, middle, x
    <3> QED
        BY <1>0, <3>1, <3>2, <3>3, <3>5
  <2> QED
      BY <1>0, <2>1, <2>2
<1>3. \A low, high \in 0 .. L : found[<<low, high>>] = At2(low, high)
    OBVIOUS
<1>4. found = F(found)
  <2>1. \A low, high \in 0 .. L : Body(found, low, high) = At2(low, high)
    <3> HIDE DEF found, Body, At2, F
    <3> QED
        BY <1>2, <1>3
  <2>2. \A range \in D : range[1] \in 0 .. L /\ range[2] \in 0 .. L
      OBVIOUS
  <2> HIDE DEF Body, At2
  <2>3. \A range \in D : Body(found, range[1], range[2]) = At2(range[1], range[2])
    <3> HIDE DEF found, D
    <3> QED
        BY <2>1, <2>2
  <2>4. F(found) = [range \in D |-> At2(range[1], range[2])]
    <3> HIDE DEF found
    <3> QED
        BY <2>3
  <2> QED
      BY <2>4
<1>5. search = F(search)
  <2> HIDE DEF F, found
  <2> QED
      BY <1>4
<1>6. firstAfter(c) = search[<<0, L>>] + 1
    BY DEF firstAfter, Probes
<1> HIDE DEF search, found
<1>7. \A low, high \in 0 .. L : search[<<low, high>>] = Body(search, low, high)
  <2> HIDE DEF Body
  <2> SUFFICES ASSUME NEW low \in 0 .. L, NEW high \in 0 .. L
               PROVE  search[<<low, high>>] = Body(search, low, high)
      OBVIOUS
  <2>1. <<low, high>> \in D /\ <<low, high>>[1] = low /\ <<low, high>>[2] = high
      OBVIOUS
  <2>2. F(search)[<<low, high>>] = Body(search, low, high)
      BY <2>1
  <2> HIDE DEF F
  <2> QED
      BY <1>5, <2>2
<1>8. \A low, high \in 0 .. L : Body(found, low, high) = found[<<low, high>>]
  <2> HIDE DEF Body, At2
  <2> QED
      BY <1>2, <1>3
<1> DEFINE Bad == {n \in Nat : \E low, high \in 0 .. L :
                                high - low <= n /\ search[<<low, high>>] # found[<<low, high>>]}
<1>9. Bad = {}
  <2> SUFFICES ASSUME Bad # {} PROVE FALSE
      OBVIOUS
  <2>1. PICK n \in Bad : \A y \in Bad : n <= y
    <3>1. Bad \in SUBSET Nat
        OBVIOUS
    <3> HIDE DEF Bad
    <3> QED
        BY <3>1, LeastOf
  <2>2. PICK low \in 0 .. L, high \in 0 .. L : high - low <= n /\ search[<<low, high>>] # found[<<low, high>>]
      BY <2>1
  <2>3. Body(search, low, high) # Body(found, low, high)
    <3> HIDE DEF Body
    <3> QED
        BY <1>7, <1>8, <2>2
  <2>4. low < high
    <3>1. ~(low >= high)
        BY <2>3
    <3> QED
        BY <1>0, <3>1
  <2> DEFINE middle == low + (high - low) \div 2
  <2>5. /\ middle \in 0 .. L /\ middle + 1 \in 0 .. L
        /\ low <= middle /\ middle < high
      BY <1>1, <2>4
  <2>6. search[<<middle + 1, high>>] # found[<<middle + 1, high>>] \/ search[<<low, middle>>] # found[<<low, middle>>]
      BY <2>3
  <2> HIDE DEF middle
  <2>7. n \in Nat
      BY <2>1
  <2>8. high - low <= n /\ low \in Nat /\ high \in Nat /\ middle \in Nat
      BY <1>0, <2>2, <2>5
  <2>9. n - 1 \in Nat /\ ~(n <= n - 1) /\ high - (middle + 1) <= n - 1 /\ middle - low <= n - 1
    <3> HIDE DEF Bad
    <3> QED
        BY <2>4, <2>5, <2>7, <2>8
  <2>10. n - 1 \in Bad
    <3>1. CASE search[<<middle + 1, high>>] # found[<<middle + 1, high>>]
        BY <2>5, <2>9, <3>1
    <3>2. CASE search[<<low, middle>>] # found[<<low, middle>>]
        BY <2>5, <2>9, <3>2
    <3> QED
        BY <2>6, <3>1, <3>2
  <2> HIDE DEF Bad
  <2> QED
      BY <2>1, <2>9, <2>10
<1>10. search[<<0, L>>] = found[<<0, L>>]
  <2>1. 0 \in 0 .. L /\ L \in 0 .. L /\ L - 0 <= L
      BY <1>0
  <2> QED
      BY <1>0, <1>9, <2>1
<1>11. found[<<0, L>>] = x
  <2>1. 0 \in 0 .. L /\ L \in 0 .. L
      BY <1>0
  <2> HIDE DEF x
  <2> QED
      BY <1>0, <1>3, <2>1
<1> QED
    BY <1>6, <1>10, <1>11

\* What the queue and its client keep.
QueueInv ==
  /\ items \in Seq(Entries)
  /\ nextCursor \in Nat /\ discarded \in Nat /\ cursor \in Nat /\ cursor < nextCursor
  /\ Contiguous /\ WithinLimits /\ NothingMissed

\* The queue with a new notification continues it without a hole.
LEMMA Appended ==
  ASSUME items \in Seq(Entries), nextCursor \in Nat, discarded \in Nat, Contiguous,
         NEW bytes \in Nat, NEW q, q = Append(items, [cursor |-> nextCursor, bytes |-> bytes])
  PROVE  /\ q \in Seq(Entries) /\ Len(q) = Len(items) + 1
         /\ \A i \in 1 .. Len(q) : q[i].cursor = discarded + i
<1> USE DEF Contiguous, Entries
<1> DEFINE new == [cursor |-> nextCursor, bytes |-> bytes]
<1>1. new \in Entries
    OBVIOUS
<1>2. q \in Seq(Entries) /\ Len(q) = Len(items) + 1
    BY <1>1
<1>3. ASSUME NEW i \in 1 .. Len(q)  PROVE q[i].cursor = discarded + i
  <2>1. CASE i \in 1 .. Len(items)
    <3>1. q[i] = items[i]
        BY <2>1, <1>1
    <3> QED
        BY <2>1, <3>1
  <2>2. CASE i = Len(items) + 1
    <3>1. q[i] = new
        BY <2>2, <1>1
    <3> QED
        BY <2>2, <3>1
  <2> QED
      BY <1>2, <1>3, <2>1, <2>2
<1> QED
    BY <1>2, <1>3

\* Dropping the first k of such a queue moves "discarded through" by k.
LEMMA Dropped ==
  ASSUME NEW q \in Seq(Entries), NEW d \in Nat, NEW k \in 0 .. Len(q),
         \A i \in 1 .. Len(q) : q[i].cursor = d + i
  PROVE  LET rest == SubSeq(q, k + 1, Len(q))
         IN  /\ rest \in Seq(Entries) /\ Len(rest) = Len(q) - k
             /\ \A i \in 1 .. Len(rest) : rest[i].cursor = d + k + i
<1> DEFINE rest == SubSeq(q, k + 1, Len(q))
<1>1. rest \in Seq(Entries) /\ Len(rest) = Len(q) - k
    OBVIOUS
<1>2. ASSUME NEW i \in 1 .. Len(rest)  PROVE rest[i].cursor = d + k + i
  <2>1. k + i \in 1 .. Len(q) /\ i \in 1 .. Len(q) - k
      BY <1>1, <1>2
  <2>2. rest[i] = q[k + i]
      BY <2>1
  <2>3. q[k + i].cursor = d + (k + i)
      BY <2>1
  <2>4. q[k + i].cursor = d + k + i
      BY <2>1, <2>3
  <2> HIDE DEF rest
  <2> QED
      BY <2>2, <2>4
<1> QED
    BY <1>1, <1>2

LEMMA QueueInitially == BufferInit => QueueInv
<1> SUFFICES ASSUME BufferInit PROVE QueueInv
    OBVIOUS
<1>1. items = <<>> /\ items \in Seq(Entries) /\ Len(items) = 0
    BY DEF BufferInit
<1>2. Bytes(items) = 0
    BY <1>1, BytesOfNone
<1>3. Contiguous /\ NothingMissed
    BY <1>1 DEF BufferInit, Contiguous, NothingMissed
<1>4. WithinLimits
    BY <1>1, <1>2, BufferAssumption DEF BufferInit, WithinLimits
<1> QED
    BY <1>1, <1>3, <1>4 DEF BufferInit, QueueInv

LEMMA QueueStep == QueueInv /\ [BufferNext]_bufferVars => QueueInv'
<1> SUFFICES ASSUME QueueInv, [BufferNext]_bufferVars PROVE QueueInv'
    OBVIOUS
<1>0. /\ items \in Seq(Entries)
      /\ nextCursor \in Nat /\ discarded \in Nat /\ cursor \in Nat /\ cursor < nextCursor
      /\ Contiguous /\ WithinLimits /\ NothingMissed
    BY DEF QueueInv
<1>1. ASSUME NEW bytes \in Sizes, Publish(bytes)  PROVE QueueInv'
  <2> DEFINE new == [cursor |-> nextCursor, bytes |-> bytes]
             q   == Append(items, new)
             total == totalBytes + bytes
  <2>1. bytes \in Nat /\ new \in Entries /\ new.bytes = bytes
      BY <1>0, BufferAssumption DEF Entries
  <2>2. /\ q \in Seq(Entries) /\ Len(q) = Len(items) + 1
        /\ \A i \in 1 .. Len(q) : q[i].cursor = discarded + i
      BY <1>0, <2>1, Appended
  <2>3. PICK k \in 0 .. Len(q) : /\ Fits(q, total, k)
                                 /\ items' = SubSeq(q, k + 1, Len(q))
                                 /\ totalBytes' = total - Bytes(SubSeq(q, 1, k))
                                 /\ discarded' = discardedThrough(q, k)
      BY <1>1 DEF Publish
  <2>4. nextCursor' = nextCursor + 1 /\ UNCHANGED <<cursor, got, skipped>>
      BY <1>1 DEF Publish
  <2>5. discarded' = discarded + k
    <3> HIDE DEF q
    <3> QED
        BY <1>0, <2>2, <2>3 DEF discardedThrough
  <2>6. /\ items' \in Seq(Entries) /\ Len(items') = Len(q) - k
        /\ \A i \in 1 .. Len(items') : items'[i].cursor = discarded + k + i
      BY <1>0, <2>2, <2>3, Dropped
  <2>7. nextCursor = discarded + Len(items) + 1
      BY <1>0 DEF Contiguous
  <2>8. total = Bytes(q)
    <3>1. Bytes(q) = Bytes(items) + new.bytes
      <4> HIDE DEF new
      <4> QED
          BY <1>0, <2>1, BytesAppended
    <3> QED
        BY <1>0, <2>1, <3>1 DEF WithinLimits
  <2> DEFINE front == SubSeq(q, 1, k)
  <2>9. totalBytes' = total - Bytes(front) /\ (k = Len(q) \/ (Len(q) - k <= MaxItems /\ total - Bytes(front) <= MaxBytes))
      BY <2>3 DEF Fits
  <2>10. totalBytes' = Bytes(items')
    <3>1. Bytes(SubSeq(q, k + 1, Len(q))) = Bytes(q) - Bytes(front)
      <4> HIDE DEF q
      <4> QED
          BY <2>2, BytesSplit
    <3> HIDE DEF front, q, total
    <3> QED
        BY <2>3, <2>8, <2>9, <3>1
  <2> HIDE DEF q, front, total
  <2>11. WithinLimits'
    <3>1. CASE k = Len(q)
      <4>1. Len(items') = 0 /\ items' = <<>>
          BY <2>2, <2>6, <3>1
      <4>2. Bytes(items') = 0
          BY <4>1, BytesOfNone
      <4> QED
          BY <2>10, <4>1, <4>2, BufferAssumption DEF WithinLimits
    <3>2. CASE Len(q) - k <= MaxItems /\ total - Bytes(front) <= MaxBytes
        BY <2>6, <2>9, <2>10, <3>2 DEF WithinLimits
    <3> QED
        BY <2>9, <3>1, <3>2
  <2>12. Contiguous'
      BY <1>0, <2>2, <2>4, <2>5, <2>6, <2>7 DEF Contiguous
  <2>13. NothingMissed'
      BY <1>0, <2>4 DEF NothingMissed
  <2>14. nextCursor' \in Nat /\ discarded' \in Nat /\ cursor' \in Nat /\ cursor' < nextCursor'
      BY <1>0, <2>2, <2>4, <2>5
  <2> QED
      BY <2>6, <2>11, <2>12, <2>13, <2>14 DEF QueueInv
<1>2. CASE Read
  <2>1. UNCHANGED <<items, nextCursor, totalBytes, discarded>>
      BY <1>2 DEF Read
  <2>2. Contiguous' /\ WithinLimits'
      BY <1>0, <2>1 DEF Contiguous, WithinLimits
  <2>3. CASE cursor < discarded
    <3>1. cursor' = discarded /\ skipped' = skipped \cup cursor + 1 .. discarded /\ got' = got
        BY <1>2, <2>3 DEF Read
    <3>2. cursor' \in Nat /\ cursor' < nextCursor'
        BY <1>0, <2>1, <3>1 DEF Contiguous
    <3>3. \A n : n \in 1 .. discarded <=> n \in 1 .. cursor \/ n \in cursor + 1 .. discarded
        BY <1>0, <2>3
    <3>4. \A n : n \in cursor + 1 .. discarded => n \notin 1 .. cursor
        BY <1>0
    <3>5. NothingMissed'
        BY <1>0, <3>1, <3>3, <3>4 DEF NothingMissed
    <3> QED
        BY <1>0, <2>1, <2>2, <3>2, <3>5 DEF QueueInv
  <2>4. CASE ~(cursor < discarded)
    <3> DEFINE first == firstAfter(cursor)
               more  == {items[i].cursor : i \in first .. Len(items)}
    <3>1. cursor' = latestCursor /\ skipped' = skipped /\ got' = got \cup more
        BY <1>2, <2>4 DEF Read
    <3>2. first = cursor - discarded + 1
        BY <1>0, <2>4, SearchFinds
    <3>3. cursor' = nextCursor - 1 /\ cursor' \in Nat /\ cursor' < nextCursor' /\ cursor <= cursor'
        BY <1>0, <2>1, <3>1 DEF latestCursor
    <3>4. /\ nextCursor = discarded + Len(items) + 1 /\ Len(items) \in Nat
          /\ \A i \in 1 .. Len(items) : items[i].cursor = discarded + i
        BY <1>0 DEF Contiguous
    <3> HIDE DEF first
    <3>5. \A n : n \in more <=> n \in cursor + 1 .. cursor'
      <4>1. ASSUME NEW i \in first .. Len(items)
            PROVE  items[i].cursor \in cursor + 1 .. cursor'
        <5>1. i \in 1 .. Len(items)
            BY <1>0, <2>4, <3>2, <3>4, <4>1
        <5>2. items[i].cursor = discarded + i
            BY <3>4, <5>1
        <5> QED
            BY <1>0, <2>4, <3>2, <3>3, <3>4, <4>1, <5>2
      <4>2. ASSUME NEW n \in cursor + 1 .. cursor'
            PROVE  \E i \in first .. Len(items) : n = items[i].cursor
        <5>1. n - discarded \in first .. Len(items) /\ n - discarded \in 1 .. Len(items)
            BY <1>0, <2>4, <3>2, <3>3, <3>4, <4>2
        <5>2. items[n - discarded].cursor = n
            BY <1>0, <3>3, <3>4, <4>2, <5>1
        <5> QED
            BY <5>1, <5>2
      <4> QED
          BY <4>1, <4>2
    <3> HIDE DEF more
    <3>6. \A n : n \in 1 .. cursor' <=> n \in 1 .. cursor \/ n \in cursor + 1 .. cursor'
        BY <1>0, <3>3
    <3>7. \A n : n \in cursor + 1 .. cursor' => n \notin 1 .. cursor
        BY <1>0
    <3>8. NothingMissed'
        BY <1>0, <3>1, <3>5, <3>6, <3>7 DEF NothingMissed
    <3> QED
        BY <1>0, <2>1, <2>2, <3>3, <3>8 DEF QueueInv
  <2> QED
      BY <2>3, <2>4
<1>3. CASE UNCHANGED bufferVars
    BY <1>0, <1>3 DEF QueueInv, bufferVars, Contiguous, WithinLimits, NothingMissed
<1>4. ASSUME NEW bytes \in Sizes, TooLarge(bytes)  PROVE QueueInv'
    BY <1>3, <1>4 DEF TooLarge
<1> QED
    BY <1>1, <1>2, <1>3, <1>4 DEF BufferNext

\* The cursors retained are the ones after the last discarded, without a hole,
\* which is what CURSOR_EXPIRED and the binary search of read() rely on.
THEOREM QueueStaysContiguous == ServicesSpec => []Contiguous
<1>1. ServicesInit => QueueInv
    BY QueueInitially DEF ServicesInit
<1>2. QueueInv /\ [ServicesNext]_servicesVars => QueueInv'
    BY PartsApart, QueueStep
<1>3. QueueInv => Contiguous
    BY DEF QueueInv
<1> QED
    BY <1>1, <1>2, <1>3, PTL DEF ServicesSpec

\* The queue keeps its two limits, its byte counter is the sum of what it
\* holds, and a client that follows its cursor has received, or was told it
\* lost, every notification up to it: eviction and search agree.
THEOREM ReplayHolds == ServicesSpec => []ReplayIsSound
<1>1. ServicesInit => QueueInv
    BY QueueInitially DEF ServicesInit
<1>2. QueueInv /\ [ServicesNext]_servicesVars => QueueInv'
    BY PartsApart, QueueStep
<1>3. QueueInv => ReplayIsSound
    BY DEF QueueInv, ReplayIsSound
<1> QED
    BY <1>1, <1>2, <1>3, PTL DEF ServicesSpec

-----------------------------------------------------------------------------
(* SessionClaims                                                           *)

Shown == INSTANCE SessionClaimsProofs WITH Kind <- KindOfSession

LEMMA ClaimConstants == Shown!ConstantsOK
BY ServicesAssumption DEF Shown!ConstantsOK

LEMMA ClaimsStartAlike == Claims!ClaimInit => Shown!ClaimInit
BY DEF Claims!ClaimInit, Shown!ClaimInit

LEMMA ClaimsStepAlike == [Claims!ClaimNext]_claimVars => [Shown!ClaimNext]_(Shown!claimVars)
<1> USE DEF Claims!To, Shown!To, Claims!relayVars, Shown!relayVars, Claims!Mishap, Shown!Mishap
<1>1. ASSUME NEW c \in Starts
      PROVE  /\ Claims!StartService(c) => Shown!StartService(c)
             /\ Claims!StartServiceFails(c) => Shown!StartServiceFails(c)
    BY DEF Claims!StartService, Shown!StartService, Claims!StartServiceFails, Shown!StartServiceFails
<1>2. ASSUME NEW c \in Starts, Claims!Resolve(c) PROVE Shown!Resolve(c)
  <2>1. Claims!Idle = Shown!Idle
      BY DEF Claims!Idle, Shown!Idle, Claims!runs, Shown!runs
  <2>2. \A s : Claims!Reusable(s) <=> Shown!Reusable(s)
      BY DEF Claims!Reusable, Shown!Reusable, Claims!runs, Shown!runs
  <2>3. \A s, b : Claims!Pick(c, s, b) => Shown!Pick(c, s, b)
      BY DEF Claims!Pick, Shown!Pick
  <2> QED
      BY <1>2, <2>1, <2>2, <2>3 DEF Claims!Resolve, Shown!Resolve
<1>3. ASSUME NEW c \in Starts
      PROVE  /\ Claims!Claim(c) => Shown!Claim(c)
             /\ Claims!TakeLease(c) => Shown!TakeLease(c)
    BY DEF Claims!Claim, Shown!Claim, Claims!TakeLease, Shown!TakeLease, Claims!Activate, Shown!Activate,
           Claims!Key, Shown!Key
<1>4. ASSUME NEW c \in Starts
      PROVE  /\ Claims!AssertIdle(c) => Shown!AssertIdle(c)
             /\ Claims!SetUpFails(c) => Shown!SetUpFails(c)
             /\ Claims!Prompt(c) => Shown!Prompt(c)
             /\ Claims!LatePrompt(c) => Shown!LatePrompt(c)
             /\ Claims!TurnEnds(c) => Shown!TurnEnds(c)
    BY DEF Claims!AssertIdle, Shown!AssertIdle, Claims!SetUpFails, Shown!SetUpFails,
           Claims!Prompt, Shown!Prompt, Claims!LatePrompt, Shown!LatePrompt,
           Claims!TurnEnds, Shown!TurnEnds, Claims!HostTakes, Shown!HostTakes, Claims!runs, Shown!runs
<1>5. ASSUME NEW c \in Starts
      PROVE  /\ Claims!Release(c) => Shown!Release(c)
             /\ Claims!Finalize(c) => Shown!Finalize(c)
  <2>1. Claims!Unkey(c) = Shown!Unkey(c)
      BY DEF Claims!Unkey, Shown!Unkey, Claims!Key, Shown!Key
  <2> QED
      BY <2>1 DEF Claims!Release, Shown!Release, Claims!Finalize, Shown!Finalize, Claims!runs, Shown!runs
<1>6. ASSUME NEW r \in Relays PROVE Claims!StopService(r) => Shown!StopService(r)
    BY DEF Claims!StopService, Shown!StopService
<1>7. UNCHANGED claimVars => UNCHANGED Shown!claimVars
    BY DEF claimVars, Shown!claimVars
<1> QED
    BY <1>1, <1>2, <1>3, <1>4, <1>5, <1>6, <1>7 DEF Claims!ClaimNext, Shown!ClaimNext

\* A session works for one run whatever services are stopped in between, and
\* what keeps the others out -- claim, key, lease -- is given back with the run
\* that took it, in every failure.
THEOREM SessionsStayExclusive == ServicesSpec => []SessionsAreExclusive
<1>1. ServicesInit => Shown!ClaimInv
    BY ClaimConstants, ClaimsStartAlike, Shown!ClaimInitially DEF ServicesInit
<1>2. Shown!ClaimInv /\ [ServicesNext]_servicesVars => Shown!ClaimInv'
    BY PartsApart, ClaimsStepAlike, ClaimConstants, Shown!TypesInductive, Shown!ClaimsInductive,
       Shown!TurnsInductive, Shown!AloneInductive DEF Shown!ClaimInv, Shown!ClaimsHold
<1>3. Shown!ClaimInv => SessionsAreExclusive
  <2> SUFFICES ASSUME Shown!ClaimInv PROVE SessionsAreExclusive
      OBVIOUS
  <2>1. Claims!OneRunPerSession
      BY DEF Shown!ClaimInv, Claims!OneRunPerSession, Shown!OneRunPerSession
  <2>2. Claims!ClaimsAreReturned
      BY DEF Shown!ClaimInv, Claims!ClaimsAreReturned, Shown!ClaimsAreReturned, Claims!Claimed, Shown!Claimed
  <2>3. Claims!KeysAreOfLiveRuns
      BY DEF Shown!ClaimInv, Claims!KeysAreOfLiveRuns, Shown!KeysAreOfLiveRuns, Claims!Claimed, Shown!Claimed,
             Claims!Key, Shown!Key
  <2> QED
      BY <2>1, <2>2, <2>3 DEF SessionsAreExclusive
<1> QED
    BY <1>1, <1>2, <1>3, PTL DEF ServicesSpec

-----------------------------------------------------------------------------
(* TaskScope                                                               *)

\* Paths that name no parent directory.
Plain == {names \in Seq(STRING) : \A i \in 1 .. Len(names) : names[i] # ".."}

\* One name of a path resolved.
Followed(done, name) ==
  IF name # ".." THEN Append(done, name)
  ELSE IF done = <<>> THEN <<>>
  ELSE SubSeq(done, 1, Len(done) - 1)

LEMMA FollowedIsPlain ==
  ASSUME NEW done \in Plain, NEW name \in STRING
  PROVE  Followed(done, name) \in Plain
<1>0. done \in Seq(STRING) /\ Len(done) \in Nat /\ \A i \in 1 .. Len(done) : done[i] # ".."
    BY DEF Plain
<1>1. CASE name # ".."
  <2> DEFINE d == Append(done, name)
  <2>1. d \in Seq(STRING) /\ Len(d) = Len(done) + 1
      BY <1>0
  <2>2. \A i \in 1 .. Len(d) : d[i] # ".."
    <3>1. \A i \in 1 .. Len(d) : d[i] = IF i = Len(done) + 1 THEN name ELSE done[i]
        BY <1>0
    <3> HIDE DEF d
    <3> QED
        BY <1>0, <1>1, <2>1, <3>1
  <2>3. d \in Plain
    <3> HIDE DEF d
    <3> QED
        BY <2>1, <2>2 DEF Plain
  <2> QED
      BY <1>1, <2>3 DEF Followed
<1>2. CASE name = ".." /\ done = <<>>
    BY <1>2 DEF Followed
<1>3. CASE name = ".." /\ done # <<>>
  <2> DEFINE d == SubSeq(done, 1, Len(done) - 1)
  <2>0. Len(done) # 0
      BY <1>0, <1>3
  <2>1. d \in Seq(STRING) /\ Len(d) = Len(done) - 1 /\ \A i \in 1 .. Len(done) - 1 : d[i] = done[i]
    <3> DEFINE l == Len(done) - 1
               D == SubSeq(done, 1, l)
    <3>1. l \in 0 .. Len(done) /\ l \in Nat
        BY <1>0, <2>0
    <3> HIDE DEF l
    <3>2. D \in Seq(STRING) /\ Len(D) = l /\ \A i \in 1 .. l : D[i] = done[i]
        BY <1>0, <3>1
    <3> QED
        BY <3>2 DEF l
  <2> HIDE DEF d
  <2>2. d \in Plain
      BY <1>0, <2>0, <2>1 DEF Plain
  <2> QED
      BY <1>3, <2>2 DEF Followed, d
<1> QED
    BY <1>1, <1>2, <1>3

\* A resolved path has no ".." left, however often it goes up and down.
LEMMA ResolvedIsPlain ==
  ASSUME NEW names \in Seq(STRING)
  PROVE  Scope!resolve(names) \in Plain
<1> DEFINE F(f) == [n \in 0 .. Len(names) |->
                      IF n = 0 THEN <<>>
                      ELSE IF names[n] # ".." THEN Append(f[n - 1], names[n])
                      ELSE IF f[n - 1] = <<>> THEN <<>>
                      ELSE SubSeq(f[n - 1], 1, Len(f[n - 1]) - 1)]
           done == CHOOSE f : f = F(f)
           G    == [p \in Plain \X STRING |-> Followed(p[1], p[2])]
           none == <<>>
<1>0. Len(names) \in Nat /\ \A n \in 1 .. Len(names) : names[n] \in STRING
    OBVIOUS
<1>1. G \in [Plain \X STRING -> Plain] /\ \A d \in Plain, a \in STRING : G[<<d, a>>] = Followed(d, a)
    BY FollowedIsPlain
<1>2. none \in Plain
    BY DEF Plain
<1>3. PICK f : Fold(f, Plain, G, none, names)
  <2> DEFINE Names == STRING
  <2>1. names \in Seq(Names) /\ G \in [Plain \X Names -> Plain]
      BY <1>1
  <2> HIDE DEF G, none, Names
  <2> QED
      BY <1>2, <2>1, FoldsExist
<1> HIDE DEF G
<1>4. f \in [0 .. Len(names) -> Plain] /\ f[0] = <<>>
    BY <1>3 DEF Fold
<1>5. ASSUME NEW n \in 1 .. Len(names) PROVE f[n] = Followed(f[n - 1], names[n])
  <2>1. f[n] = G[<<f[n - 1], names[n]>>]
      BY <1>3 DEF Fold
  <2>2. f[n - 1] \in Plain /\ names[n] \in STRING
      BY <1>0, <1>4
  <2> QED
      BY <1>1, <2>1, <2>2
<1>6. f = F(f)
  <2>1. \A n \in 0 .. Len(names) : f[n] = IF n = 0 THEN <<>> ELSE Followed(f[n - 1], names[n])
      BY <1>0, <1>4, <1>5
  <2>2. F(f) = [n \in 0 .. Len(names) |-> IF n = 0 THEN <<>> ELSE Followed(f[n - 1], names[n])]
      BY DEF Followed
  <2> HIDE DEF F
  <2> QED
      BY <1>4, <2>1, <2>2
<1>7. done = F(done)
  <2> HIDE DEF F
  <2> QED
      BY <1>6
<1>8. Scope!resolve(names) = done[Len(names)]
    BY DEF Scope!resolve
<1> HIDE DEF done
<1>9. \A n \in 0 .. Len(names) : done[n] = IF n = 0 THEN <<>> ELSE Followed(done[n - 1], names[n])
  <2>1. F(done) = [n \in 0 .. Len(names) |-> IF n = 0 THEN <<>> ELSE Followed(done[n - 1], names[n])]
      BY DEF Followed
  <2> HIDE DEF F
  <2> QED
      BY <1>7, <2>1
<1> HIDE DEF F
<1> DEFINE Bad == {n \in 0 .. Len(names) : done[n] \notin Plain}
<1>10. Bad = {}
  <2> SUFFICES ASSUME Bad # {} PROVE FALSE
      OBVIOUS
  <2>1. Bad \in SUBSET Nat
      BY <1>0
  <2>2. PICK m \in Bad : \A y \in Bad : m <= y
    <3> HIDE DEF Bad
    <3> QED
        BY <2>1, LeastOf
  <2>3. m \in 0 .. Len(names) /\ done[m] \notin Plain
      OBVIOUS
  <2>4. m # 0
      BY <1>0, <1>2, <1>9, <2>3
  <2>5. m \in 1 .. Len(names) /\ m - 1 \in 0 .. Len(names) /\ m - 1 \notin Bad
      BY <1>0, <2>1, <2>2, <2>3, <2>4
  <2>6. done[m - 1] \in Plain
      BY <2>5
  <2>7. done[m] = Followed(done[m - 1], names[m]) /\ names[m] \in STRING
      BY <1>0, <1>9, <2>3, <2>4, <2>5
  <2> QED
      BY <2>3, <2>6, <2>7, FollowedIsPlain
<1> QED
    BY <1>0, <1>8, <1>10

\* A path inside the workspace is plain when it is written relative to it.
LEMMA NormalisedArePlain ==
  ASSUME NEW paths \in SUBSET Seq(STRING), \A p \in paths : ~Scope!Escapes(p)
  PROVE  \A p \in Scope!normalizePaths(paths) : p \in Plain
<1> SUFFICES ASSUME NEW q \in paths
             PROVE  SubSeq(Scope!Target(q), Len(Workspace) + 1, Len(Scope!Target(q))) \in Plain
    BY DEF Scope!normalizePaths
<1> DEFINE t == Scope!Target(q)
           w == Len(Workspace)
           p == SubSeq(t, w + 1, Len(t))
<1>1. Workspace \o q \in Seq(STRING) /\ w \in Nat
    BY ServicesAssumption
<1>2. t \in Plain
    BY <1>1, ResolvedIsPlain DEF Scope!Target
<1>3. w <= Len(t)
    BY DEF Scope!Escapes, Scope!containsPath
<1> HIDE DEF t, w
<1>4. t \in Seq(STRING) /\ Len(t) \in Nat /\ \A i \in 1 .. Len(t) : t[i] # ".."
    BY <1>2 DEF Plain
<1>5. p \in Seq(STRING) /\ Len(p) = Len(t) - w /\ \A i \in 1 .. Len(t) - w : p[i] = t[w + i]
    BY <1>1, <1>3, <1>4
<1> HIDE DEF p
<1>6. \A i \in 1 .. Len(t) - w : w + i \in 1 .. Len(t)
    BY <1>1, <1>3, <1>4
<1>7. p \in Plain
    BY <1>4, <1>5, <1>6 DEF Plain
<1> QED
    BY <1>7 DEF p, t, w

\* Fields of paths, as callers write them and as runs keep them.
Written(scope) == DOMAIN scope \subseteq Scope!Fields /\ \A f \in DOMAIN scope : scope[f] \subseteq Seq(STRING)

\* What is admitted is sound: the checks of a request imply what a run promises.
SoundRun(r) ==
  /\ Written(r.scope)
  /\ r.preset = "danger-full-access" => r.confirmed
  /\ Scope!Supplied(r.scope) =>
       /\ \A f \in Scope!Fields : \A p \in r.scope[f] : Scope!Local(p)
       /\ \A target \in r.scope["reviewTargets"] :
            /\ \E n \in 0 .. Len(target) : SubSeq(target, 1, n) \in r.scope["contextReadScope"]
            /\ \A n \in 0 .. Len(target) : SubSeq(target, 1, n) \notin r.scope["excludedPaths"]
       /\ r.preset = "read-only" <=> r.scope["writeScope"] = {}

LEMMA AdmittedIsSound ==
  ASSUME NEW input, Written(input.scope), Scope!validateStartRunInput(input)
  PROVE  /\ SoundRun(Scope!Admitted(input))
         /\ Scope!Supplied(input.scope) => Scope!Supplied(Scope!Admitted(input).scope)
<1> DEFINE r      == Scope!Admitted(input)
           given  == input.scope
           scope  == Scope!Scope(given)
           preset == Scope!ValueOr(input.preset, "read-only")
<1>1. /\ r.preset = preset /\ r.confirmed = input.confirmed
      /\ r.scope = IF Scope!Supplied(given) THEN scope ELSE <<>>
    BY DEF Scope!Admitted
<1>2. preset = "danger-full-access" => r.confirmed
    BY <1>1 DEF Scope!validateStartRunInput, Scope!ValueOr
<1>3. CASE ~Scope!Supplied(given)
  <2>1. r.scope = <<>> /\ DOMAIN <<>> = {}
      BY <1>1, <1>3
  <2> QED
      BY <1>1, <1>2, <1>3, <2>1 DEF SoundRun, Written, Scope!Supplied
<1>4. CASE Scope!Supplied(given)
  <2>1. r.scope = scope /\ DOMAIN scope = Scope!Fields
      BY <1>1, <1>4 DEF Scope!Scope
  <2>2. Scope!Supplied(scope)
      BY <2>1 DEF Scope!Supplied, Scope!Fields
  <2>3. /\ \A f \in Scope!Fields : \A p \in Scope!Paths(given, f) : ~Scope!Escapes(p)
        /\ \A target \in scope["reviewTargets"] :
             /\ \E context \in scope["contextReadScope"] : Scope!containsPath(context, target)
             /\ \A excluded \in scope["excludedPaths"] : ~Scope!containsPath(excluded, target)
        /\ preset = "read-only" <=> scope["writeScope"] = {}
      BY <1>4 DEF Scope!validateStartRunInput, Scope!ScopeIsValid
  <2>4. ASSUME NEW f \in Scope!Fields PROVE \A p \in scope[f] : p \in Plain
    <3>1. Scope!Paths(given, f) \in SUBSET Seq(STRING)
        BY DEF Written, Scope!Paths
    <3>2. scope[f] = Scope!normalizePaths(Scope!Paths(given, f))
        BY DEF Scope!Scope
    <3> HIDE DEF scope, given
    <3> QED
        BY <2>3, <3>1, <3>2, NormalisedArePlain
  <2>5. Written(scope)
    <3> HIDE DEF scope
    <3> QED
        BY <2>1, <2>4 DEF Written, Plain
  <2>6. \A p \in Plain : Scope!Local(p)
      BY DEF Plain, Scope!Local
  <2>7. ASSUME NEW target \in scope["reviewTargets"]
        PROVE  /\ \E n \in 0 .. Len(target) : SubSeq(target, 1, n) \in scope["contextReadScope"]
               /\ \A n \in 0 .. Len(target) : SubSeq(target, 1, n) \notin scope["excludedPaths"]
    <3>0. /\ target \in Seq(STRING) /\ Len(target) \in Nat
          /\ \A p \in scope["contextReadScope"] : p \in Seq(STRING)
      <4> HIDE DEF scope
      <4> QED
          BY <2>4 DEF Plain, Scope!Fields
    <3>1. PICK context \in scope["contextReadScope"] : Scope!containsPath(context, target)
      <4> HIDE DEF scope
      <4> QED
          BY <2>3, <2>7
    <3>2. Len(context) \in 0 .. Len(target) /\ SubSeq(target, 1, Len(context)) = context
      <4> HIDE DEF scope
      <4> QED
          BY <3>0, <3>1 DEF Scope!containsPath
    <3>3. ASSUME NEW n \in 0 .. Len(target), SubSeq(target, 1, n) \in scope["excludedPaths"]
          PROVE  FALSE
      <4> DEFINE e == SubSeq(target, 1, n)
      <4>1. Len(e) = n /\ n <= Len(target)
          BY <3>0
      <4>2. SubSeq(target, 1, Len(e)) = e
          BY <4>1
      <4>3. Scope!containsPath(e, target)
          BY <4>1, <4>2 DEF Scope!containsPath
      <4> HIDE DEF scope, e
      <4> QED
          BY <2>3, <2>7, <3>3, <4>3 DEF e
    <3> HIDE DEF scope
    <3> QED
        BY <3>1, <3>2, <3>3
  <2> HIDE DEF scope, preset
  <2> QED
      BY <1>1, <1>2, <2>1, <2>2, <2>3, <2>4, <2>5, <2>6, <2>7 DEF SoundRun
<1> QED
    BY <1>3, <1>4

ScopeInv ==
  /\ run # None => SoundRun(run)
  /\ parent # None /\ run # None => (Scope!Supplied(parent.scope) => Scope!Supplied(run.scope))

LEMMA ScopeStep == ScopeInv /\ [Scope!ScopeNext]_scopeVars => ScopeInv'
<1> SUFFICES ASSUME ScopeInv, [Scope!ScopeNext]_scopeVars PROVE ScopeInv'
    OBVIOUS
<1>1. ASSUME NEW input \in Scope!Inputs
      PROVE  /\ Written(input.scope)
             /\ input = [scope |-> input.scope, preset |-> input.preset, confirmed |-> input.confirmed]
  <2>1. input.scope \in Scope!Offered
      BY DEF Scope!Inputs
  <2>2. PICK given \in SUBSET Scope!Fields :
          /\ input.scope \in [given -> UNION {Offers[f] : f \in given}]
          /\ \A f \in given : input.scope[f] \in Offers[f]
      BY <2>1 DEF Scope!Offered
  <2>3. \A f \in Scope!Fields : Offers[f] \subseteq SUBSET Seq(STRING)
      BY ServicesAssumption
  <2>4. Written(input.scope)
      BY <2>2, <2>3 DEF Written
  <2> QED
      BY <2>4 DEF Scope!Inputs
<1>2. ASSUME NEW input \in Scope!Inputs, Scope!StartRun(input) PROVE ScopeInv'
  <2>1. SoundRun(run') /\ parent' = None
      BY <1>1, <1>2, AdmittedIsSound DEF Scope!StartRun
  <2> QED
      BY <2>1 DEF ScopeInv
<1>3. ASSUME NEW input \in Scope!Inputs, Scope!Reply(input) PROVE ScopeInv'
  <2> DEFINE asked == Scope!Continued(input)
             given == Scope!inheritTaskScope(input.scope, run.scope)
  <2>1. SoundRun(run) /\ Written(run.scope) /\ Written(input.scope)
      BY <1>1, <1>3 DEF Scope!Reply, ScopeInv, SoundRun
  <2>2. asked.scope = given
      BY <1>1 DEF Scope!Continued
  <2>3. DOMAIN given = DOMAIN input.scope \cup DOMAIN run.scope
      BY DEF Scope!inheritTaskScope
  <2>4. Written(given)
      BY <2>1, <2>3 DEF Written, Scope!inheritTaskScope
  <2>5. Scope!Supplied(run.scope) => Scope!Supplied(given)
      BY <2>3 DEF Scope!Supplied
  <2> HIDE DEF given
  <2>6. Scope!validateStartRunInput(asked) /\ run' = Scope!Admitted(asked) /\ parent' = run
      BY <1>3 DEF Scope!Reply
  <2> HIDE DEF asked
  <2>7. SoundRun(run') /\ (Scope!Supplied(run.scope) => Scope!Supplied(run'.scope))
      BY <2>2, <2>4, <2>5, <2>6, AdmittedIsSound
  <2> QED
      BY <2>6, <2>7 DEF ScopeInv
<1>4. CASE UNCHANGED scopeVars
    BY <1>4 DEF scopeVars, ScopeInv
<1> QED
    BY <1>2, <1>3, <1>4 DEF Scope!ScopeNext

\* Whatever was supplied or inherited, through any number of replies: an
\* admitted scope is inside the workspace, reviews nothing that is excluded or
\* unreadable, and full access was confirmed in the very request that got it.
THEOREM ScopesStaySound == ServicesSpec => []ScopesHold
<1>1. ServicesInit => ScopeInv
    BY DEF ServicesInit, Scope!ScopeInit, ScopeInv
<1>2. ScopeInv /\ [ServicesNext]_servicesVars => ScopeInv'
    BY PartsApart, ScopeStep
<1>3. ScopeInv => ScopesHold
    BY DEF ScopeInv, SoundRun, ScopesHold, Scope!ScopeIsSound, Scope!RepliesStayScoped, Scope!DangerIsConfirmed
<1> QED
    BY <1>1, <1>2, <1>3, PTL DEF ServicesSpec

-----------------------------------------------------------------------------
(* EventMonitoring                                                         *)

\* Fewer numbers than places leave one of the places free.
LEMMA FirstFree ==
  ASSUME NEW seq \in Int, NEW p \in SUBSET Int, IsFiniteSet(p),
         NEW k \in Nat, Cardinality(p) <= k
  PROVE  \E n \in seq .. seq + k : seq + 1 .. n \subseteq p /\ n + 1 \notin p
<1> DEFINE Gone == {m \in Nat : seq + m + 1 \notin p}
<1>1. \E m \in 0 .. k : seq + m + 1 \notin p
  <2> SUFFICES ASSUME \A m \in 0 .. k : seq + m + 1 \in p PROVE FALSE
      OBVIOUS
  <2> DEFINE T == seq + 1 .. seq + k + 1
  <2>1. T \in SUBSET p
    <3> SUFFICES ASSUME NEW x \in T PROVE x \in p
        OBVIOUS
    <3>1. x - seq - 1 \in 0 .. k /\ seq + (x - seq - 1) + 1 = x
        OBVIOUS
    <3> QED
        BY <3>1
  <2>2. Cardinality(T) = k + 1
    <3>1. seq + 1 \in Int /\ seq + k + 1 \in Int /\ ~(seq + 1 > seq + k + 1)
          /\ seq + k + 1 - (seq + 1) + 1 = k + 1
        OBVIOUS
    <3> QED
        BY <3>1, FS_Interval
  <2> HIDE DEF T
  <2>3. Cardinality(T) <= Cardinality(p) /\ Cardinality(p) \in Nat
      BY <2>1, FS_Subset, FS_CardinalityType
  <2> QED
      BY <2>2, <2>3
<1>2. Gone \in SUBSET Nat /\ Gone # {}
  <2>1. PICK m \in 0 .. k : seq + m + 1 \notin p
      BY <1>1
  <2>2. m \in Gone
      BY <2>1
  <2> HIDE DEF Gone
  <2>3. Gone # {}
      BY <2>2
  <2> QED
      BY <2>3 DEF Gone
<1>3. PICK m \in Gone : \A y \in Gone : m <= y
  <2> HIDE DEF Gone
  <2> QED
      BY <1>2, LeastOf
<1>4. m \in Nat /\ m <= k /\ seq + m + 1 \notin p
    BY <1>1, <1>3
<1>5. ASSUME NEW x \in seq + 1 .. seq + m PROVE x \in p
  <2>1. x - seq - 1 \in Nat /\ ~(m <= x - seq - 1) /\ seq + (x - seq - 1) + 1 = x
      BY <1>4
  <2>2. x - seq - 1 \notin Gone
    <3> HIDE DEF Gone
    <3> QED
        BY <1>3, <2>1
  <2> QED
      BY <2>1, <2>2
<1> QED
    BY <1>4, <1>5

LEMMA AdvanceIs ==
  ASSUME NEW seq \in Int, NEW p \in SUBSET Int, IsFiniteSet(p), Cardinality(p) <= MaxPendingEvents
  PROVE  LET n == Events!advanceContiguous(seq, p)
         IN  /\ n \in Int /\ seq <= n
             /\ \A x \in Int : seq < x /\ x <= n => x \in p
             /\ n + 1 \notin p
<1> DEFINE Ok(n) == seq + 1 .. n \subseteq p /\ n + 1 \notin p
           R     == seq .. seq + MaxPendingEvents
           n     == CHOOSE n \in R : Ok(n)
<1>1. MaxPendingEvents \in Nat
    BY ServicesAssumption
<1>2. \E m \in R : Ok(m)
    BY <1>1, FirstFree
<1>3. n \in R /\ Ok(n)
  <2> HIDE DEF R, Ok
  <2> QED
      BY <1>2
<1>4. n = Events!advanceContiguous(seq, p)
    BY DEF Events!advanceContiguous
<1> HIDE DEF n
<1>5. n \in Int /\ seq <= n
    BY <1>1, <1>3
<1>6. ASSUME NEW x \in Int, seq < x, x <= n PROVE x \in p
  <2>1. x \in seq + 1 .. n
      BY <1>5, <1>6
  <2> QED
      BY <1>3, <2>1
<1> QED
    BY <1>3, <1>4, <1>5, <1>6

\* What the sequencer keeps.
Sequenced ==
  /\ log \in Nat /\ durable \in Int /\ Events!Unknown <= durable /\ awaiting \in BOOLEAN
  /\ pendingEvents \in SUBSET Int /\ IsFiniteSet(pendingEvents)
  /\ durable = Events!Unknown => awaiting
  /\ pendingEvents # {} => awaiting
  /\ \A q \in pendingEvents : q > durable /\ q <= log
  /\ Cardinality(pendingEvents) <= MaxPendingEvents
  /\ durable <= log

\* The reactions to an event: what they leave of the sequencer.
LEMMA ObserveIs ==
  ASSUME Sequenced, NEW seq \in Nat, seq # 0
  PROVE  LET o == Events!observe(seq)
         IN  \/ /\ o.kind = "duplicate"
                /\ o.durable = durable /\ o.awaiting = awaiting /\ o.pending = pendingEvents
             \/ /\ o.kind = "overflow"
                /\ o.durable = durable /\ o.awaiting = TRUE /\ o.pending = {}
             \/ /\ o.kind \in {"history", "gap"} /\ seq > durable
                /\ seq \notin pendingEvents /\ Cardinality(pendingEvents) < MaxPendingEvents
                /\ o.durable = durable /\ o.awaiting = TRUE /\ o.pending = pendingEvents \cup {seq}
             \/ /\ o.kind = "progress" /\ seq > durable
                /\ o.durable = seq /\ o.awaiting = awaiting /\ o.pending = {}
<1> DEFINE o == Events!observe(seq)
           M == MaxPendingEvents
           C == Events!Cardinality(pendingEvents)
<1>0. C \in Nat /\ C = Cardinality(pendingEvents) /\ M \in Nat \ {0}
    BY Counting, FS_CardinalityType, ServicesAssumption DEF Sequenced
<1>1. CASE seq \in pendingEvents \/ seq <= durable
  <2>1. ~(seq \notin pendingEvents /\ seq > durable)
      BY <1>1 DEF Sequenced
  <2>2. o = [kind |-> "duplicate", durable |-> durable, awaiting |-> awaiting, pending |-> pendingEvents]
      BY <1>1, <2>1 DEF Events!observe
  <2> HIDE DEF o
  <2> QED
      BY <2>2 DEF o
<1>2. CASE seq \notin pendingEvents /\ seq > durable /\ C >= M
  <2>1. ~(seq \in pendingEvents \/ seq <= durable) /\ ~(C < M)
      BY <1>0, <1>2 DEF Sequenced
  <2>2. o = [kind |-> "overflow", durable |-> durable, awaiting |-> TRUE, pending |-> {}]
      BY <1>2, <2>1 DEF Events!observe
  <2> HIDE DEF o
  <2> QED
      BY <2>2 DEF o
<1>3. CASE seq \notin pendingEvents /\ seq > durable /\ C < M
  <2>1. ~(seq \in pendingEvents \/ seq <= durable) /\ ~(C >= M)
      BY <1>0, <1>3 DEF Sequenced
  <2> DEFINE waits == durable = Events!Unknown \/ awaiting
             n == Events!advanceContiguous(durable, pendingEvents \cup {seq})
  <2>2. CASE waits
    <3>1. awaiting = TRUE
        BY <2>2 DEF Sequenced
    <3>2. o = [kind |-> "history", durable |-> durable, awaiting |-> awaiting, pending |-> pendingEvents \cup {seq}]
        BY <1>3, <2>1, <2>2 DEF Events!observe
    <3> HIDE DEF o
    <3> QED
        BY <1>0, <1>3, <3>1, <3>2 DEF o
  <2>3. CASE ~waits /\ seq # durable + 1
    <3>2. o = [kind |-> "gap", durable |-> durable, awaiting |-> TRUE, pending |-> pendingEvents \cup {seq}]
        BY <1>3, <2>1, <2>3 DEF Events!observe
    <3> HIDE DEF o
    <3> QED
        BY <1>0, <1>3, <3>2 DEF o
  <2>4. CASE ~waits /\ seq = durable + 1
    <3>1. o = [kind |-> "progress", durable |-> n, awaiting |-> awaiting,
               pending |-> {q \in pendingEvents \cup {seq} : q > n}]
        BY <1>3, <2>1, <2>4 DEF Events!observe
    <3>2. pendingEvents = {}
        BY <2>4 DEF Sequenced
    <3>3. pendingEvents \cup {seq} = {seq}
        BY <3>2
    <3>4. IsFiniteSet({seq}) /\ Cardinality({seq}) <= M
      <4>1. IsFiniteSet({} \cup {seq}) /\ Cardinality({} \cup {seq}) = 1
          BY FS_EmptySet, FS_AddElement
      <4>2. {} \cup {seq} = {seq}
          OBVIOUS
      <4> QED
          BY <1>0, <4>1, <4>2
    <3>5. /\ n \in Int /\ durable <= n
          /\ \A x \in Int : durable < x /\ x <= n => x \in {seq}
          /\ n + 1 \notin {seq}
        BY <3>3, <3>4, AdvanceIs DEF Sequenced
    <3> HIDE DEF n
    <3>6. n = seq
      <4>1. durable \in Int
          BY DEF Sequenced
      <4>2. n # durable
          BY <2>4, <3>5, <4>1
      <4>3. n > seq => seq + 1 \in {seq}
          BY <2>4, <3>5, <4>1
      <4> QED
          BY <2>4, <3>5, <4>1, <4>2, <4>3
    <3>7. {q \in {seq} : q > n} = {}
        BY <3>6
    <3>8. o.kind = "progress" /\ o.durable = n /\ o.awaiting = awaiting
          /\ o.pending = {q \in {seq} : q > n}
      <4> HIDE DEF o
      <4> QED
          BY <3>1, <3>3
    <3> HIDE DEF o
    <3> QED
        BY <1>3, <3>6, <3>7, <3>8 DEF o
  <2> QED
      BY <2>2, <2>3, <2>4
<1>4. \/ seq \in pendingEvents \/ seq <= durable
      \/ seq \notin pendingEvents /\ seq > durable /\ C >= M
      \/ seq \notin pendingEvents /\ seq > durable /\ C < M
  <2>1. durable \in Int
      BY DEF Sequenced
  <2> HIDE DEF C, M
  <2> QED
      BY <1>0, <2>1
<1> HIDE DEF C, M
<1> QED
    BY <1>1, <1>2, <1>3, <1>4

\* What a new baseline leaves of the sequencer, and where the baseline comes from.
LEMMA RebaseIs ==
  ASSUME Sequenced, NEW seq \in Nat, seq <= log
  PROVE  LET b == Events!rebase(seq)
         IN  /\ b.durable \in Nat /\ b.durable <= log
             /\ b.durable = seq \/ b.durable \in pendingEvents
             /\ b.pending \in SUBSET pendingEvents /\ \A q \in b.pending : q > b.durable
             /\ b.gap = (b.pending # {})
<1> DEFINE n    == Events!advanceContiguous(seq, pendingEvents)
           rest == {q \in pendingEvents : q > n}
           b    == Events!rebase(seq)
<1>1. /\ n \in Int /\ seq <= n
      /\ \A x \in Int : seq < x /\ x <= n => x \in pendingEvents
    BY AdvanceIs DEF Sequenced
<1>2. b = [durable |-> n, pending |-> rest, gap |-> rest # {}]
    BY DEF Events!rebase
<1>3. b.durable = n /\ b.pending = rest /\ b.gap = (rest # {})
  <2> HIDE DEF rest, n, b
  <2> QED
      BY <1>2
<1> HIDE DEF n, b
<1>4. n = seq \/ n \in pendingEvents
    BY <1>1
<1>5. n <= log
    BY <1>4 DEF Sequenced
<1>6. rest \in SUBSET pendingEvents /\ \A q \in rest : q > n
    OBVIOUS
<1> HIDE DEF rest
<1> QED
    BY <1>1, <1>3, <1>4, <1>5, <1>6 DEF b

\* The notices there are.
Notices ==
  {n \in [kind : {"reconcile", "gap", "polling", "restored", "rebased"},
          stream : Events!Streams \cup {"none"}, waiter : Events!Streams \cup {"none"}] :
     /\ n.kind \in {"reconcile", "polling"} => n.waiter \in Events!Streams /\ n.stream = n.waiter
     /\ n.kind = "restored" => n.stream \in Events!Streams /\ n.waiter = "none"}

\* What a pump awaits where it is.
Suits(n, place) ==
  \/ place = "reporting" /\ n.kind = "gap"
  \/ place = "reconciling" /\ n.kind = "reconcile"
  \/ place \in {"ending", "closing"} /\ n.kind = "polling"

EventTypes ==
  /\ work \in {"none", "running", "over"} /\ lastSeq \in Nat /\ lastSeq <= log /\ sent \in Nat
  /\ link \in [Events!Streams -> Events!Links] /\ degraded \in SUBSET Events!Streams
  /\ tail \in Seq(Notices) /\ listed \in BOOLEAN /\ (listed => tail # <<>>)
  /\ covered \in Nat /\ told \in [Events!Streams -> {"ok", "polling"}]
  /\ drops \in Nat /\ failures \in Nat

\* A pump awaits one notice at most, and one of the kind that belongs to its place.
Waited ==
  /\ \A i \in 1 .. Len(tail) : tail[i].waiter # "none" => Suits(tail[i], link[tail[i].waiter])
  /\ \A i, j \in 1 .. Len(tail) : tail[i].waiter = tail[j].waiter /\ tail[i].waiter # "none" => i = j

\* "restored" is queued before the next "polling-required" of the stream, and
\* is gone when that was answered.
RestoringAt(s) ==
  /\ s \in degraded => link[s] \in {"down", "ending", "closing", "dead"}
  /\ link[s] \in {"ending", "closing"} => s \in degraded
  /\ link[s] = "down" /\ s \in degraded => told[s] = "polling" /\ ~Events!Queued("restored", s)
  /\ s \in degraded =>
       \A i, j \in 1 .. Len(tail) :
         tail[i].kind = "restored" /\ tail[i].stream = s /\ tail[j].waiter = s => i < j
  /\ told[s] = "polling" /\ s \notin degraded => Events!Queued("restored", s) \/ failures > 0

Restoring == \A s \in Events!Streams : RestoringAt(s)

\* While the sink works on a notice it has listed the runs for, what is pending
\* is in those runs, or is older than the run: unless it came since.
Summarised ==
  work = "running" /\ listed /\ (link["mux"] = "up" \/ tail[1].waiter = "mux") =>
    \A q \in pendingEvents : q <= lastSeq \/ q <= covered

Ended ==
  \A s \in Events!Streams :
    /\ link[s] = "closing" => drops + failures >= 1
    /\ link[s] = "dead" => drops + failures >= 2

EventInv ==
  /\ EventTypes /\ Sequenced /\ Waited /\ Restoring
  /\ Summarised /\ Events!BaselineIsPublished /\ Ended

\* The queue moves on by k notices, and a pump is told to wait for its last.
Moves(k, s) ==
  /\ tail' \in Seq(Notices) /\ k \in {0, 1} /\ k <= Len(tail) /\ Len(tail) - k <= Len(tail')
  /\ \A i \in 1 .. Len(tail) - k : tail'[i] = tail[i + k]
  /\ \A i \in Len(tail) - k + 1 .. Len(tail') :
       tail'[i].waiter # "none" => i = Len(tail') /\ tail'[i].waiter = s /\ Suits(tail'[i], link'[s])
  /\ \A r \in Events!Streams : r # s => link'[r] = link[r]
  /\ \A i \in k + 1 .. Len(tail) : tail[i].waiter = s => s = "none"

LEMMA MovesKeepWaited ==
  ASSUME EventTypes, Waited, NEW k, NEW s, Moves(k, s)
  PROVE  Waited'
<1> DEFINE L == Len(tail)
           m == Len(tail')
<1>1. L \in Nat /\ m \in Nat /\ k \in Int
    BY DEF EventTypes, Moves
<1>2. \A i \in 1 .. L : tail[i].waiter \in Events!Streams \cup {"none"}
    BY DEF EventTypes, Notices
<1>3. \A i \in 1 .. m : i \in 1 .. L - k \/ i \in L - k + 1 .. m
    BY <1>1
<1>4. \A i \in 1 .. L - k : i + k \in 1 .. L /\ i + k \in k + 1 .. L /\ tail'[i] = tail[i + k]
    BY <1>1 DEF Moves
<1>5. ASSUME NEW i \in 1 .. m, tail'[i].waiter # "none"
      PROVE  Suits(tail'[i], link'[tail'[i].waiter])
  <2>1. CASE i \in 1 .. L - k
    <3>1. tail[i + k].waiter # s /\ tail[i + k].waiter \in Events!Streams
        BY <1>2, <1>4, <1>5, <2>1 DEF Moves
    <3>2. Suits(tail[i + k], link[tail[i + k].waiter])
        BY <1>4, <1>5, <2>1 DEF Waited
    <3> QED
        BY <1>4, <2>1, <3>1, <3>2 DEF Moves
  <2>2. CASE i \in L - k + 1 .. m
      BY <1>5, <2>2 DEF Moves
  <2> QED
      BY <1>3, <2>1, <2>2
<1>6. ASSUME NEW i \in 1 .. m, NEW j \in 1 .. m, tail'[i].waiter = tail'[j].waiter, tail'[i].waiter # "none"
      PROVE  i = j
  <2>1. CASE i \in 1 .. L - k /\ j \in 1 .. L - k
    <3>1. i + k = j + k
        BY <1>4, <1>6, <2>1 DEF Waited
    <3> QED
        BY <1>1, <3>1
  <2>2. CASE i \in 1 .. L - k /\ j \in L - k + 1 .. m
    <3>1. tail'[j].waiter = s
        BY <1>6, <2>2 DEF Moves
    <3>2. tail[i + k].waiter # s
        BY <1>4, <1>6, <2>2, <3>1 DEF Moves
    <3> QED
        BY <1>4, <1>6, <2>2, <3>1, <3>2
  <2>3. CASE i \in L - k + 1 .. m /\ j \in 1 .. L - k
    <3>1. tail'[i].waiter = s
        BY <1>6, <2>3 DEF Moves
    <3>2. tail[j + k].waiter # s
        BY <1>4, <1>6, <2>3, <3>1 DEF Moves
    <3> QED
        BY <1>4, <1>6, <2>3, <3>1, <3>2
  <2>4. CASE i \in L - k + 1 .. m /\ j \in L - k + 1 .. m
      BY <1>6, <2>4 DEF Moves
  <2> QED
      BY <1>3, <2>1, <2>2, <2>3, <2>4
<1> QED
    BY <1>5, <1>6 DEF Waited

\* What such a move does to the streams that are down, and to what the sink
\* was told of them.
Tells(k, s) ==
  /\ \A i \in Len(tail) - k + 1 .. Len(tail') :
       tail'[i].kind = "restored" => tail'[i].stream = s /\ s \notin degraded'
  /\ \A r \in Events!Streams : r # s => (r \in degraded' <=> r \in degraded)
  /\ \A r \in Events!Streams : r # s /\ told'[r] # told[r] => Events!Queued("restored", r)
  /\ s \in Events!Streams =>
       /\ s \in degraded' => link'[s] \in {"down", "ending", "closing", "dead"}
       /\ link'[s] \in {"ending", "closing"} => s \in degraded'
       /\ link'[s] = "down" /\ s \in degraded' =>
            told'[s] = "polling" /\ \A i \in k + 1 .. Len(tail) : ~(tail[i].kind = "restored" /\ tail[i].stream = s)
  /\ \A r \in Events!Streams : told'[r] = "polling" /\ r \notin degraded' =>
       \/ failures' > 0
       \/ \E i \in 1 .. Len(tail') : tail'[i].kind = "restored" /\ tail'[i].stream = r
       \/ told[r] = "polling" /\ r \notin degraded /\ (k = 1 => ~(tail[1].kind = "restored" /\ tail[1].stream = r))
  /\ failures' \in Nat /\ failures <= failures'

LEMMA QueuedIs ==
  \A kind, s : Events!Queued(kind, s) <=> \E i \in DOMAIN tail : tail[i].kind = kind /\ tail[i].stream = s
BY DEF Events!Queued

LEMMA MovesKeepRestoring ==
  ASSUME EventTypes, Restoring, NEW k, NEW s, Moves(k, s), Tells(k, s)
  PROVE  Restoring'
<1> DEFINE L == Len(tail)
           m == Len(tail')
<1>0. L \in Nat /\ m \in Nat /\ k \in Int /\ L - k <= m /\ k >= 0
    BY DEF EventTypes, Moves
<1>1. k \in {0, 1} /\ DOMAIN tail = 1 .. L /\ DOMAIN tail' = 1 .. m
    BY DEF EventTypes, Moves
<1>2. \A i \in 1 .. m : i \in 1 .. L - k \/ i \in L - k + 1 .. m
    BY <1>0
<1>3. \A i \in 1 .. L - k : i + k \in 1 .. L /\ i + k \in k + 1 .. L /\ tail'[i] = tail[i + k]
    BY <1>0 DEF Moves
<1> SUFFICES ASSUME NEW r \in Events!Streams PROVE RestoringAt(r)'
    BY DEF Restoring
<1>4. /\ r \in degraded => link[r] \in {"down", "ending", "closing", "dead"}
      /\ link[r] \in {"ending", "closing"} => r \in degraded
      /\ link[r] = "down" /\ r \in degraded => told[r] = "polling" /\ ~Events!Queued("restored", r)
      /\ r \in degraded =>
           \A i, j \in 1 .. L : tail[i].kind = "restored" /\ tail[i].stream = r /\ tail[j].waiter = r => i < j
      /\ told[r] = "polling" /\ r \notin degraded => Events!Queued("restored", r) \/ failures > 0
    BY DEF Restoring, RestoringAt
<1>5. r \in degraded' => link'[r] \in {"down", "ending", "closing", "dead"}
  <2>1. CASE r = s
      BY <2>1 DEF Tells
  <2>2. CASE r # s
      BY <1>4, <2>2 DEF Tells, Moves
  <2> QED
      BY <2>1, <2>2
<1>6. link'[r] \in {"ending", "closing"} => r \in degraded'
  <2>1. CASE r = s
      BY <2>1 DEF Tells
  <2>2. CASE r # s
      BY <1>4, <2>2 DEF Tells, Moves
  <2> QED
      BY <2>1, <2>2
<1>7. ASSUME link'[r] = "down", r \in degraded'
      PROVE  told'[r] = "polling" /\ \A i \in 1 .. m : ~(tail'[i].kind = "restored" /\ tail'[i].stream = r)
  <2>1. \A i \in L - k + 1 .. m : ~(tail'[i].kind = "restored" /\ tail'[i].stream = r)
      BY <1>7 DEF Tells
  <2>2. CASE r = s
    <3>1. told'[r] = "polling" /\ \A i \in k + 1 .. L : ~(tail[i].kind = "restored" /\ tail[i].stream = r)
        BY <1>7, <2>2 DEF Tells
    <3> QED
        BY <1>2, <1>3, <2>1, <3>1
  <2>3. CASE r # s
    <3>1. told[r] = "polling" /\ ~Events!Queued("restored", r)
        BY <1>4, <1>7, <2>3 DEF Tells, Moves
    <3>2. told'[r] = told[r]
        BY <2>3, <3>1 DEF Tells
    <3>3. \A i \in 1 .. L : ~(tail[i].kind = "restored" /\ tail[i].stream = r)
        BY <1>1, <3>1, QueuedIs
    <3> QED
        BY <1>2, <1>3, <2>1, <3>1, <3>2, <3>3
  <2> QED
      BY <2>2, <2>3
<1>8. ASSUME r \in degraded', NEW i \in 1 .. m, NEW j \in 1 .. m,
             tail'[i].kind = "restored", tail'[i].stream = r, tail'[j].waiter = r
      PROVE  i < j
  <2>1. i \in 1 .. L - k
      BY <1>2, <1>8 DEF Tells
  <2>2. CASE j \in L - k + 1 .. m
      BY <1>0, <2>1, <2>2
  <2>3. CASE j \in 1 .. L - k
    <3>0. r # "none"
        BY DEF Events!Streams
    <3>1. r # s
        BY <1>3, <1>8, <2>3, <3>0 DEF Moves
    <3>2. i + k < j + k
        BY <1>3, <1>4, <1>8, <2>1, <2>3, <3>1 DEF Tells
    <3> QED
        BY <1>0, <3>2
  <2> QED
      BY <1>2, <2>2, <2>3
<1>9. ASSUME told'[r] = "polling", r \notin degraded', ~(failures' > 0)
      PROVE  \E i \in 1 .. m : tail'[i].kind = "restored" /\ tail'[i].stream = r
  <2>0. ~(failures > 0)
      BY <1>9 DEF Tells, EventTypes
  <2>1. CASE told[r] = "polling" /\ r \notin degraded /\ (k = 1 => ~(tail[1].kind = "restored" /\ tail[1].stream = r))
    <3>1. PICK i \in 1 .. L : tail[i].kind = "restored" /\ tail[i].stream = r
        BY <1>1, <1>4, <2>0, <2>1, QueuedIs
    <3>2. k = 1 => i # 1
        BY <2>1, <3>1
    <3>3. i - k \in 1 .. L - k /\ (i - k) + k = i
        BY <1>0, <1>1, <3>2
    <3>4. i - k \in 1 .. m
        BY <1>0, <3>3
    <3> QED
        BY <1>3, <3>1, <3>3, <3>4
  <2> QED
      BY <1>9, <2>1 DEF Tells
<1>10. \A kind : Events!Queued(kind, r)' <=> \E i \in 1 .. m : tail'[i].kind = kind /\ tail'[i].stream = r
    BY <1>1 DEF Events!Queued
<1> QED
    BY <1>1, <1>5, <1>6, <1>7, <1>8, <1>9, <1>10 DEF RestoringAt

\* A pump that is elsewhere awaits nothing.
LEMMA NotAwaited ==
  ASSUME EventTypes, Waited, NEW s \in Events!Streams,
         link[s] \notin {"reporting", "reconciling", "ending", "closing"}
  PROVE  \A i \in 1 .. Len(tail) : tail[i].waiter # s
<1> SUFFICES ASSUME NEW i \in 1 .. Len(tail), tail[i].waiter = s PROVE FALSE
    OBVIOUS
<1>1. s # "none"
    BY DEF Events!Streams
<1>2. Suits(tail[i], link[s])
    BY <1>1 DEF Waited
<1> QED
    BY <1>2 DEF Suits

LEMMA PutLast ==
  ASSUME NEW S, NEW t \in Seq(S), NEW e \in S
  PROVE  /\ Append(t, e) \in Seq(S) /\ Len(Append(t, e)) = Len(t) + 1 /\ Append(t, e) # <<>>
         /\ \A i \in 1 .. Len(t) : Append(t, e)[i] = t[i]
         /\ Append(t, e)[Len(t) + 1] = e
OBVIOUS

\* What the head of the queue is, and what is behind it.
LEMMA HeadIs ==
  ASSUME EventTypes, Waited, tail # <<>>
  PROVE  /\ Len(tail) \in Nat /\ Len(tail) >= 1 /\ Head(tail) = tail[1] /\ tail[1] \in Notices
         /\ Tail(tail) \in Seq(Notices) /\ Len(Tail(tail)) = Len(tail) - 1
         /\ \A i \in 1 .. Len(tail) - 1 : Tail(tail)[i] = tail[i + 1]
         /\ \A i \in 2 .. Len(tail) : tail[i].waiter = tail[1].waiter => tail[1].waiter = "none"
         /\ tail[1].waiter \in Events!Streams \cup {"none"}
         /\ tail[1].waiter # "none" => Suits(tail[1], link[tail[1].waiter])
<1>0. tail \in Seq(Notices)
    BY DEF EventTypes
<1>1. Len(tail) \in Nat /\ Len(tail) >= 1 /\ Head(tail) = tail[1] /\ tail[1] \in Notices
    BY <1>0
<1>2. Tail(tail) \in Seq(Notices) /\ Len(Tail(tail)) = Len(tail) - 1
    BY <1>0
<1>3. \A i \in 1 .. Len(tail) - 1 : Tail(tail)[i] = tail[i + 1]
    BY <1>0
<1>4. 1 \in 1 .. Len(tail) /\ \A i \in 2 .. Len(tail) : i \in 1 .. Len(tail) /\ i # 1
    BY <1>1
<1> QED
    BY <1>1, <1>2, <1>3, <1>4 DEF Waited, Notices

\* The queue without its head, and with what its answer adds.
LEMMA HeadGone ==
  ASSUME EventTypes, Waited, tail # <<>>,
         NEW a \in Notices, NEW b \in Notices, NEW g \in BOOLEAN
  PROVE  /\ tail' = Tail(tail) =>
              /\ tail' \in Seq(Notices) /\ Len(tail') = Len(tail) - 1
              /\ \A i \in 1 .. Len(tail) - 1 : tail'[i] = tail[i + 1]
         /\ tail' = Append(Tail(tail), a) =>
              /\ tail' \in Seq(Notices) /\ Len(tail') = Len(tail) /\ tail'[Len(tail')] = a
              /\ \A i \in 1 .. Len(tail) - 1 : tail'[i] = tail[i + 1]
         /\ tail' = Tail(tail) \o <<a>> \o (IF g THEN <<b>> ELSE <<>>) =>
              /\ tail' \in Seq(Notices) /\ Len(tail) <= Len(tail')
              /\ \A i \in 1 .. Len(tail) - 1 : tail'[i] = tail[i + 1]
              /\ \A i \in Len(tail) .. Len(tail') : tail'[i] \in {a, b}
<1> DEFINE rest == Tail(tail)
           l    == Len(tail) - 1
<1>1. rest \in Seq(Notices) /\ Len(rest) = l /\ l \in Nat /\ \A i \in 1 .. l : rest[i] = tail[i + 1]
    BY HeadIs
<1>2. Len(tail) = l + 1
    BY HeadIs
<1> HIDE DEF rest, l
<1>3. ASSUME tail' = Append(rest, a)
      PROVE  /\ tail' \in Seq(Notices) /\ Len(tail') = l + 1 /\ tail'[Len(tail')] = a
             /\ \A i \in 1 .. l : tail'[i] = tail[i + 1]
    BY <1>1, <1>3, PutLast
<1>4. ASSUME tail' = rest \o <<a>> \o (IF g THEN <<b>> ELSE <<>>)
      PROVE  /\ tail' \in Seq(Notices) /\ l + 1 <= Len(tail')
             /\ \A i \in 1 .. l : tail'[i] = tail[i + 1]
             /\ \A i \in l + 1 .. Len(tail') : tail'[i] \in {a, b}
  <2> DEFINE q == rest \o <<a>>
  <2>1. q \in Seq(Notices) /\ Len(q) = l + 1 /\ q[l + 1] = a /\ \A i \in 1 .. l : q[i] = rest[i]
      BY <1>1
  <2>2. q \o <<>> = q
      BY <2>1
  <2>3. /\ q \o <<b>> \in Seq(Notices) /\ Len(q \o <<b>>) = l + 2 /\ (q \o <<b>>)[l + 2] = b
        /\ \A i \in 1 .. l + 1 : (q \o <<b>>)[i] = q[i]
    <3> HIDE DEF q
    <3> QED
        BY <1>1, <2>1
  <2> HIDE DEF q
  <2>4. \A i \in 1 .. l : i \in 1 .. l + 1
      BY <1>1
  <2>5. CASE g
    <3>1. tail' = q \o <<b>>
        BY <1>4, <2>5 DEF q
    <3>2. \A i \in l + 1 .. l + 2 : i = l + 1 \/ i = l + 2
        BY <1>1
    <3>3. l + 1 \in 1 .. l + 1 /\ l + 1 <= l + 2
        BY <1>1
    <3> QED
        BY <1>1, <2>1, <2>3, <2>4, <3>1, <3>2, <3>3
  <2>6. CASE ~g
    <3>1. tail' = q
        BY <1>4, <2>2, <2>6 DEF q
    <3>2. \A i \in l + 1 .. l + 1 : i = l + 1
        BY <1>1
    <3>3. l + 1 <= l + 1
        BY <1>1
    <3> QED
        BY <1>1, <2>1, <3>1, <3>2, <3>3
  <2> QED
      BY <2>5, <2>6
<1> QED
    BY <1>1, <1>2, <1>3, <1>4 DEF rest, l

\* A pump comes to wait for a notice it has put into the queue.
LEMMA Enqueues ==
  ASSUME EventTypes, Waited, Restoring, NEW s \in Events!Streams,
         link[s] \in {"down", "opened", "up"},
         NEW n \in Notices, n.waiter = s, n.kind # "restored",
         NEW place \in Events!Links, Suits(n, place),
         link' = [link EXCEPT ![s] = place], tail' = Append(tail, n),
         told' = told, failures' = failures,
         \/ degraded' = degraded \cup {s} /\ place \in {"ending", "closing"}
         \/ degraded' = degraded /\ s \notin degraded /\ place \in {"reporting", "reconciling"}
  PROVE  /\ Waited' /\ Restoring'
         /\ tail' \in Seq(Notices) /\ tail' # <<>> /\ (tail # <<>> => tail'[1] = tail[1])
         /\ link' \in [Events!Streams -> Events!Links]
<1>1. /\ tail \in Seq(Notices) /\ link \in [Events!Streams -> Events!Links]
      /\ Len(tail) \in Nat /\ failures \in Nat
    BY DEF EventTypes
<1>2. /\ tail' \in Seq(Notices) /\ Len(tail') = Len(tail) + 1 /\ tail' # <<>>
      /\ \A i \in 1 .. Len(tail) : tail'[i] = tail[i]
      /\ tail'[Len(tail) + 1] = n
    BY <1>1, PutLast
<1>3. tail # <<>> => tail'[1] = tail[1]
    BY <1>1, <1>2
<1>4. link' \in [Events!Streams -> Events!Links] /\ link'[s] = place /\ \A r \in Events!Streams : r # s => link'[r] = link[r]
    BY <1>1
<1>5. \A i \in 1 .. Len(tail) : tail[i].waiter # s
    BY NotAwaited
<1>6. \A i \in Len(tail) - 0 + 1 .. Len(tail') : i = Len(tail') /\ tail'[i] = n
    BY <1>1, <1>2
<1>7. Moves(0, s)
  <2>1. 0 <= Len(tail) /\ Len(tail) - 0 <= Len(tail')
      BY <1>1, <1>2
  <2>2. \A i \in 1 .. Len(tail) - 0 : tail'[i] = tail[i + 0]
      BY <1>1, <1>2
  <2>3. \A i \in 0 + 1 .. Len(tail) : i \in 1 .. Len(tail)
      OBVIOUS
  <2> QED
      BY <1>2, <1>4, <1>5, <1>6, <2>1, <2>2, <2>3 DEF Moves
<1>8. Tells(0, s)
  <2>1. s \in degraded' => place \in {"ending", "closing"}
      OBVIOUS
  <2>2. place \in {"ending", "closing"} => s \in degraded'
      OBVIOUS
  <2>3. failures' \in Nat /\ failures <= failures'
      BY <1>1
  <2>4. \A r \in Events!Streams : r \notin degraded' => r \notin degraded
      OBVIOUS
  <2> QED
      BY <1>4, <1>6, <2>1, <2>2, <2>3, <2>4 DEF Tells
<1> QED
    BY <1>2, <1>3, <1>4, <1>7, <1>8, MovesKeepWaited, MovesKeepRestoring

\* The steps that leave the queue and the pumps alone.
LEMMA QueueUntouched ==
  ASSUME Waited, Restoring, UNCHANGED <<tail, link, degraded, told, failures>>
  PROVE  Waited' /\ Restoring'
<1>1. \A kind, s : Events!Queued(kind, s)' <=> Events!Queued(kind, s)
    BY DEF Events!Queued
<1>2. ASSUME NEW s \in Events!Streams PROVE RestoringAt(s)'
    BY <1>1 DEF Restoring, RestoringAt
<1> QED
    BY <1>2 DEF Waited, Restoring

LEMMA HostStep ==
  ASSUME EventInv, Events!EventDurable \/ Events!RunStarts \/ Events!Poll \/ Events!SinkLists
  PROVE  EventInv'
<1> USE DEF EventInv, Events!session, Events!sequencer, Events!sink, Events!counts
<1>1. /\ UNCHANGED <<link, sent, durable, awaiting, pendingEvents, degraded, tail, told, drops, failures>>
      /\ Waited' /\ Restoring' /\ Ended'
  <2>1. UNCHANGED <<link, sent, durable, awaiting, pendingEvents, degraded, tail, told, drops, failures>>
      BY DEF Events!EventDurable, Events!RunStarts, Events!Poll, Events!SinkLists
  <2> QED
      BY <2>1, QueueUntouched DEF Ended
<1>2. CASE Events!EventDurable
  <2>1. log \in Nat /\ log' = log + 1 /\ UNCHANGED <<work, lastSeq, listed, covered>>
      BY <1>2 DEF Events!EventDurable, Sequenced
  <2>2. EventTypes'
      BY <1>1, <2>1 DEF EventTypes
  <2>3. Sequenced'
      BY <1>1, <2>1 DEF Sequenced
  <2> QED
      BY <1>1, <2>1, <2>2, <2>3 DEF Summarised, Events!BaselineIsPublished
<1>3. CASE Events!RunStarts
  <2>1. log \in Nat /\ log' = log + 1 /\ covered' = log /\ work' = "running" /\ UNCHANGED <<lastSeq, listed>>
      BY <1>3 DEF Events!RunStarts, Sequenced
  <2>2. EventTypes'
      BY <1>1, <2>1 DEF EventTypes
  <2>3. Sequenced'
      BY <1>1, <2>1 DEF Sequenced
  <2>4. Summarised' /\ Events!BaselineIsPublished'
      BY <1>1, <2>1 DEF Sequenced, Summarised, Events!BaselineIsPublished
  <2> QED
      BY <1>1, <2>2, <2>3, <2>4
<1>4. CASE Events!Poll \/ Events!SinkLists
  <2>1. /\ UNCHANGED <<log, covered>> /\ log \in Nat
        /\ lastSeq' = IF work = "running" THEN log ELSE lastSeq
        /\ work' \in IF work = "running" THEN {"running", "over"} ELSE {work}
      BY <1>4 DEF Events!Poll, Events!SinkLists, Events!Refreshed, Sequenced
  <2>2. listed' \in BOOLEAN /\ (listed' => tail # <<>>)
    <3>1. CASE Events!Poll
      <4>1. listed' = listed
          BY <3>1 DEF Events!Poll
      <4> QED
          BY <4>1 DEF EventTypes
    <3>2. CASE Events!SinkLists
      <4>1. listed' = TRUE /\ tail # <<>>
          BY <3>2 DEF Events!SinkLists
      <4> QED
          BY <4>1
    <3> QED
        BY <1>4, <3>1, <3>2
  <2>3. work' = "running" => work = "running" /\ lastSeq' = log
      BY <2>1
  <2>4. EventTypes'
      BY <1>1, <2>1, <2>2 DEF EventTypes
  <2>5. Sequenced'
      BY <1>1, <2>1 DEF Sequenced
  <2>6. Summarised' /\ Events!BaselineIsPublished'
      BY <1>1, <2>1, <2>3 DEF Sequenced, Summarised, Events!BaselineIsPublished
  <2> QED
      BY <1>1, <2>4, <2>5, <2>6
<1> QED
    BY <1>2, <1>3, <1>4

LEMMA OpenStep ==
  ASSUME EventInv, NEW s \in Events!Streams, Events!Open(s)
  PROVE  EventInv'
<1> USE DEF EventInv, Events!session, Events!sequencer, Events!sink, Events!counts
<1> DEFINE place == IF s = "mux" THEN "opened" ELSE "up"
           n     == [kind |-> "restored", stream |-> s, waiter |-> "none"]
<1>0. s # "none" /\ (s = "mux" \/ s = "host")
    BY DEF Events!Streams
<1>1. /\ link[s] = "down" /\ link' = [link EXCEPT ![s] = place]
      /\ degraded' = degraded \ {s}
      /\ tail' = IF s \in degraded THEN Append(tail, n) ELSE tail
      /\ UNCHANGED <<log, work, lastSeq, durable, awaiting, pendingEvents, listed, covered, told, drops, failures>>
    BY DEF Events!Open, Events!Notice
<1>2. /\ tail \in Seq(Notices) /\ link \in [Events!Streams -> Events!Links]
      /\ Len(tail) \in Nat /\ failures \in Nat /\ degraded \in SUBSET Events!Streams
    BY DEF EventTypes
<1>3. n \in Notices
    BY <1>0 DEF Notices
<1>4. sent' \in Nat
  <2>1. durable \in Int /\ log \in Nat /\ sent \in Nat
      BY DEF Sequenced, EventTypes
  <2>2. Events!Higher(durable, 0) \in Nat
      BY <2>1 DEF Events!Higher
  <2>3. \A x \in Events!Higher(durable, 0) .. log : x \in Nat
      BY <2>1, <2>2
  <2> QED
      BY <2>1, <2>3 DEF Events!Open
<1> HIDE DEF n
<1>5. /\ tail' \in Seq(Notices) /\ Len(tail) <= Len(tail')
      /\ \A i \in 1 .. Len(tail) : tail'[i] = tail[i]
      /\ \A i \in Len(tail) + 1 .. Len(tail') : tail'[i] = n /\ s \in degraded /\ i = Len(tail')
      /\ s \in degraded => Len(tail) + 1 \in 1 .. Len(tail') /\ tail'[Len(tail) + 1] = n
  <2>1. CASE s \in degraded
    <3>1. tail' = Append(tail, n)
        BY <1>1, <2>1
    <3>2. /\ tail' \in Seq(Notices) /\ Len(tail') = Len(tail) + 1
          /\ \A i \in 1 .. Len(tail) : tail'[i] = tail[i]
          /\ tail'[Len(tail) + 1] = n
        BY <1>2, <1>3, <3>1, PutLast
    <3>3. \A i \in Len(tail) + 1 .. Len(tail') : i = Len(tail) + 1
        BY <1>2, <3>2
    <3>4. Len(tail) + 1 \in 1 .. Len(tail') /\ Len(tail) <= Len(tail')
        BY <1>2, <3>2
    <3> QED
        BY <2>1, <3>2, <3>3, <3>4
  <2>2. CASE s \notin degraded
    <3>1. tail' = tail
        BY <1>1, <2>2
    <3>2. \A i \in Len(tail) + 1 .. Len(tail) : FALSE
        BY <1>2
    <3> QED
        BY <1>2, <2>2, <3>1, <3>2
  <2> QED
      BY <2>1, <2>2
<1>6. tail # <<>> => tail' # <<>> /\ tail'[1] = tail[1]
    BY <1>2, <1>5
<1>7. n.kind = "restored" /\ n.stream = s /\ n.waiter = "none"
    BY DEF n
<1>8. /\ link' \in [Events!Streams -> Events!Links] /\ link'[s] = place
      /\ \A r \in Events!Streams : r # s => link'[r] = link[r]
    BY <1>1, <1>2 DEF Events!Links
<1>9. Moves(0, s)
  <2>1. 0 <= Len(tail) /\ Len(tail) - 0 <= Len(tail') /\ Len(tail) - 0 = Len(tail)
      BY <1>2, <1>5
  <2>2. \A i \in 1 .. Len(tail) - 0 : tail'[i] = tail[i + 0]
      BY <1>2, <1>5
  <2>3. \A i \in 0 + 1 .. Len(tail) : tail[i].waiter # s
      BY <1>1, NotAwaited
  <2>4. \A i \in Len(tail) - 0 + 1 .. Len(tail') : tail'[i].waiter = "none"
      BY <1>5, <1>7, <2>1
  <2> QED
      BY <1>5, <1>8, <2>1, <2>2, <2>3, <2>4 DEF Moves
<1>10. Tells(0, s)
  <2>1. \A i \in Len(tail) - 0 + 1 .. Len(tail') : tail'[i] = n
      BY <1>2, <1>5
  <2>2. s \notin degraded' /\ \A r \in Events!Streams : r # s => (r \in degraded' <=> r \in degraded)
      BY <1>1
  <2>3. link'[s] \notin {"ending", "closing"}
      BY <1>8
  <2>4. failures' \in Nat /\ failures <= failures'
      BY <1>1, <1>2
  <2>5. s \in degraded => \E i \in 1 .. Len(tail') : tail'[i].kind = "restored" /\ tail'[i].stream = s
      BY <1>5, <1>7
  <2>6. \A r \in Events!Streams : told'[r] = "polling" /\ r \notin degraded' =>
           \/ \E i \in 1 .. Len(tail') : tail'[i].kind = "restored" /\ tail'[i].stream = r
           \/ told[r] = "polling" /\ r \notin degraded
      BY <1>1, <2>2, <2>5
  <2> QED
      BY <1>1, <1>7, <2>1, <2>2, <2>3, <2>4, <2>6 DEF Tells
<1>11. Waited' /\ Restoring'
    BY <1>9, <1>10, MovesKeepWaited, MovesKeepRestoring
<1>12. EventTypes'
    BY <1>1, <1>4, <1>5, <1>6, <1>8 DEF EventTypes
<1>13. Sequenced'
    BY <1>1 DEF Sequenced
<1>14. link'["mux"] = "up" => link["mux"] = "up"
    BY <1>0, <1>8 DEF Events!Streams
<1>15. Summarised' /\ Events!BaselineIsPublished'
    BY <1>1, <1>6, <1>14 DEF Summarised, Events!BaselineIsPublished, EventTypes
<1>16. Ended'
    BY <1>1, <1>8 DEF Ended
<1> QED
    BY <1>11, <1>12, <1>13, <1>15, <1>16

\* A step of a pump that waits for what it tells the sink keeps what holds.
LEMMA EnqueueStep ==
  ASSUME EventInv, NEW s \in Events!Streams,
         link[s] \in {"down", "opened", "up"},
         NEW n \in Notices, n.waiter = s, n.kind # "restored",
         NEW place \in Events!Links, Suits(n, place),
         link' = [link EXCEPT ![s] = place], tail' = Append(tail, n),
         \/ degraded' = degraded \cup {s} /\ place \in {"ending", "closing"} /\ drops' = drops + 1
         \/ degraded' = degraded /\ s \notin degraded /\ place \in {"reporting", "reconciling"} /\ drops' = drops,
         UNCHANGED <<log, work, lastSeq, listed, covered, told, failures>>,
         sent' \in Nat, Sequenced',
         s = "host" => UNCHANGED <<durable, pendingEvents>>
  PROVE  EventInv'
<1> USE DEF EventInv
<1>0. s = "mux" \/ s = "host"
    BY DEF Events!Streams
<1>1. /\ Waited' /\ Restoring'
      /\ tail' \in Seq(Notices) /\ tail' # <<>> /\ (tail # <<>> => tail'[1] = tail[1])
      /\ link' \in [Events!Streams -> Events!Links]
    BY Enqueues
<1>2. drops \in Nat /\ failures \in Nat /\ link \in [Events!Streams -> Events!Links]
    BY DEF EventTypes
<1>3. link'[s] = place /\ \A r \in Events!Streams : r # s => link'[r] = link[r]
    BY <1>2
<1>4. EventTypes'
  <2>1. drops' \in Nat /\ degraded' \in SUBSET Events!Streams
      BY <1>2 DEF EventTypes
  <2> QED
      BY <1>1, <2>1 DEF EventTypes, Sequenced
<1>5. Ended'
  <2>1. drops' \in Nat /\ drops <= drops' /\ failures' = failures /\ (place = "closing" => drops' + failures >= 1)
      BY <1>2
  <2>2. place # "dead"
      OBVIOUS
  <2> DEFINE a == drops
             b == drops'
             c == failures
             f == a + c
             g == drops' + failures'
  <2>3. a \in Nat /\ b \in Nat /\ c \in Nat /\ a <= b /\ g = b + c /\ (place = "closing" => b + c >= 1)
      BY <1>2, <2>1
  <2> HIDE DEF a, b, c, g
  <2>4. f \in Nat /\ g \in Nat /\ f <= g /\ (place = "closing" => g >= 1)
      BY <2>3
  <2>5. \A r \in Events!Streams : (link[r] = "closing" => f >= 1) /\ (link[r] = "dead" => f >= 2)
      BY DEF Ended, a, c
  <2> HIDE DEF f, g
  <2>6. \A r \in Events!Streams : (link'[r] = "closing" => g >= 1) /\ (link'[r] = "dead" => g >= 2)
      BY <1>3, <2>2, <2>4, <2>5
  <2> QED
      BY <2>6 DEF Ended, g
<1>6. CASE s = "mux"
  <2>1. link'["mux"] # "up"
      BY <1>3, <1>6
  <2>2. listed => tail # <<>> /\ 1 \in 1 .. Len(tail) /\ tail'[1] = tail[1]
      BY <1>1 DEF EventTypes
  <2>3. \A i \in 1 .. Len(tail) : tail[i].waiter # "mux"
      BY <1>6, NotAwaited
  <2> QED
      BY <1>1, <1>4, <1>5, <2>1, <2>2, <2>3 DEF Summarised, Events!BaselineIsPublished
<1>7. CASE s = "host"
  <2>1. link'["mux"] = link["mux"]
      BY <1>3, <1>7 DEF Events!Streams
  <2>2. listed => tail'[1] = tail[1]
      BY <1>1 DEF EventTypes
  <2> QED
      BY <1>1, <1>4, <1>5, <1>7, <2>1, <2>2 DEF Summarised, Events!BaselineIsPublished
<1> QED
    BY <1>0, <1>6, <1>7

LEMMA NoticesAre ==
  ASSUME NEW s \in Events!Streams, NEW kind \in {"reconcile", "gap", "polling"}
  PROVE  /\ Events!Notice(kind, s, s) \in Notices
         /\ Events!Notice(kind, s, s).kind = kind /\ Events!Notice(kind, s, s).waiter = s
         /\ Events!Notice(kind, s, s).stream = s
BY DEF Events!Notice, Notices

LEMMA NotDegraded ==
  ASSUME Restoring, NEW s \in Events!Streams, link[s] \in {"opened", "up", "reporting", "reconciling"}
  PROVE  s \notin degraded
BY DEF Restoring, RestoringAt

LEMMA PumpStep ==
  ASSUME EventInv, Events!Subscribed \/ Events!HostFrame \/ \E s \in Events!Streams : Events!Disconnected(s)
  PROVE  EventInv'
<1> USE DEF EventInv, Events!session, Events!sequencer, Events!sink, Events!counts
<1>0. "mux" \in Events!Streams /\ "host" \in Events!Streams
    BY DEF Events!Streams
<1>1. CASE Events!Subscribed
  <2> DEFINE n == Events!Notice("reconcile", "mux", "mux")
  <2>1. /\ link["mux"] = "opened" /\ awaiting' = TRUE
        /\ link' = [link EXCEPT !["mux"] = "reconciling"] /\ tail' = Append(tail, n)
        /\ UNCHANGED <<log, work, lastSeq, listed, covered, told, failures, drops, degraded, sent, durable, pendingEvents>>
      BY <1>1 DEF Events!Subscribed
  <2>2. Sequenced'
      BY <2>1 DEF Sequenced
  <2>3. n \in Notices /\ n.kind = "reconcile" /\ n.waiter = "mux"
      BY <1>0, NoticesAre
  <2>4. "mux" \notin degraded
      BY <1>0, <2>1, NotDegraded
  <2>5. Suits(n, "reconciling") /\ "reconciling" \in Events!Links
      BY <2>3 DEF Suits, Events!Links
  <2>6. sent' \in Nat
      BY <2>1 DEF EventTypes
  <2> HIDE DEF n
  <2> QED
      BY <1>0, <2>1, <2>2, <2>3, <2>4, <2>5, <2>6, EnqueueStep
<1>2. CASE Events!HostFrame
  <2> DEFINE n == Events!Notice("reconcile", "host", "host")
  <2>1. /\ link["host"] = "up"
        /\ link' = [link EXCEPT !["host"] = "reconciling"] /\ tail' = Append(tail, n)
        /\ UNCHANGED <<log, work, lastSeq, listed, covered, told, failures, drops, degraded, sent, durable, awaiting, pendingEvents>>
      BY <1>2 DEF Events!HostFrame
  <2>2. Sequenced'
      BY <2>1 DEF Sequenced
  <2>3. n \in Notices /\ n.kind = "reconcile" /\ n.waiter = "host"
      BY <1>0, NoticesAre
  <2>4. "host" \notin degraded
      BY <1>0, <2>1, NotDegraded
  <2>5. Suits(n, "reconciling") /\ "reconciling" \in Events!Links
      BY <2>3 DEF Suits, Events!Links
  <2>6. sent' \in Nat
      BY <2>1 DEF EventTypes
  <2> HIDE DEF n
  <2> QED
      BY <1>0, <2>1, <2>2, <2>3, <2>4, <2>5, <2>6, EnqueueStep
<1>3. ASSUME NEW s \in Events!Streams, Events!Disconnected(s) PROVE EventInv'
  <2> DEFINE n == Events!Notice("polling", s, s)
  <2>1. PICK place \in {"ending", "closing"} :
          /\ link[s] \in {"down", "opened", "up"} /\ link' = [link EXCEPT ![s] = place]
      BY <1>3 DEF Events!Disconnected
  <2>2. /\ degraded' = degraded \cup {s} /\ tail' = Append(tail, n) /\ drops' = drops + 1
        /\ UNCHANGED <<log, work, lastSeq, listed, covered, told, failures, sent, durable, awaiting, pendingEvents>>
      BY <1>3 DEF Events!Disconnected
  <2>3. Sequenced'
      BY <2>2 DEF Sequenced
  <2>4. n \in Notices /\ n.kind = "polling" /\ n.waiter = s
      BY NoticesAre
  <2>5. Suits(n, place) /\ place \in Events!Links
      BY <2>4 DEF Suits, Events!Links
  <2>6. sent' \in Nat
      BY <2>2 DEF EventTypes
  <2> HIDE DEF n
  <2> QED
      BY <2>1, <2>2, <2>3, <2>4, <2>5, <2>6, EnqueueStep
<1> QED
    BY <1>1, <1>2, <1>3

LEMMA ReceiveStep ==
  ASSUME EventInv, Events!Receive
  PROVE  EventInv'
<1> USE DEF EventInv, Events!session, Events!sequencer, Events!sink, Events!counts
<1> DEFINE o     == Events!observe(sent + 1)
           gap   == o.kind \in {"gap", "overflow"}
           place == IF gap THEN "reporting" ELSE "reconciling"
           n     == Events!Notice(IF gap THEN "gap" ELSE "reconcile", "mux", "mux")
<1>0. "mux" \in Events!Streams /\ "mux" # "host"
    BY DEF Events!Streams
<1>1. /\ link["mux"] = "up" /\ sent < log /\ sent' = sent + 1
      /\ durable' = o.durable /\ awaiting' = o.awaiting /\ pendingEvents' = o.pending
      /\ IF o.kind = "duplicate" THEN UNCHANGED <<link, tail>>
         ELSE link' = [link EXCEPT !["mux"] = place] /\ tail' = Append(tail, n)
      /\ UNCHANGED <<log, work, lastSeq, listed, covered, told, failures, drops, degraded>>
    BY DEF Events!Receive
<1>2. sent \in Nat /\ log \in Nat /\ sent' \in Nat /\ sent + 1 \in Nat /\ sent + 1 # 0 /\ sent + 1 <= log
    BY <1>1 DEF EventTypes, Sequenced
<1>3. \/ /\ o.kind = "duplicate"
         /\ o.durable = durable /\ o.awaiting = awaiting /\ o.pending = pendingEvents
      \/ /\ o.kind = "overflow"
         /\ o.durable = durable /\ o.awaiting = TRUE /\ o.pending = {}
      \/ /\ o.kind \in {"history", "gap"} /\ sent + 1 > durable
         /\ sent + 1 \notin pendingEvents /\ Cardinality(pendingEvents) < MaxPendingEvents
         /\ o.durable = durable /\ o.awaiting = TRUE /\ o.pending = pendingEvents \cup {sent + 1}
      \/ /\ o.kind = "progress" /\ sent + 1 > durable
         /\ o.durable = sent + 1 /\ o.awaiting = awaiting /\ o.pending = {}
  <2> HIDE DEF o
  <2> QED
      BY <1>2, ObserveIs DEF o
<1> HIDE DEF o
<1>4. IsFiniteSet({}) /\ Cardinality({}) = 0 /\ MaxPendingEvents \in Nat
    BY FS_EmptySet, ServicesAssumption
<1>5. Sequenced'
  <2>1. CASE o.kind = "duplicate"
      BY <1>1, <1>3, <2>1 DEF Sequenced
  <2>2. CASE o.kind = "overflow"
    <3>1. durable' = durable /\ awaiting' = TRUE /\ pendingEvents' = {}
        BY <1>1, <1>3, <2>2
    <3>2. IsFiniteSet(pendingEvents') /\ Cardinality(pendingEvents') <= MaxPendingEvents
        BY <1>4, <3>1
    <3> QED
        BY <1>1, <3>1, <3>2 DEF Sequenced
  <2>3. CASE o.kind \in {"history", "gap"}
    <3>1. /\ durable' = durable /\ awaiting' = TRUE /\ pendingEvents' = pendingEvents \cup {sent + 1}
          /\ sent + 1 > durable /\ sent + 1 \notin pendingEvents
          /\ Cardinality(pendingEvents) < MaxPendingEvents
        BY <1>1, <1>3, <2>3
    <3>2. /\ IsFiniteSet(pendingEvents \cup {sent + 1})
          /\ Cardinality(pendingEvents \cup {sent + 1}) = Cardinality(pendingEvents) + 1
          /\ Cardinality(pendingEvents) \in Nat
        BY <3>1, FS_AddElement, FS_CardinalityType DEF Sequenced
    <3> DEFINE c == Cardinality(pendingEvents)
               d == Cardinality(pendingEvents \cup {sent + 1})
    <3>3. d = c + 1 /\ c \in Nat /\ c < MaxPendingEvents
        BY <3>1, <3>2
    <3> HIDE DEF c, d
    <3>4. d <= MaxPendingEvents
        BY <1>4, <3>3
    <3>5. Cardinality(pendingEvents') <= MaxPendingEvents
        BY <3>1, <3>4 DEF d
    <3>6. \A q \in pendingEvents' : q > durable' /\ q <= log'
        BY <1>1, <1>2, <3>1 DEF Sequenced
    <3>7. pendingEvents' \in SUBSET Int /\ IsFiniteSet(pendingEvents')
        BY <1>2, <3>1, <3>2 DEF Sequenced
    <3>8. /\ log' \in Nat /\ durable' \in Int /\ Events!Unknown <= durable' /\ awaiting' = TRUE
          /\ durable' <= log'
        BY <1>1, <3>1 DEF Sequenced
    <3> QED
        BY <3>5, <3>6, <3>7, <3>8 DEF Sequenced
  <2>4. CASE o.kind = "progress"
    <3>1. durable' = sent + 1 /\ awaiting' = awaiting /\ pendingEvents' = {}
        BY <1>1, <1>3, <2>4
    <3>2. sent + 1 # Events!Unknown /\ Events!Unknown <= sent + 1
        BY <1>2 DEF Events!Unknown
    <3> QED
        BY <1>1, <1>2, <1>4, <3>1, <3>2 DEF Sequenced
  <2> QED
      BY <1>3, <2>1, <2>2, <2>3, <2>4
<1>6. CASE o.kind = "duplicate"
  <2>1. UNCHANGED <<link, tail, durable, awaiting, pendingEvents>>
      BY <1>1, <1>3, <1>6
  <2>2. Waited' /\ Restoring'
      BY <1>1, <2>1, QueueUntouched
  <2>3. EventTypes'
      BY <1>1, <1>2, <2>1 DEF EventTypes
  <2> QED
      BY <1>1, <1>5, <2>1, <2>2, <2>3 DEF Summarised, Events!BaselineIsPublished, Ended
<1>7. CASE o.kind # "duplicate"
  <2>1. link' = [link EXCEPT !["mux"] = place] /\ tail' = Append(tail, n)
      BY <1>1, <1>7
  <2>2. n \in Notices /\ n.kind = (IF gap THEN "gap" ELSE "reconcile") /\ n.waiter = "mux"
      BY <1>0, NoticesAre
  <2>3. place \in Events!Links /\ place \in {"reporting", "reconciling"}
      BY DEF Events!Links
  <2>4. Suits(n, place)
      BY <2>2 DEF Suits
  <2>5. "mux" \notin degraded
      BY <1>0, <1>1, NotDegraded
  <2>6. n.kind # "restored"
      BY <2>2
  <2> HIDE DEF n, place
  <2> QED
      BY <1>0, <1>1, <1>2, <1>5, <2>1, <2>2, <2>3, <2>4, <2>5, <2>6, EnqueueStep
<1> QED
    BY <1>6, <1>7

LEMMA SinkFailsStep ==
  ASSUME EventInv, Events!SinkFails
  PROVE  EventInv'
<1> USE DEF EventInv, Events!session, Events!sequencer, Events!sink, Events!counts
<1> DEFINE s == tail[1].waiter
           n == Events!Notice("polling", s, s)
<1>1. /\ tail # <<>> /\ listed = FALSE /\ failures' = failures + 1
      /\ IF s = "none" THEN tail' = Tail(tail) /\ UNCHANGED <<link, degraded>>
         ELSE IF link[s] = "closing"
         THEN link' = [link EXCEPT ![s] = "dead"] /\ tail' = Tail(tail) /\ UNCHANGED degraded
         ELSE /\ link' = [link EXCEPT ![s] = "closing"] /\ degraded' = degraded \cup {s}
              /\ tail' = Append(Tail(tail), n)
      /\ UNCHANGED <<log, work, lastSeq, sent, durable, awaiting, pendingEvents, listed, covered, told, drops>>
  <2>1. Head(tail) = tail[1] /\ tail # <<>>
      BY HeadIs DEF Events!SinkFails
  <2> QED
      BY <2>1 DEF Events!SinkFails, EventTypes
<1>2. /\ Len(tail) \in Nat /\ Len(tail) >= 1 /\ tail[1] \in Notices
      /\ \A i \in 2 .. Len(tail) : tail[i].waiter = s => s = "none"
      /\ s \in Events!Streams \cup {"none"}
      /\ s # "none" => Suits(tail[1], link[s])
    BY <1>1, HeadIs
<1>3. /\ link \in [Events!Streams -> Events!Links] /\ failures \in Nat /\ drops \in Nat
      /\ degraded \in SUBSET Events!Streams /\ log \in Nat
    BY DEF EventTypes, Sequenced
<1>4. failures' \in Nat /\ failures <= failures' /\ failures' > 0
    BY <1>1, <1>3
<1>5. ASSUME link' \in [Events!Streams -> Events!Links], degraded' \in SUBSET Events!Streams,
             tail' \in Seq(Notices),
             \A r \in Events!Streams :
               r # s => link'[r] = link[r] /\ (r \in degraded' <=> r \in degraded),
             s # "none" => \/ link'[s] = "closing" /\ s \in degraded'
                           \/ link'[s] = "dead" /\ link[s] = "closing",
             Moves(1, s), Tells(1, s)
      PROVE  EventInv'
  <2>1. Waited' /\ Restoring'
      BY <1>5, MovesKeepWaited, MovesKeepRestoring
  <2>2. EventTypes' /\ Sequenced'
      BY <1>1, <1>4, <1>5 DEF EventTypes, Sequenced
  <2>3. Summarised'
      BY <1>1 DEF Summarised
  <2>4. link'["mux"] = "up" => link["mux"] = "up"
    <3>1. "mux" \in Events!Streams /\ "mux" # "none"
        BY DEF Events!Streams
    <3> QED
        BY <1>5, <3>1
  <2>5. Events!BaselineIsPublished'
      BY <1>1, <2>4 DEF Events!BaselineIsPublished
  <2>6. Ended'
    <3> DEFINE f == drops + failures
               g == drops' + failures'
    <3>1. f \in Nat /\ g = f + 1
        BY <1>1, <1>3
    <3>2. \A r \in Events!Streams : (link[r] = "closing" => f >= 1) /\ (link[r] = "dead" => f >= 2)
        BY DEF Ended
    <3> HIDE DEF f, g
    <3>3. ASSUME NEW r \in Events!Streams
          PROVE  (link'[r] = "closing" => g >= 1) /\ (link'[r] = "dead" => g >= 2)
      <4>1. CASE r # s
          BY <1>5, <3>1, <3>2, <4>1
      <4>2. CASE r = s
        <5>1. s # "none"
            BY <4>2 DEF Events!Streams
        <5>2. g >= 1 /\ (f >= 1 => g >= 2)
            BY <3>1
        <5> QED
            BY <1>5, <3>2, <4>2, <5>1, <5>2
      <4> QED
          BY <4>1, <4>2
    <3> QED
        BY <3>3 DEF Ended, g
  <2> QED
      BY <2>1, <2>2, <2>3, <2>5, <2>6
<1>6. CASE s = "none" \/ link[s] = "closing"
  <2>1. tail' = Tail(tail) /\ degraded' = degraded
      BY <1>1, <1>6
  <2>2. /\ tail' \in Seq(Notices) /\ Len(tail') = Len(tail) - 1
        /\ \A i \in 1 .. Len(tail) - 1 : tail'[i] = tail[i + 1]
      BY <1>1, <1>2, <2>1, HeadGone
  <2>3. \A i \in Len(tail) - 1 + 1 .. Len(tail') : FALSE
      BY <1>2, <2>2
  <2>4. \/ s = "none" /\ link' = link
        \/ s # "none" /\ link' = [link EXCEPT ![s] = "dead"]
      BY <1>1, <1>6
  <2>5. /\ link' \in [Events!Streams -> Events!Links]
        /\ \A r \in Events!Streams : r # s => link'[r] = link[r]
        /\ s # "none" => link'[s] = "dead" /\ link[s] = "closing"
      BY <1>2, <1>3, <1>6, <2>4 DEF Events!Links
  <2>6. Moves(1, s)
    <3>1. 1 \in {0, 1} /\ 1 <= Len(tail) /\ Len(tail) - 1 <= Len(tail')
        BY <1>2, <2>2
    <3>2. \A i \in 1 + 1 .. Len(tail) : tail[i].waiter = s => s = "none"
        BY <1>2
    <3> QED
        BY <2>2, <2>3, <2>5, <3>1, <3>2 DEF Moves
  <2>7. Tells(1, s)
    <3>1. s \in Events!Streams => s # "none"
        BY DEF Events!Streams
    <3>2. \A r \in Events!Streams : told'[r] = told[r]
        BY <1>1
    <3> QED
        BY <1>4, <2>1, <2>3, <2>5, <3>1, <3>2 DEF Tells
  <2> QED
      BY <1>3, <1>5, <2>1, <2>2, <2>5, <2>6, <2>7
<1>7. CASE s # "none" /\ link[s] # "closing"
  <2>0. s \in Events!Streams
      BY <1>2, <1>7
  <2>1. /\ link' = [link EXCEPT ![s] = "closing"] /\ degraded' = degraded \cup {s}
        /\ tail' = Append(Tail(tail), n)
      BY <1>1, <1>7
  <2>2. n \in Notices /\ n.kind = "polling" /\ n.waiter = s
      BY <2>0, NoticesAre
  <2> HIDE DEF n
  <2>3. /\ tail' \in Seq(Notices) /\ Len(tail') = Len(tail) /\ tail'[Len(tail')] = n
        /\ \A i \in 1 .. Len(tail) - 1 : tail'[i] = tail[i + 1]
      BY <1>1, <1>2, <2>1, <2>2, HeadGone
  <2>4. \A i \in Len(tail) - 1 + 1 .. Len(tail') : i = Len(tail') /\ tail'[i] = n
      BY <1>2, <2>3
  <2>5. /\ link' \in [Events!Streams -> Events!Links] /\ link'[s] = "closing"
        /\ \A r \in Events!Streams : r # s => link'[r] = link[r]
      BY <1>3, <2>0, <2>1 DEF Events!Links
  <2>6. Moves(1, s)
    <3>1. 1 \in {0, 1} /\ 1 <= Len(tail) /\ Len(tail) - 1 <= Len(tail')
        BY <1>2, <2>3
    <3>2. \A i \in 1 + 1 .. Len(tail) : tail[i].waiter = s => s = "none"
        BY <1>2
    <3>3. Suits(n, "closing")
        BY <2>2 DEF Suits
    <3> QED
        BY <2>2, <2>3, <2>4, <2>5, <3>1, <3>2, <3>3 DEF Moves
  <2>7. Tells(1, s)
    <3>1. s \in degraded' /\ \A r \in Events!Streams : r # s => (r \in degraded' <=> r \in degraded)
        BY <2>1
    <3>2. \A r \in Events!Streams : told'[r] = told[r]
        BY <1>1
    <3> QED
        BY <1>4, <2>2, <2>4, <2>5, <3>1, <3>2 DEF Tells
  <2>8. degraded' \in SUBSET Events!Streams /\ s \in degraded'
        /\ \A r \in Events!Streams : r # s => (r \in degraded' <=> r \in degraded)
      BY <1>3, <2>0, <2>1
  <2> QED
      BY <1>5, <2>3, <2>5, <2>6, <2>7, <2>8
<1> QED
    BY <1>6, <1>7

LEMMA OwnNotices ==
  \A kind \in {"rebased", "gap"} :
    /\ Events!Own(kind) \in Notices /\ Events!Own(kind).kind = kind
    /\ Events!Own(kind).waiter = "none"
BY DEF Events!Own, Events!Notice, Notices

LEMMA SinkAnswersStep ==
  ASSUME EventInv, Events!SinkAnswers
  PROVE  EventInv'
<1> USE DEF EventInv, Events!session, Events!sequencer, Events!sink, Events!counts
<1> DEFINE n == tail[1]
           s == n.waiter
           b == Events!rebase(lastSeq)
           own == Tail(tail) \o <<Events!Own("rebased")>> \o (IF b.gap THEN <<Events!Own("gap")>> ELSE <<>>)
<1>1. /\ tail # <<>> /\ listed /\ listed' = FALSE
      /\ IF n.kind = "reconcile"
         THEN /\ durable' = b.durable /\ pendingEvents' = b.pending /\ awaiting' = b.gap
              /\ covered' = IF work = "none" THEN covered ELSE Events!Higher(covered, lastSeq)
              /\ Events!Resume(s, own)
         ELSE UNCHANGED <<durable, awaiting, pendingEvents, covered>> /\ Events!Resume(s, Tail(tail))
      /\ told' = IF n.kind \in {"polling", "restored"}
                 THEN [told EXCEPT ![n.stream] = IF n.kind = "polling" THEN "polling" ELSE "ok"]
                 ELSE told
      /\ UNCHANGED <<log, work, lastSeq, sent, degraded, drops, failures>>
  <2>1. Head(tail) = tail[1] /\ tail # <<>>
      BY HeadIs DEF Events!SinkAnswers
  <2> QED
      BY <2>1 DEF Events!SinkAnswers
<1>2. /\ Len(tail) \in Nat /\ Len(tail) >= 1 /\ n \in Notices
      /\ \A i \in 2 .. Len(tail) : tail[i].waiter = s => s = "none"
      /\ s \in Events!Streams \cup {"none"}
      /\ s # "none" => Suits(n, link[s])
    BY <1>1, HeadIs
<1>3. /\ link \in [Events!Streams -> Events!Links] /\ failures \in Nat /\ drops \in Nat
      /\ degraded \in SUBSET Events!Streams /\ told \in [Events!Streams -> {"ok", "polling"}]
      /\ lastSeq \in Nat /\ lastSeq <= log /\ covered \in Nat /\ log \in Nat
    BY DEF EventTypes, Sequenced
<1>4. /\ n.kind \in {"reconcile", "gap", "polling", "restored", "rebased"}
      /\ n.stream \in Events!Streams \cup {"none"}
      /\ n.kind \in {"reconcile", "polling"} => s \in Events!Streams /\ n.stream = s
      /\ n.kind = "restored" => n.stream \in Events!Streams /\ s = "none"
      /\ s \in Events!Streams => s # "none"
    BY <1>2 DEF Notices, Events!Streams
<1> HIDE DEF n, b, own
<1>5. ASSUME tail' \in Seq(Notices), covered' \in Nat,
             \A r \in Events!Streams : r # s => link'[r] = link[r],
             \/ s = "none" /\ link' = link
             \/ /\ s \in Events!Streams
                /\ \E place \in {"up", "reconciling", "down"} : link' = [link EXCEPT ![s] = place],
             Moves(1, s), Tells(1, s), Sequenced', Events!BaselineIsPublished'
      PROVE  EventInv'
  <2>1. Waited' /\ Restoring'
      BY <1>5, MovesKeepWaited, MovesKeepRestoring
  <2>2. told' \in [Events!Streams -> {"ok", "polling"}]
      BY <1>1, <1>3, <1>4
  <2>3. link' \in [Events!Streams -> Events!Links]
        /\ \A r \in Events!Streams : link'[r] \in {"closing", "dead"} => link'[r] = link[r]
      BY <1>3, <1>5 DEF Events!Links
  <2>4. EventTypes'
      BY <1>1, <1>3, <1>5, <2>2, <2>3 DEF EventTypes
  <2>5. Summarised'
      BY <1>1 DEF Summarised
  <2>6. Ended'
      BY <1>1, <2>3 DEF Ended
  <2> QED
      BY <1>5, <2>1, <2>4, <2>5, <2>6
<1>6. \A r \in Events!Streams : r # s /\ told'[r] # told[r] => Events!Queued("restored", r)
  <2> SUFFICES ASSUME NEW r \in Events!Streams, r # s, told'[r] # told[r]
               PROVE  Events!Queued("restored", r)
      OBVIOUS
  <2>1. n.kind \in {"polling", "restored"} /\ n.stream = r
      BY <1>1, <1>3
  <2>2. n.kind = "restored"
      BY <1>4, <2>1
  <2>3. 1 \in DOMAIN tail /\ tail[1].kind = "restored" /\ tail[1].stream = r
      BY <1>2, <2>1, <2>2 DEF n
  <2> QED
      BY <2>3, QueuedIs
<1>7. ASSUME n.kind # "reconcile"
      PROVE  Sequenced' /\ covered' \in Nat
  <2>1. UNCHANGED <<log, durable, awaiting, pendingEvents, covered>>
      BY <1>1, <1>7
  <2>2. Sequenced'
      BY <1>3, <2>1 DEF Sequenced
  <2> QED
      BY <1>3, <2>1, <2>2
<1>8. ASSUME n.kind # "reconcile", "mux" = s => link'["mux"] # "up",
             "mux" # s => link'["mux"] = link["mux"]
      PROVE  Events!BaselineIsPublished'
    BY <1>1, <1>8 DEF Events!BaselineIsPublished
<1>9. failures' \in Nat /\ failures <= failures' /\ "mux" \in Events!Streams
    BY <1>1, <1>3 DEF Events!Streams
<1>10. \A i \in 1 + 1 .. Len(tail) : tail[i].waiter = s => s = "none"
    BY <1>2
<1>11. CASE n.kind = "reconcile"
  <2>0. s \in Events!Streams /\ s # "none" /\ link[s] = "reconciling"
      BY <1>2, <1>4, <1>11 DEF Suits
  <2>1. link' = [link EXCEPT ![s] = "up"] /\ tail' = own /\ told' = told
    <3>1. Events!Resume(s, own)
        BY <1>1, <1>11
    <3> QED
        BY <1>1, <1>11, <2>0, <3>1 DEF Events!Resume
  <2>2. /\ Events!Own("rebased") \in Notices /\ Events!Own("gap") \in Notices
        /\ Events!Own("rebased").waiter = "none" /\ Events!Own("gap").waiter = "none"
        /\ Events!Own("rebased").kind # "restored" /\ Events!Own("gap").kind # "restored"
      BY OwnNotices
  <2>3. /\ b.durable \in Nat /\ b.durable <= log
        /\ b.durable = lastSeq \/ b.durable \in pendingEvents
        /\ b.pending \in SUBSET pendingEvents /\ \A q \in b.pending : q > b.durable
        /\ b.gap = (b.pending # {})
      BY <1>3, RebaseIs DEF b
  <2>4. /\ tail' \in Seq(Notices) /\ Len(tail) <= Len(tail')
        /\ \A i \in 1 .. Len(tail) - 1 : tail'[i] = tail[i + 1]
        /\ \A i \in Len(tail) .. Len(tail') : tail'[i] \in {Events!Own("rebased"), Events!Own("gap")}
    <3>1. b.gap \in BOOLEAN
        BY <2>3
    <3> QED
        BY <1>1, <2>1, <2>2, <3>1, HeadGone DEF own
  <2>5. \A i \in Len(tail) - 1 + 1 .. Len(tail') : tail'[i].waiter = "none" /\ tail'[i].kind # "restored"
      BY <1>2, <2>2, <2>4
  <2>6. link'[s] = "up" /\ \A r \in Events!Streams : r # s => link'[r] = link[r]
      BY <1>3, <2>0, <2>1
  <2>7. Moves(1, s)
    <3>1. 1 \in {0, 1} /\ 1 <= Len(tail) /\ Len(tail) - 1 <= Len(tail')
        BY <1>2, <2>4
    <3> QED
        BY <1>10, <2>4, <2>5, <2>6, <3>1 DEF Moves
  <2>8. Tells(1, s)
    <3>1. degraded' = degraded /\ s \notin degraded
        BY <1>1, <2>0, NotDegraded
    <3>2. ~(tail[1].kind = "restored")
        BY <1>11 DEF n
    <3> QED
        BY <1>6, <1>9, <2>1, <2>5, <2>6, <3>1, <3>2 DEF Tells
  <2>9. durable' = b.durable /\ pendingEvents' = b.pending /\ awaiting' = b.gap
        /\ covered' = IF work = "none" THEN covered ELSE Events!Higher(covered, lastSeq)
      BY <1>1, <1>11
  <2>10. Sequenced'
    <3>1. /\ pendingEvents \in SUBSET Int /\ IsFiniteSet(pendingEvents)
          /\ Cardinality(pendingEvents) <= MaxPendingEvents /\ \A q \in pendingEvents : q <= log
        BY DEF Sequenced
    <3>2. IsFiniteSet(pendingEvents') /\ Cardinality(pendingEvents') <= Cardinality(pendingEvents)
        BY <2>3, <2>9, <3>1, FS_Subset
    <3>3. Cardinality(pendingEvents) \in Nat /\ Cardinality(pendingEvents') \in Nat /\ MaxPendingEvents \in Nat
        BY <3>1, <3>2, FS_CardinalityType, ServicesAssumption
    <3>4. Cardinality(pendingEvents') <= MaxPendingEvents
        BY <3>1, <3>2, <3>3
    <3>5. log' = log /\ durable' \in Nat /\ durable' # Events!Unknown /\ Events!Unknown <= durable'
        BY <1>1, <2>3, <2>9 DEF Events!Unknown
    <3>6. pendingEvents' \in SUBSET Int /\ \A q \in pendingEvents' : q > durable' /\ q <= log'
        BY <2>3, <2>9, <3>1, <3>5
    <3>7. awaiting' \in BOOLEAN /\ (pendingEvents' # {} => awaiting')
        BY <2>3, <2>9
    <3>8. durable' <= log' /\ log' \in Nat
        BY <1>3, <2>3, <2>9, <3>5
    <3> QED
        BY <3>2, <3>4, <3>5, <3>6, <3>7, <3>8 DEF Sequenced
  <2>11. covered' \in Nat /\ (work # "none" => covered <= covered' /\ lastSeq <= covered')
    <3>1. /\ Events!Higher(covered, lastSeq) \in Nat
          /\ covered <= Events!Higher(covered, lastSeq) /\ lastSeq <= Events!Higher(covered, lastSeq)
        BY <1>3 DEF Events!Higher
    <3> QED
        BY <1>3, <2>9, <3>1
  <2>12. Events!BaselineIsPublished'
    <3> SUFFICES ASSUME work' = "running", link'["mux"] = "up" PROVE durable' <= covered'
        BY DEF Events!BaselineIsPublished
    <3>1. work = "running"
        BY <1>1
    <3>2. link["mux"] = "up" \/ tail[1].waiter = "mux"
        BY <1>9, <2>6 DEF n
    <3>3. \A q \in pendingEvents : q <= lastSeq \/ q <= covered
        BY <1>1, <3>1, <3>2 DEF Summarised
    <3>4. b.durable <= lastSeq \/ b.durable <= covered
        BY <1>3, <2>3, <3>3
    <3> QED
        BY <1>3, <2>3, <2>9, <2>11, <3>1, <3>4
  <2> QED
      BY <1>5, <2>0, <2>1, <2>4, <2>6, <2>7, <2>8, <2>10, <2>11, <2>12
<1>12. CASE n.kind = "gap" /\ s # "none"
  <2>0. s \in Events!Streams /\ link[s] = "reporting"
      BY <1>2, <1>12 DEF Suits
  <2> DEFINE e == Events!Notice("reconcile", s, s)
  <2>1. link' = [link EXCEPT ![s] = "reconciling"] /\ tail' = Append(Tail(tail), e) /\ told' = told
    <3>1. Events!Resume(s, Tail(tail))
        BY <1>1, <1>12
    <3> QED
        BY <1>1, <1>12, <2>0, <3>1 DEF Events!Resume
  <2>2. e \in Notices /\ e.kind = "reconcile" /\ e.waiter = s
      BY <2>0, NoticesAre
  <2> HIDE DEF e
  <2>3. /\ tail' \in Seq(Notices) /\ Len(tail') = Len(tail) /\ tail'[Len(tail')] = e
        /\ \A i \in 1 .. Len(tail) - 1 : tail'[i] = tail[i + 1]
      BY <1>1, <2>1, <2>2, HeadGone
  <2>4. \A i \in Len(tail) - 1 + 1 .. Len(tail') : i = Len(tail') /\ tail'[i] = e
      BY <1>2, <2>3
  <2>5. link'[s] = "reconciling" /\ \A r \in Events!Streams : r # s => link'[r] = link[r]
      BY <1>3, <2>0, <2>1
  <2>6. Moves(1, s)
    <3>1. 1 \in {0, 1} /\ 1 <= Len(tail) /\ Len(tail) - 1 <= Len(tail')
        BY <1>2, <2>3
    <3>2. Suits(e, "reconciling")
        BY <2>2 DEF Suits
    <3> QED
        BY <1>10, <2>2, <2>3, <2>4, <2>5, <3>1, <3>2 DEF Moves
  <2>7. Tells(1, s)
    <3>1. degraded' = degraded /\ s \notin degraded
        BY <1>1, <2>0, NotDegraded
    <3>2. ~(tail[1].kind = "restored")
        BY <1>12 DEF n
    <3> QED
        BY <1>6, <1>9, <2>1, <2>2, <2>4, <2>5, <3>1, <3>2 DEF Tells
  <2>8. Events!BaselineIsPublished'
      BY <1>8, <1>9, <1>12, <2>5
  <2> QED
      BY <1>5, <1>7, <1>12, <2>0, <2>1, <2>3, <2>5, <2>6, <2>7, <2>8
<1>13. CASE n.kind = "polling"
  <2>0. s \in Events!Streams /\ s # "none" /\ n.stream = s /\ link[s] \in {"ending", "closing"}
      BY <1>2, <1>4, <1>13 DEF Suits
  <2>1. link' = [link EXCEPT ![s] = "down"] /\ tail' = Tail(tail) /\ told' = [told EXCEPT ![s] = "polling"]
    <3>1. Events!Resume(s, Tail(tail))
        BY <1>1, <1>13
    <3> QED
        BY <1>1, <1>13, <2>0, <3>1 DEF Events!Resume
  <2>3. /\ tail' \in Seq(Notices) /\ Len(tail') = Len(tail) - 1
        /\ \A i \in 1 .. Len(tail) - 1 : tail'[i] = tail[i + 1]
      BY <1>1, <1>2, <2>1, HeadGone
  <2>4. \A i \in Len(tail) - 1 + 1 .. Len(tail') : FALSE
      BY <1>2, <2>3
  <2>5. link'[s] = "down" /\ \A r \in Events!Streams : r # s => link'[r] = link[r]
      BY <1>3, <2>0, <2>1
  <2>6. Moves(1, s)
    <3>1. 1 \in {0, 1} /\ 1 <= Len(tail) /\ Len(tail) - 1 <= Len(tail')
        BY <1>2, <2>3
    <3> QED
        BY <1>10, <2>3, <2>4, <2>5, <3>1 DEF Moves
  <2>7. s \in degraded /\ \A i \in 1 + 1 .. Len(tail) : ~(tail[i].kind = "restored" /\ tail[i].stream = s)
    <3>1. s \in degraded
        BY <2>0 DEF Restoring, RestoringAt
    <3>2. ASSUME NEW i \in 1 + 1 .. Len(tail), tail[i].kind = "restored", tail[i].stream = s PROVE FALSE
      <4>1. i \in 1 .. Len(tail) /\ 1 \in 1 .. Len(tail) /\ ~(i < 1)
          BY <1>2, <3>2
      <4>2. i < 1
          BY <2>0, <3>1, <3>2, <4>1 DEF Restoring, RestoringAt, n
      <4> QED
          BY <4>1, <4>2
    <3> QED
        BY <3>1, <3>2
  <2>8. Tells(1, s)
    <3>1. degraded' = degraded /\ told'[s] = "polling"
        BY <1>1, <1>3, <2>0, <2>1
    <3>2. ~(tail[1].kind = "restored")
        BY <1>13 DEF n
    <3>3. \A r \in Events!Streams : r # s => told'[r] = told[r]
        BY <1>3, <2>1
    <3> QED
        BY <1>6, <1>9, <2>4, <2>5, <2>7, <3>1, <3>2, <3>3 DEF Tells
  <2>9. Events!BaselineIsPublished'
      BY <1>8, <1>9, <1>13, <2>5
  <2> QED
      BY <1>5, <1>7, <1>13, <2>0, <2>1, <2>3, <2>5, <2>6, <2>8, <2>9
<1>14. CASE s = "none"
  <2>0. n.kind # "reconcile" /\ n.kind # "polling"
      BY <1>4, <1>14
  <2>1. link' = link /\ tail' = Tail(tail)
    <3>1. Events!Resume(s, Tail(tail))
        BY <1>1, <2>0
    <3> QED
        BY <1>14, <3>1 DEF Events!Resume
  <2>3. /\ tail' \in Seq(Notices) /\ Len(tail') = Len(tail) - 1
        /\ \A i \in 1 .. Len(tail) - 1 : tail'[i] = tail[i + 1]
      BY <1>1, <1>2, <2>1, HeadGone
  <2>4. \A i \in Len(tail) - 1 + 1 .. Len(tail') : FALSE
      BY <1>2, <2>3
  <2>6. Moves(1, s)
    <3>1. 1 \in {0, 1} /\ 1 <= Len(tail) /\ Len(tail) - 1 <= Len(tail')
        BY <1>2, <2>3
    <3> QED
        BY <1>10, <2>1, <2>3, <2>4, <3>1 DEF Moves
  <2>7. Tells(1, s)
    <3>1. degraded' = degraded /\ s \notin Events!Streams
        BY <1>1, <1>4, <1>14
    <3>2. \A r \in Events!Streams : told'[r] = "polling" =>
            told[r] = "polling" /\ ~(tail[1].kind = "restored" /\ tail[1].stream = r)
      <4> SUFFICES ASSUME NEW r \in Events!Streams, told'[r] = "polling"
                   PROVE  told[r] = "polling" /\ ~(n.kind = "restored" /\ n.stream = r)
          BY DEF n
      <4>1. CASE n.kind = "restored"
        <5>1. told' = [told EXCEPT ![n.stream] = "ok"]
            BY <1>1, <4>1
        <5> QED
            BY <1>3, <1>4, <4>1, <5>1
      <4>2. CASE n.kind # "restored"
        <5>1. told' = told
            BY <1>1, <2>0, <4>2
        <5> QED
            BY <4>2, <5>1
      <4> QED
          BY <4>1, <4>2
    <3> QED
        BY <1>6, <1>9, <2>4, <3>1, <3>2 DEF Tells
  <2>8. Events!BaselineIsPublished'
      BY <1>8, <1>9, <1>14, <2>0, <2>1, <1>4
  <2> QED
      BY <1>5, <1>7, <1>14, <2>0, <2>1, <2>3, <2>6, <2>7, <2>8
<1>15. n.kind = "reconcile" \/ (n.kind = "gap" /\ s # "none") \/ n.kind = "polling" \/ s = "none"
  <2>1. n.kind = "rebased" => s = "none"
      BY <1>2 DEF Suits
  <2> QED
      BY <1>4, <2>1
<1> QED
    BY <1>11, <1>12, <1>13, <1>14, <1>15

LEMMA EventsInitially == Events!MonitorInit => EventInv
<1> SUFFICES ASSUME Events!MonitorInit PROVE EventInv
    OBVIOUS
<1>1. /\ log = 0 /\ work = "none" /\ lastSeq = 0
      /\ link = [s \in Events!Streams |-> "down"] /\ sent = 0
      /\ durable = Events!Unknown /\ awaiting = TRUE /\ pendingEvents = {}
      /\ degraded = {} /\ tail = <<>>
      /\ listed = FALSE /\ covered = 0 /\ told = [s \in Events!Streams |-> "ok"]
      /\ drops = 0 /\ failures = 0
    BY DEF Events!MonitorInit
<1>2. tail \in Seq(Notices) /\ Len(tail) = 0
    BY <1>1
<1>3. EventTypes
  <2>1. link \in [Events!Streams -> Events!Links] /\ told \in [Events!Streams -> {"ok", "polling"}]
      BY <1>1 DEF Events!Links
  <2>2. lastSeq \in Nat /\ lastSeq <= log /\ sent \in Nat /\ covered \in Nat
        /\ drops \in Nat /\ failures \in Nat
      BY <1>1
  <2>3. work \in {"none", "running", "over"} /\ listed \in BOOLEAN /\ ~listed
      BY <1>1
  <2>4. degraded \in SUBSET Events!Streams
      BY <1>1
  <2> QED
      BY <1>2, <2>1, <2>2, <2>3, <2>4 DEF EventTypes
<1>4. Sequenced
  <2>1. IsFiniteSet({}) /\ Cardinality({}) = 0 /\ MaxPendingEvents \in Nat
      BY FS_EmptySet, ServicesAssumption
  <2> QED
      BY <1>1, <2>1 DEF Sequenced, Events!Unknown
<1>5. Waited /\ Restoring
    BY <1>1, <1>2 DEF Waited, Restoring, RestoringAt
<1>6. Summarised /\ Events!BaselineIsPublished /\ Ended
    BY <1>1 DEF Summarised, Events!BaselineIsPublished, Ended
<1> QED
    BY <1>3, <1>4, <1>5, <1>6 DEF EventInv

LEMMA EventStep == EventInv /\ [Events!MonitorNext]_eventVars => EventInv'
<1> SUFFICES ASSUME EventInv, [Events!MonitorNext]_eventVars PROVE EventInv'
    OBVIOUS
<1>1. CASE UNCHANGED eventVars
  <2>1. UNCHANGED <<log, work, lastSeq, link, sent, durable, awaiting, pendingEvents, degraded, tail,
                    listed, covered, told, drops, failures>>
      BY <1>1 DEF eventVars
  <2>2. Waited' /\ Restoring'
      BY <2>1, QueueUntouched DEF EventInv
  <2>3. EventTypes' /\ Sequenced' /\ Summarised' /\ Events!BaselineIsPublished' /\ Ended'
      BY <2>1 DEF EventInv, EventTypes, Sequenced, Summarised, Events!BaselineIsPublished, Ended
  <2> QED
      BY <2>2, <2>3 DEF EventInv
<1> QED
    BY <1>1, HostStep, OpenStep, PumpStep, ReceiveStep, SinkAnswersStep, SinkFailsStep
       DEF Events!MonitorNext, Events!Pumps

\* Every accepted event is applied or waits to be and nothing below the baseline
\* of a stream that reads on is in no summary, the sink learns of every
\* stream that is down and that it is back, and one fault ends no pump.
THEOREM EventsStaySound == ServicesSpec => []EventsAreSound
<1>1. ServicesInit => EventInv
    BY EventsInitially DEF ServicesInit
<1>2. EventInv /\ [ServicesNext]_servicesVars => EventInv'
    BY PartsApart, EventStep
<1>3. EventInv => EventsAreSound
  <2> SUFFICES ASSUME EventInv PROVE EventsAreSound
      OBVIOUS
  <2>1. Events!SequencerConsistent
      BY Counting DEF EventInv, Sequenced, Events!SequencerConsistent
  <2>2. Events!StreamStateIsKnown
      BY DEF EventInv, Restoring, RestoringAt, Events!StreamStateIsKnown
  <2>3. Events!PumpSurvives
    <3>1. drops \in Nat /\ failures \in Nat
        BY DEF EventInv, EventTypes
    <3> QED
        BY <3>1 DEF EventInv, Ended, Events!PumpSurvives
  <2> QED
      BY <2>1, <2>2, <2>3 DEF EventInv, EventsAreSound
<1> QED
    BY <1>1, <1>2, <1>3, PTL DEF ServicesSpec

=============================================================================
