--------------------------- MODULE SessionClaims ---------------------------
(***************************************************************************)
(* Whose run a session is: the choice of a session for start_run and       *)
(* reply_run, and the four things that keep a second run out of it --      *)
(* sessionStarts, activeSessions, the session lease and the Host's own     *)
(* list.  Several Relays on one workspace and one state directory.         *)
(***************************************************************************)
EXTENDS Integers, FiniteSets

CONSTANTS
  Starts,       \* calls of startRun()
  Relays,
  On,           \* [Starts -> Relays]
  Asks,         \* [Starts -> a session, "latest-idle" or "fresh"]
  Sessions,
  Kind,         \* [Sessions -> "open", "archived", "subagent", "foreign" or "new" (not yet created)]
  None,
  MaxServices,  \* bound: services of a Relay
  MaxMishaps    \* bound: Host requests that fail or time out

VARIABLES
  serviceOf,  \* serviceByWorkspace of the workspace: a service or 0
  opened,     \* services a Relay has opened
  starting,   \* sessionStarts
  keys,       \* activeSessions: [service, session, run]
  lease,      \* the session lease on disk: the call that holds it
  at,         \* where a call is
  picked,     \* [service, session, reused] of a call
  created,    \* sessions of the Host
  turn,       \* calls whose prompt a session is working on, or has queued
  late,       \* a call whose prompt was not answered in time: "waiting" for the Host, or "over"
  mishaps

claimVars == <<serviceOf, opened, starting, keys, lease, at, picked, created, turn, late, mishaps>>

relayVars == <<serviceOf, opened, starting, keys, lease>>

-----------------------------------------------------------------------------
\* Calls between claiming their session and giving the claim back.
Claimed == {"lease", "idle", "prompt", "abort", "leave"}

runs(s) == turn[s] # {}

\* list(): what latest-idle may choose; which one is newest is left open.
Idle == {s \in created : Kind[s] = "open" /\ ~runs(s)}

\* reuseRequested(): the checks on a session asked for by name.
Reusable(s) == s \in created /\ Kind[s] \in {"open", "new"} /\ ~runs(s)

To(c, where) == at' = [at EXCEPT ![c] = where]

Mishap == mishaps < MaxMishaps /\ mishaps' = mishaps + 1

Key(c) == [relay |-> On[c], service |-> picked[c].service, session |-> picked[c].session]

\* activeSessions.delete(activeKey): whatever run is there.
Unkey(c) == {k \in keys : k.key # Key(c)}

-----------------------------------------------------------------------------
ClaimInit ==
  /\ serviceOf = [r \in Relays |-> 0] /\ opened = [r \in Relays |-> 0]
  /\ starting = [r \in Relays |-> {}] /\ keys = {} /\ lease = [s \in Sessions |-> None]
  /\ at = [c \in Starts |-> "called"]
  /\ picked = [c \in Starts |-> [service |-> 0, session |-> None, reused |-> FALSE]]
  /\ created = {s \in Sessions : Kind[s] # "new"}
  /\ turn = [s \in Sessions |-> {}] /\ mishaps = 0
  /\ late = [c \in Starts |-> "no"]

\* startService(): the service of the workspace, opened by one of the calls
\* that wait for it.
StartService(c) ==
  LET r == On[c] IN
  /\ at[c] = "called"
  /\ IF serviceOf[r] # 0
     THEN UNCHANGED <<serviceOf, opened>>
     ELSE /\ opened[r] < MaxServices
          /\ opened' = [opened EXCEPT ![r] = @ + 1]
          /\ serviceOf' = [serviceOf EXCEPT ![r] = opened[r] + 1]
  /\ picked' = [picked EXCEPT ![c].service = serviceOf'[r]]
  /\ To(c, "resolve")
  /\ UNCHANGED <<starting, keys, lease, created, turn, late, mishaps>>

StartServiceFails(c) ==
  /\ at[c] = "called" /\ serviceOf[On[c]] = 0 /\ Mishap /\ To(c, "failed")
  /\ UNCHANGED <<relayVars, picked, created, turn, late>>

\* stop_service: the next start opens another service, whose keys are others.
StopService(r) ==
  /\ serviceOf[r] # 0
  /\ serviceOf' = [serviceOf EXCEPT ![r] = 0]
  /\ UNCHANGED <<opened, starting, keys, lease, at, picked, created, turn, late, mishaps>>

Pick(c, s, reused) ==
  /\ picked' = [picked EXCEPT ![c].session = s, ![c].reused = reused]
  /\ To(c, "claim")

\* resolve(): the session asked for, the latest idle one, or a new one.
Resolve(c) ==
  /\ at[c] = "resolve"
  /\ \/ /\ Asks[c] \in Sessions /\ Reusable(Asks[c])
        /\ Pick(c, Asks[c], TRUE) /\ UNCHANGED created
     \/ /\ Asks[c] \in Sessions /\ ~Reusable(Asks[c])
        /\ To(c, "failed") /\ UNCHANGED <<picked, created>>
     \/ /\ Asks[c] = "latest-idle"
        /\ \E s \in Idle : Pick(c, s, TRUE)
        /\ UNCHANGED created
     \/ /\ Asks[c] \in (IF Idle = {} THEN {"fresh", "latest-idle"} ELSE {"fresh"})
        /\ \E s \in Sessions \ created : Pick(c, s, FALSE) /\ created' = created \cup {s}
  /\ UNCHANGED <<relayVars, turn, late, mishaps>>

\* The answer arrives: refuse the session, or claim it, without an await in between.
Claim(c) ==
  LET r == On[c]  s == picked[c].session IN
  /\ at[c] = "claim"
  /\ IF (\E k \in keys : k.key = Key(c)) \/ s \in starting[r]
     THEN To(c, "failed") /\ UNCHANGED starting
     ELSE starting' = [starting EXCEPT ![r] = @ \cup {s}] /\ To(c, "lease")
  /\ UNCHANGED <<serviceOf, opened, keys, lease, picked, created, turn, late, mishaps>>

Activate(c) == keys' = keys \cup {[key |-> Key(c), run |-> c]}

\* The bug: the claim stays when the lease is refused.
TakeLeaseKeepsClaim(c) ==
  /\ at[c] = "lease"
  /\ IF picked[c].reused /\ lease[picked[c].session] # None
     THEN To(c, "failed") /\ UNCHANGED <<keys, lease>>
     ELSE /\ lease' = IF picked[c].reused THEN [lease EXCEPT ![picked[c].session] = c] ELSE lease
          /\ Activate(c) /\ To(c, IF picked[c].reused THEN "idle" ELSE "prompt")
  /\ UNCHANGED <<serviceOf, opened, starting, picked, created, turn, late, mishaps>>

\* A lease for a session that is reused; without it the claim is given back.
TakeLease(c) ==
  LET r == On[c]  s == picked[c].session IN
  /\ at[c] = "lease"
  /\ \/ /\ picked[c].reused /\ lease[s] # None
        /\ starting' = [starting EXCEPT ![r] = @ \ {s}]
        /\ To(c, "failed") /\ UNCHANGED <<keys, lease>>
     \/ /\ picked[c].reused /\ lease[s] = None
        /\ lease' = [lease EXCEPT ![s] = c] /\ Activate(c)
        /\ To(c, "idle") /\ UNCHANGED starting
     \/ /\ ~picked[c].reused /\ Activate(c)
        /\ To(c, "prompt") /\ UNCHANGED <<starting, lease>>
  /\ UNCHANGED <<serviceOf, opened, picked, created, turn, late, mishaps>>

\* The bug: the list of resolve() is trusted.
AssertIdleSkipped(c) ==
  /\ at[c] = "idle" /\ To(c, "prompt")
  /\ UNCHANGED <<relayVars, picked, created, turn, late, mishaps>>

\* assertIdle() under the lease.
AssertIdle(c) ==
  /\ at[c] = "idle"
  /\ To(c, IF runs(picked[c].session) THEN "abort" ELSE "prompt")
  /\ UNCHANGED <<relayVars, picked, created, turn, late, mishaps>>

\* Model, permission or baseline cannot be set up.
SetUpFails(c) ==
  /\ at[c] = "prompt" /\ Mishap /\ To(c, "abort")
  /\ UNCHANGED <<relayVars, picked, created, turn, late>>

\* The Host takes a prompt; the session is running from here on.
HostTakes(c) == turn' = [turn EXCEPT ![picked[c].session] = @ \cup {c}]

\* submit(): accepted, rejected for certain, or no answer in time.
Prompt(c) ==
  /\ at[c] = "prompt"
  /\ \/ HostTakes(c) /\ To(c, "leave") /\ UNCHANGED <<late, mishaps>>
     \/ To(c, "abort") /\ Mishap /\ UNCHANGED <<turn, late>>
     \/ late' = [late EXCEPT ![c] = "waiting"] /\ To(c, "leave") /\ Mishap /\ UNCHANGED turn
  /\ UNCHANGED <<relayVars, picked, created>>

\* A prompt nobody waits for any more reaches the Host, or is lost.
LatePrompt(c) ==
  /\ late[c] = "waiting" /\ (HostTakes(c) \/ UNCHANGED turn)
  /\ late' = [late EXCEPT ![c] = "over"]
  /\ UNCHANGED <<relayVars, at, picked, created, mishaps>>

\* The bug: a failed start keeps its key.
ReleaseKeepsKey(c) ==
  LET r == On[c]  s == picked[c].session IN
  /\ at[c] \in {"abort", "leave"}
  /\ starting' = [starting EXCEPT ![r] = @ \ {s}]
  /\ lease' = IF lease[s] = c THEN [lease EXCEPT ![s] = None] ELSE lease
  /\ To(c, IF at[c] = "abort" THEN "failed" ELSE "running")
  /\ UNCHANGED <<serviceOf, opened, keys, picked, created, turn, late, mishaps>>

\* finally: the claim and the lease are given back; a failed start has
\* dropped its key before.
Release(c) ==
  LET r == On[c]  s == picked[c].session IN
  /\ at[c] \in {"abort", "leave"}
  /\ keys' = IF at[c] = "abort" THEN Unkey(c) ELSE keys
  /\ starting' = [starting EXCEPT ![r] = @ \ {s}]
  /\ lease' = IF lease[s] = c THEN [lease EXCEPT ![s] = None] ELSE lease
  /\ To(c, IF at[c] = "abort" THEN "failed" ELSE "running")
  /\ UNCHANGED <<serviceOf, opened, picked, created, turn, late, mishaps>>

\* The Host ends a turn.
TurnEnds(c) ==
  LET s == picked[c].session IN
  /\ s # None /\ c \in turn[s]
  /\ turn' = [turn EXCEPT ![s] = @ \ {c}]
  /\ UNCHANGED <<relayVars, at, picked, created, late, mishaps>>

\* finalize() of a run whose turn is over, or whose prompt has not come and
\* the session does nothing.
Finalize(c) ==
  /\ at[c] = "running" /\ c \notin turn[picked[c].session]
  /\ late[c] = "waiting" => ~runs(picked[c].session)
  /\ keys' = Unkey(c) /\ To(c, "done")
  /\ UNCHANGED <<serviceOf, opened, starting, lease, picked, created, turn, late, mishaps>>

ClaimNext ==
  \/ \E c \in Starts :
       \/ StartService(c) \/ StartServiceFails(c) \/ Resolve(c) \/ Claim(c)
       \/ TakeLease(c) \/ AssertIdle(c) \/ SetUpFails(c) \/ Prompt(c)
       \/ LatePrompt(c) \/ Release(c) \/ TurnEnds(c) \/ Finalize(c)
  \/ \E r \in Relays : StopService(r)

ClaimSpec == ClaimInit /\ [][ClaimNext]_claimVars

-----------------------------------------------------------------------------
\* Two runs are in one session together only if one of them created it (no
\* lease is taken then) or its prompt came after Relay had given up waiting,
\* whatever services were stopped in between and whichever Relay they are of.
OneRunPerSession ==
  \A s \in Sessions : \A c, d \in turn[s] :
    c # d => \E e \in {c, d} : ~picked[e].reused \/ late[e] # "no"

\* A session is claimed, or leased, exactly while a start of it is under way:
\* no failure leaves it claimed for ever.
ClaimsAreReturned ==
  /\ \A r \in Relays : starting[r] = {picked[c].session : c \in {d \in Starts : On[d] = r /\ at[d] \in Claimed}}
  /\ \A s \in Sessions, c \in Starts :
       lease[s] = c <=> picked[c].reused /\ picked[c].session = s /\ at[c] \in Claimed \ {"lease"}

\* activeSessions holds the runs that are starting or running and no other:
\* a session is not blocked by a run that has failed, nor freed under one.
KeysAreOfLiveRuns ==
  keys = {[key |-> Key(c), run |-> c] : c \in {d \in Starts : at[d] \in (Claimed \ {"lease"}) \cup {"running"}}}
=============================================================================
