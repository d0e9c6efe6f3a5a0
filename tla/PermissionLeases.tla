-------------------------- MODULE PermissionLeases --------------------------
(***************************************************************************)
(* The permission preset of one reused Harness session, which runs borrow  *)
(* one after another: PermissionController, and what startRun, refresh,    *)
(* finalize, reconcile_permissions and a restart do with it.               *)
(*                                                                         *)
(* A process is one call: the start_run of a run, or a call that restores  *)
(* (a poll, or reconcile_permissions).  It works on undisturbed from one   *)
(* await to the next.  A run has at most one lease, named by the run.      *)
(***************************************************************************)
EXTENDS Integers, Sequences

CONSTANTS
  Runs,          \* runs, each started once by the call of its name
  Callers,       \* calls that poll or reconcile, one after another
  Presets,       \* permission presets
  Grant,         \* the preset a run asks for
  Original,      \* the preset of the session before the first run
  None,          \* "no run"
  Overlap,       \* may two calls restore or refresh at the same time?
  AtWork,        \* may reconcile_permissions be called while a run is at work?
  MaxCrashes,    \* bound: restarts of the process
  MaxErrors      \* bound: Host calls and writes that fail

ASSUME PermissionLeasesAssumption ==
  /\ Runs \cap Callers = {} /\ None \notin Runs \cup Callers
  /\ Grant \in [Runs -> Presets] /\ Original \in Presets
  /\ Overlap \in BOOLEAN /\ AtWork \in BOOLEAN
  /\ MaxCrashes \in Nat /\ MaxErrors \in Nat

VARIABLES
  preset,    \* Host: the preset of the session
  turn,      \* Host: what became of the prompt of a run
  leases,    \* RelayFacade.permissionLeases
  order,     \* the runs that have a lease, in the order of that Map
  status,    \* the status of a run: none, running or over
  active,    \* RelayFacade.activeSessions: the run that has the session
  file,      \* leases and statuses in the state file
  queue,     \* RelayStateStore.writes: copies that wait to be merged
  pc,        \* where a call awaits
  target,    \* the run a call refreshes
  held,      \* the lease a call grants or restores
  after,     \* what a call does when a restore returns: end, or save
  seen,      \* the answer of the Host a call is about to see
  crashes, errors

host   == <<preset, turn>>
memory == <<leases, order, status, active>>
disk   == <<file, queue>>
calls  == <<pc, target, held, after, seen>>
bounds == <<crashes, errors>>
vars   == <<host, memory, disk, calls, bounds>>

-----------------------------------------------------------------------------
Procs == Runs \cup Callers

LeaseStates == {"none", "prepared", "acquired", "restoring", "released", "needs_attention"}
Statuses    == {"none", "running", "over"}
Turns       == {"none", "working", "ended", "lost", "rejected"}

Saving  == {"savingPrepared", "savingAcquired", "savingRefusal", "savingRun",
            "savingRestoring", "savingReleased", "savingAttention", "savingFinal"}
Refreshing == {"listing", "listed", "history"}
Restoring  == {"savingRestoring", "restoring", "restored", "savingReleased", "savingAttention"}
Points  == Saving \cup Refreshing \cup Restoring \cup
           {"idle", "checking", "reading", "read", "granting", "granted", "baseline", "prompting", "done"}

NoLease == [prev |-> Original, state |-> "none"]

Resting(p) == pc[p] \in {"idle", "done"}
Alone(p)   == \A q \in Procs \ {p} : pc[q] \notin Refreshing \cup Restoring
Quiet(p)   == (\A q \in Procs \ {p} : Resting(q)) /\ \A r \in Runs : turn[r] # "working"

Running == \E r \in Runs : turn[r] = "working"     \* what listSessions() says

Init ==
  /\ preset = Original /\ turn = [r \in Runs |-> "none"]
  /\ leases = [r \in Runs |-> NoLease] /\ order = <<>>
  /\ status = [r \in Runs |-> "none"] /\ active = None
  /\ file = [leases |-> leases, status |-> status] /\ queue = <<>>
  /\ pc = [p \in Procs |-> "idle"] /\ target = [p \in Procs |-> None]
  /\ held = [p \in Procs |-> None] /\ after = [p \in Procs |-> "end"]
  /\ seen = [p \in Procs |-> Original]
  /\ crashes = 0 /\ errors = 0

-----------------------------------------------------------------------------
(* Building blocks.                                                        *)

Goto(p, point) == pc' = [pc EXCEPT ![p] = point]

\* persist(): a copy of the memory, as it is after this step, joins the queue.
Save(p, point, q) ==
  /\ Goto(p, point)
  /\ queue' = Append(q, [by |-> p, leases |-> leases', status |-> status'])

Continue(p, point, q) == Goto(p, point) /\ queue' = q

Rest(p, q) == Continue(p, IF p \in Runs THEN "done" ELSE "idle", q)

SetLease(r, state) == leases' = [leases EXCEPT ![r].state = state]

Unreleased(l) == l.state \notin {"none", "released"}

IsFirstSettled(n) == leases[order[n]].state \notin {"none", "released", "restoring"}
IsFirstUnflagged(n) == leases[order[n]].state \notin {"none", "released", "needs_attention"}

\* activeForSession(): the first lease that is not released.
IsFirst(n) == /\ Unreleased(leases[order[n]])
              /\ \A m \in 1..(n - 1) : ~Unreleased(leases[order[m]])
ActiveLease == IF \E n \in 1..Len(order) : IsFirst(n)
               THEN order[CHOOSE n \in 1..Len(order) : IsFirst(n)] ELSE None

\* What a call does when restoreSession() returns.
Leave(p, then, q) ==
  \/ then = "end" /\ Rest(p, q)
  \/ then = "save" /\ Save(p, "savingFinal", q)

\* restoreSession(): the active lease, if it is the owner's, or if no owner is
\* named.
Restore(p, owner, then, q) ==
  LET mine == ActiveLease # None /\ owner \in {None, ActiveLease} IN
  /\ after' = [after EXCEPT ![p] = then]
  /\ \/ ~mine /\ UNCHANGED <<leases, held>> /\ Leave(p, then, q)
     \/ /\ mine
        /\ held' = [held EXCEPT ![p] = ActiveLease]
        /\ SetLease(ActiveLease, "restoring")
        /\ Save(p, "savingRestoring", q)

\* RunReconciler.finalize(): the session is free before its preset is back.
FreeSessionLater == UNCHANGED active
FreeSession == active' = None
Finalize(p, r, q) ==
  /\ status' = [status EXCEPT ![r] = "over"]
  /\ FreeSession
  /\ Restore(p, r, "save", q)

\* startRun's catch block, before the run exists and after a rejection.
Catch(p, q) ==
  /\ active' = IF status[p] = "none" THEN None ELSE active
  /\ UNCHANGED status
  /\ Restore(p, p, "end", q)

-----------------------------------------------------------------------------
(* startRun.                                                               *)

\* The session is free and no other start has it.
Begin(r) ==
  /\ pc[r] = "idle" /\ active = None
  /\ \A q \in Runs \ {r} : Resting(q)
  /\ active' = r
  /\ Goto(r, "checking")
  /\ UNCHANGED <<host, leases, order, status, disk, target, held, after, seen, bounds>>

\* A failure before the lease: busy session, model, unknown preset, ...
SetUpFails(r) ==
  /\ pc[r] \in {"checking", "reading"}
  /\ Catch(r, queue)
  /\ UNCHANGED <<host, order, file, target, seen, bounds>>

\* PERMISSION_LEASE_CONFLICT, or ask for the current preset.
Check(r) ==
  /\ pc[r] = "checking"
  /\ \/ ActiveLease # None /\ Catch(r, queue)
     \/ ActiveLease = None /\ Goto(r, "reading") /\ UNCHANGED <<leases, status, active, queue, held, after>>
  /\ UNCHANGED <<host, order, file, target, seen, bounds>>

HostReads(r) ==
  /\ pc[r] = "reading"
  /\ seen' = [seen EXCEPT ![r] = preset]
  /\ Goto(r, "read")
  /\ UNCHANGED <<host, memory, disk, target, held, after, bounds>>

PrepareUnsaved(r) ==
  /\ leases' = [leases EXCEPT ![r] = [prev |-> seen[r], state |-> "prepared"]]
  /\ Continue(r, "granting", queue)

PrepareLease(r) ==
  /\ leases' = [leases EXCEPT ![r] = [prev |-> seen[r], state |-> "prepared"]]
  /\ Save(r, "savingPrepared", queue)

\* No lease is needed if the preset is the one in force already.
Prepare(r) ==
  /\ pc[r] = "read"
  /\ UNCHANGED <<host, status, active, file, target, after, seen, bounds>>
  /\ \/ /\ seen[r] = Grant[r]
        /\ Goto(r, "baseline") /\ UNCHANGED <<leases, order, queue, held>>
     \/ /\ seen[r] # Grant[r]
        /\ order' = Append(order, r) /\ held' = [held EXCEPT ![r] = r]
        /\ PrepareLease(r)

\* The run exists from here on: it is saved, then its prompt is submitted.
Baseline(r) ==
  /\ pc[r] = "baseline"
  /\ status' = [status EXCEPT ![r] = "running"]
  /\ UNCHANGED leases
  /\ Save(r, "savingRun", queue)
  /\ UNCHANGED <<host, order, active, file, target, held, after, seen, bounds>>

BaselineFails(r) ==
  /\ pc[r] = "baseline"
  /\ Catch(r, queue)
  /\ UNCHANGED <<host, order, file, target, seen, bounds>>

\* The Host takes the prompt, or loses it; the run is then refreshed.
SendPrompt(r) ==
  /\ pc[r] = "prompting"
  /\ Overlap \/ Alone(r)
  /\ \E t \in {"working", "lost"} : turn' = [turn EXCEPT ![r] = t]
  /\ target' = [target EXCEPT ![r] = r]
  /\ Goto(r, "listing")
  /\ UNCHANGED <<preset, memory, disk, held, after, seen, bounds>>

PromptRejected(r) ==
  /\ pc[r] = "prompting"
  /\ Overlap \/ Alone(r)
  /\ turn' = [turn EXCEPT ![r] = "rejected"]
  /\ Finalize(r, r, queue)
  /\ UNCHANGED <<preset, order, file, target, seen, bounds>>

TurnEnds(r) ==
  /\ turn[r] = "working"
  /\ turn' = [turn EXCEPT ![r] = "ended"]
  /\ UNCHANGED <<preset, memory, disk, calls, bounds>>

-----------------------------------------------------------------------------
(* Polls: RunReconciler.refresh.                                           *)

Poll(c, r) ==
  /\ pc[c] = "idle" /\ status[r] = "running"
  /\ Overlap \/ Alone(c)
  /\ target' = [target EXCEPT ![c] = r]
  /\ Goto(c, "listing")
  /\ UNCHANGED <<host, memory, disk, held, after, seen, bounds>>

\* The Host answers listSessions() ...
HostLists(p) ==
  /\ pc[p] = "listing"
  /\ Goto(p, IF Running THEN "listed" ELSE "history")
  /\ UNCHANGED <<host, memory, disk, target, held, after, seen, bounds>>

\* ... and a session that was running belongs to this run, whatever has
\* happened since.
ListedRunning(p) ==
  /\ pc[p] = "listed"
  /\ active' = target[p]
  /\ Goto(p, "history")
  /\ UNCHANGED <<host, leases, order, status, disk, target, held, after, seen, bounds>>

Concluded(r) == turn[r] = "ended" \/ (turn[r] = "lost" /\ ~Running)

\* The history shows that the turn ended, or that there is none.
ReadHistory(p) ==
  LET r == target[p] IN
  /\ pc[p] = "history"
  /\ \/ Concluded(r) /\ Finalize(p, r, queue)
     \/ /\ ~Concluded(r)
        /\ UNCHANGED <<leases, status, active, held, after>>
        /\ Save(p, "savingFinal", queue)
  /\ UNCHANGED <<host, order, file, target, seen, bounds>>

\* listSessions() or the history throws, and so does refresh.
RefreshFails(p) ==
  /\ pc[p] \in {"listing", "history"}
  /\ errors < MaxErrors /\ errors' = errors + 1
  /\ Rest(p, queue)
  /\ UNCHANGED <<host, memory, file, target, held, after, seen, crashes>>

\* reconcile_permissions names a session, not an owner.
ReconcilePermissions(c) ==
  /\ pc[c] = "idle" /\ ActiveLease # None
  /\ UNCHANGED <<host, order, status, active, file, target, seen, bounds>>
  /\ IF AtWork THEN Overlap \/ Alone(c) ELSE Quiet(c)
  /\ Restore(c, None, "end", queue)

-----------------------------------------------------------------------------
(* PermissionGateway.select: set the preset, then confirm it.              *)

Wanted(p) == IF pc[p] \in {"granting", "granted"} THEN Grant[held[p]] ELSE leases[held[p]].prev

HostSelects(p) ==
  /\ pc[p] \in {"granting", "restoring"}
  /\ preset' = Wanted(p)
  /\ Goto(p, IF pc[p] = "granting" THEN "granted" ELSE "restored")
  /\ UNCHANGED <<turn, memory, disk, target, held, after, seen, bounds>>

Confirmed(p) ==
  /\ pc[p] \in {"granted", "restored"} /\ preset = Wanted(p)
  /\ SetLease(held[p], IF pc[p] = "granted" THEN "acquired" ELSE "released")
  /\ UNCHANGED status
  /\ Save(p, IF pc[p] = "granted" THEN "savingAcquired" ELSE "savingReleased", queue)
  /\ UNCHANGED <<host, order, active, file, target, held, after, seen, bounds>>

AttentionFailed(p, grants, q) ==
  /\ SetLease(held[p], "failed")
  /\ UNCHANGED status
  /\ Save(p, IF grants THEN "savingRefusal" ELSE "savingAttention", q)

Attention(p, grants, q) ==
  /\ SetLease(held[p], "needs_attention")
  /\ UNCHANGED status
  /\ Save(p, IF grants THEN "savingRefusal" ELSE "savingAttention", q)

\* The Host refuses, the answer is lost, or another preset is confirmed.
SelectFails(p) ==
  /\ pc[p] \in {"granting", "restoring", "granted", "restored"}
  /\ \/ pc[p] \in {"granted", "restored"} /\ preset # Wanted(p) /\ UNCHANGED errors
     \/ errors < MaxErrors /\ errors' = errors + 1
  /\ Attention(p, pc[p] \in {"granting", "granted"}, queue)
  /\ UNCHANGED <<host, order, active, file, target, held, after, seen, crashes>>

-----------------------------------------------------------------------------
(* The write queue.                                                        *)

Awaited(p) == queue # <<>> /\ Head(queue).by = p

\* An exception leaves the call; after a rejection startRun catches it.
Throw(p, q) ==
  \/ p \in Runs /\ turn[p] = "rejected" /\ after[p] = "save" /\ Catch(p, q)
  \/ /\ ~(p \in Runs /\ turn[p] = "rejected" /\ after[p] = "save")
     /\ Rest(p, q) /\ UNCHANGED <<leases, status, active, held, after>>

Step(p, point, q) == Continue(p, point, q) /\ UNCHANGED <<leases, status, active, held, after>>

SaveDone(p) ==
  LET q == Tail(queue) IN
  /\ Awaited(p)
  /\ file' = [leases |-> Head(queue).leases, status |-> Head(queue).status]
  /\ \/ pc[p] = "savingPrepared"  /\ Step(p, "granting", q)
     \/ pc[p] = "savingAcquired"  /\ Step(p, "baseline", q)
     \/ pc[p] = "savingRun"       /\ Step(p, "prompting", q)
     \/ pc[p] = "savingRestoring" /\ Step(p, "restoring", q)
     \/ pc[p] = "savingRefusal"   /\ Catch(p, q)
     \/ pc[p] = "savingFinal"     /\ Rest(p, q) /\ UNCHANGED <<leases, status, active, held, after>>
     \/ /\ pc[p] \in {"savingReleased", "savingAttention"}
        /\ UNCHANGED <<leases, status, active, held, after>>
        /\ Leave(p, after[p], q)
  /\ UNCHANGED <<host, order, target, seen, bounds>>

\* The file stays as it was; each await has a handler of its own.
SaveFails(p) ==
  LET q == Tail(queue) IN
  /\ Awaited(p)
  /\ errors < MaxErrors /\ errors' = errors + 1
  /\ \/ pc[p] \in {"savingPrepared", "savingRefusal"} /\ Catch(p, q)
     \/ pc[p] = "savingRun" /\ Finalize(p, p, q)
     \/ /\ pc[p] \in {"savingAcquired", "savingReleased"}
        /\ Attention(p, pc[p] = "savingAcquired", q) /\ UNCHANGED <<active, held, after>>
     \/ pc[p] \in {"savingRestoring", "savingAttention", "savingFinal"} /\ Throw(p, q)
  /\ UNCHANGED <<host, order, file, target, seen, crashes>>

\* The process dies; restoreState() reads the file, gives the session to a run
\* that is running and marks leases that have expired.
Restart ==
  /\ crashes < MaxCrashes /\ crashes' = crashes + 1
  /\ \E expired \in SUBSET {r \in Runs : Unreleased(file.leases[r])} :
       leases' = [r \in Runs |-> IF r \in expired THEN [file.leases[r] EXCEPT !.state = "needs_attention"]
                                 ELSE file.leases[r]]
  /\ status' = file.status
  /\ \/ \E r \in Runs : file.status[r] = "running" /\ active' = r
     \/ (\A r \in Runs : file.status[r] # "running") /\ active' = None
  /\ file' = [file EXCEPT !.leases = leases'] /\ queue' = <<>>
  /\ pc' = [p \in Procs |-> IF p \in Runs /\ pc[p] # "idle" THEN "done" ELSE "idle"]
  /\ UNCHANGED <<host, order, target, held, after, seen, errors>>

StartRun(r) ==
  \/ Begin(r) \/ SetUpFails(r) \/ Check(r) \/ HostReads(r) \/ Prepare(r)
  \/ Baseline(r) \/ BaselineFails(r) \/ SendPrompt(r) \/ PromptRejected(r)

Goes(p) ==
  \/ HostLists(p) \/ ListedRunning(p) \/ ReadHistory(p)
  \/ HostSelects(p) \/ Confirmed(p) \/ SelectFails(p) \/ SaveDone(p)

Next ==
  \/ \E r \in Runs : StartRun(r) \/ TurnEnds(r)
  \/ \E c \in Callers : ReconcilePermissions(c) \/ \E r \in Runs : Poll(c, r)
  \/ \E p \in Procs : Goes(p) \/ RefreshFails(p) \/ SaveFails(p)
  \/ Restart

Spec == Init /\ [][Next]_vars

\* Calls end because every await has a timeout, turns end, clients poll the
\* runs they started, and an operator reconciles what needs attention.
Fairness ==
  /\ \A r \in Runs : WF_vars(StartRun(r) /\ pc[r] # "idle") /\ WF_vars(TurnEnds(r))
  /\ \A r \in Runs : SF_vars(\E c \in Callers : Poll(c, r))
  /\ \A p \in Procs : WF_vars(Goes(p))
  /\ SF_vars(\E c \in Callers : ReconcilePermissions(c))

FairSpec == Spec /\ Fairness

-----------------------------------------------------------------------------
(* Properties.                                                             *)

Lease == [prev: Presets, state: LeaseStates]

TypeOK ==
  /\ preset \in Presets /\ turn \in [Runs -> Turns]
  /\ leases \in [Runs -> Lease] /\ order \in Seq(Runs) /\ status \in [Runs -> Statuses]
  /\ active \in Runs \cup {None}
  /\ file \in [leases: [Runs -> Lease], status: [Runs -> Statuses]]
  /\ \A n \in 1..Len(queue) : queue[n] \in [by: Procs, leases: [Runs -> Lease], status: [Runs -> Statuses]]
  /\ pc \in [Procs -> Points] /\ target \in [Procs -> Runs \cup {None}]
  /\ held \in [Procs -> Runs \cup {None}] /\ after \in [Procs -> {"end", "save"}]
  /\ seen \in [Procs -> Presets]
  /\ crashes \in 0..MaxCrashes /\ errors \in 0..MaxErrors

\* Write-ahead of the loan: whenever the Host has another preset than the
\* session came with, the state file has a lease that says what to give back,
\* at any moment at which the process may die.
LoanIsOnDisk ==
  preset # Original => \E r \in Runs : Unreleased(file.leases[r]) /\ file.leases[r].prev = Original

\* A run works under the preset it was granted, until its turn ends: no
\* restore that belongs to an earlier run, no other start changes it.
GrantInForce == \A r \in Runs : turn[r] = "working" => preset = Grant[r]

\* A session is not kept by a run that is over, once no call is under way.
SessionIsFreed ==
  (\A p \in Procs : Resting(p)) => active = None \/ status[active] = "running"

\* A lease the state file calls released stays so: nothing gives its preset
\* back again, into a later run.
ReleasedIsFinal ==
  [][\A r \in Runs : file.leases[r].state = "released" => file'.leases[r].state = "released"]_vars

NothingIsOwed == preset = Original /\ \A r \in Runs : ~Unreleased(leases[r])

\* What was borrowed is given back, in the end, whatever fails: the session
\* has its preset again and every lease is released.
GivenBack == <>[]NothingIsOwed
=============================================================================
