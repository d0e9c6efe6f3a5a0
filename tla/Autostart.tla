----------------------------- MODULE Autostart -----------------------------
(***************************************************************************)
(* How the stdio proxies of the clients of one profile start a Host that is *)
(* down: HarnessHostAutostartFacade.recover, run by refreshRemote before a  *)
(* tool call, while the Hosts of HostLifecycle come and go.                 *)
(*                                                                         *)
(* A proxy refreshes its connection once at a time (ensureRemote joins the *)
(* calls that come meanwhile).  recoverStale and the start lock appear as  *)
(* one step each, and the lock excludes: FileLock assures this of recoveries *)
(* that come one at a time, and shows what two at once can do.              *)
(***************************************************************************)
EXTENDS HostLifecycle

CONSTANTS
  Proxies,       \* stdio proxies, each the server of one client
  Patient,       \* is the start timeout longer than a Host takes to start?
  MaxMishaps     \* bound: proxies killed, and launches refused

ASSUME AutostartAssumption ==
  /\ Proxies \cap Hosts = {} /\ {None, "dead"} \cap Proxies = {}
  /\ Patient \in BOOLEAN /\ MaxMishaps \in Nat

VARIABLES
  at,           \* where recover awaits
  lock,         \* relay-autostart.lock: the proxy that holds it, or a dead one
  pending,      \* history: who launched the Hosts that are on their way, in
                \* this outage and by proxies not killed since
  mishaps

vars == <<hostVars, at, lock, pending, mishaps>>

-----------------------------------------------------------------------------
Dead == "dead"
Places == {"idle", "recover", "locking", "checking", "probing", "spawning",
           "waiting"}

AutostartInit ==
  /\ Init
  /\ at = [p \in Proxies |-> "idle"]
  /\ lock = None /\ pending = {} /\ mishaps = 0

-----------------------------------------------------------------------------
(* HarnessHostAutostartFacade.recover.                                     *)

\* Mutant: a Host that was stopped stays down.
RecoverableDead == status.state \notin {"missing", "failed"} /\ OwnerDead

\* isRecoverable, of a status that has a launcher, a port and an entry.
Recoverable ==
  /\ status.state \notin {"missing", "failed"}
  /\ OwnerDead \/ status.state = "stopped"

\* Hosts on their way.
Underway == {h \in Hosts : phase[h] \in {"booting", "failing"} \cup Starting}

Moves(p, from, to) == at[p] = from /\ at' = [at EXCEPT ![p] = to]

\* A call finds the Host down; one that does not, changes nothing here.
Call(p) ==
  /\ Moves(p, "idle", "recover")
  /\ Recoverable
  /\ UNCHANGED <<hostVars, lock, pending, mishaps>>

\* Mutant: a lock that is held is taken for a stale one.
RecoverHeld(p) ==
  /\ Moves(p, "recover", "locking")
  /\ lock' = None
  /\ UNCHANGED <<hostVars, pending, mishaps>>

RecoverStale(p) ==
  /\ Moves(p, "recover", "locking")
  /\ lock' = IF lock = Dead THEN None ELSE lock
  /\ UNCHANGED <<hostVars, pending, mishaps>>

Lock(p) ==
  /\ Moves(p, "locking", "checking")
  /\ lock = None /\ lock' = p
  /\ UNCHANGED <<hostVars, pending, mishaps>>

LockTimesOut(p) ==
  /\ Moves(p, "locking", "idle")
  /\ lock # None
  /\ UNCHANGED <<hostVars, lock, pending, mishaps>>

\* The finally of recover: nothing but this proxy is affected by what lies
\* between its conclusion and the release of the lock.
Returns(p, from) == Moves(p, from, "idle") /\ lock' = None

Check(p) ==
  /\ IF Recoverable
       THEN Moves(p, "checking", "probing") /\ UNCHANGED lock
       ELSE Returns(p, "checking")
  /\ UNCHANGED <<hostVars, pending, mishaps>>

Probe(p) ==
  /\ Moves(p, "probing", IF port = None THEN "spawning" ELSE "waiting")
  /\ UNCHANGED <<hostVars, lock, pending, mishaps>>

Spawn(p) ==
  /\ Moves(p, "spawning", "waiting")
  /\ \E h \in Hosts : Launch(h) /\ pending' = pending \cup {<<p, h>>}
  /\ UNCHANGED <<lock, mishaps>>

\* The operating system refuses to create the process.
SpawnFails(p) ==
  /\ Returns(p, "spawning")
  /\ mishaps < MaxMishaps /\ mishaps' = mishaps + 1
  /\ UNCHANGED <<hostVars, pending>>

\* waitForReady sees a Host that serves, or one that has failed.
Sees(p) ==
  /\ Returns(p, "waiting")
  /\ Passes \/ Failed
  /\ UNCHANGED <<hostVars, pending, mishaps>>

\* The deadline, which was set before the lock was asked for.
DeadlinePasses(p) ==
  /\ Returns(p, "waiting")
  /\ ~Passes
  /\ Patient => Underway = {}
  /\ UNCHANGED <<hostVars, pending, mishaps>>

\* The client ends its proxy, and starts another.
Kill(p) ==
  /\ at[p] # "idle"
  /\ mishaps < MaxMishaps /\ mishaps' = mishaps + 1
  /\ at' = [at EXCEPT ![p] = "idle"]
  /\ lock' = IF lock = p THEN Dead ELSE lock
  /\ pending' = {l \in pending : l[1] # p}
  /\ UNCHANGED hostVars

-----------------------------------------------------------------------------
\* An outage begins, or ends, with a write of the status or an owner's death.
HostStep(h) ==
  /\ HostSteps(h)
  /\ pending' = IF status' # status \/ OwnerDead' # OwnerDead
                  THEN {} ELSE {l \in pending : l[2] \in Underway'}
  /\ UNCHANGED <<at, lock, mishaps>>

UserStarts(h) == Launch(h) /\ UNCHANGED <<at, lock, pending, mishaps>>

Recover(p) ==
  \/ Call(p) \/ RecoverStale(p) \/ Check(p) \/ Probe(p) \/ Spawn(p)
  \/ Sees(p) \/ DeadlinePasses(p)

Next ==
  \/ \E h \in Hosts : HostStep(h) \/ UserStarts(h)
  \/ \E p \in Proxies :
       Recover(p) \/ Lock(p) \/ LockTimesOut(p) \/ SpawnFails(p) \/ Kill(p)

Spec == AutostartInit /\ [][Next]_vars

\* A Host goes on with what it has begun, clients go on calling, and a client
\* that asks for the start lock again and again gets it once.
Fairness ==
  /\ \A h \in Hosts : WF_vars(HostStep(h) /\ (Starts(h) \/ Ends(h)))
  /\ \A p \in Proxies : WF_vars(Recover(p)) /\ SF_vars(Lock(p))

FairSpec == Spec /\ Fairness

-----------------------------------------------------------------------------
(* Properties.                                                             *)

\* The types of the variables, those of HostLifecycle included.
AutostartTypeOK ==
  /\ TypeOK
  /\ at \in [Proxies -> Places]
  /\ lock \in Proxies \cup {None, Dead}
  /\ pending \subseteq Proxies \X Hosts

\* "Concurrent clients converge on one launch" (README.md:399): in one outage,
\* from the status or death that began it to the next, clients never have two
\* Hosts on their way, though each decides by files it read before and the user
\* may start a Host meanwhile.
OneLaunch == \A l, k \in pending : l = k

\* The Host is down: its last status was not "failed", and no process lives.
Down ==
  /\ status.state = "stopped" \/ (status.by # None /\ ~Failed)
  /\ \A h \in Hosts : phase[h] \in {"off", "gone"}

\* Clients do not try again what a start has failed at, nor the start of a
\* process that was killed before it had written its pid.
NeedsUser ==
  \/ Failed \/ (status.state = "starting" /\ status.by = None)
  \/ \A h \in Hosts : phase[h] # "off"

\* A Host that is down comes back by the calls of the clients alone, whatever
\* was killed while they started it (host-autostart-facade.ts:54-112), unless
\* it now takes the user.
Recovers == Down ~> (NeedsUser \/ \E h \in Hosts : phase[h] = "ready")
=============================================================================
