--------------------------- MODULE HostLifecycle ---------------------------
(***************************************************************************)
(* The lives of the embedded Relay authority of one profile: startAuthority *)
(* of harness-entry.ts, its disposal and its failure path, the owner record *)
(* of the authority registry, and the two files clients find it by.         *)
(*                                                                         *)
(* A Host is one life of a Harness process: it starts once and never comes *)
(* back.  All Hosts are configured for one port, so they share one record   *)
(* of the registry.  The guard of the registry makes acquire and release   *)
(* one step each; FileLock has the protocol of such a guard.                *)
(***************************************************************************)
EXTENDS Integers

CONSTANTS
  Hosts,            \* lives of a Harness process, numbered as they start
  None,             \* "no Host"
  EarlyClose,       \* may a Host close its port before it has disposed of its
                    \* Relay?  ("never", "leased": once it has its lease, "any")
  MaxCrashes,       \* bound: Hosts killed
  MaxFailures       \* bound: steps of a start, and writes, that fail

ASSUME HostLifecycleAssumption ==
  /\ Hosts \subseteq Nat /\ None \notin Nat
  /\ EarlyClose \in {"never", "leased", "any"}
  /\ MaxCrashes \in Nat /\ MaxFailures \in Nat

VARIABLES
  phase,        \* where startAuthority, or the disposal, of a Host awaits
  leased,       \* the epoch of the lease a Host holds; 0: none
  broken,       \* Hosts whose startAuthority has thrown
  aborted,      \* Hosts that are being stopped
  port,         \* the Host that listens on the port
  routes,       \* Hosts whose web server routes to their Relay
  owner,        \* the record in the authority registry
  status,       \* relay-status.json
  descriptor,   \* relay-endpoint.json
  crashes, failures

process == <<phase, leased, broken, aborted>>
network == <<port, routes>>
files   == <<owner, status, descriptor>>
bounds  == <<crashes, failures>>
hostVars == <<process, network, files, bounds>>

-----------------------------------------------------------------------------
Starting  == {"begun", "acquiring", "leased", "setup", "routed", "published", "verified"}
Disposing == {"cleaning", "drained", "withdrawn", "releasing"}
Phases    == {"off", "booting"} \cup Starting \cup {"ready", "failing"}
               \cup Disposing \cup {"idle", "gone"}

Alive(h)  == phase[h] \notin {"off", "gone"}
Live      == {h \in Hosts : Alive(h)}
NoRecord  == [host |-> None, epoch |-> 0]
Record(h) == [host |-> h, epoch |-> leased[h]]

\* lifecycleStatus: a Host without a lease writes neither its pid nor an epoch.
StatusOf(s, h) ==
  [state |-> s, by |-> IF leased[h] = 0 THEN None ELSE h, epoch |-> leased[h]]

\* Before the first Host the profile has no files, or those of a Host that was
\* stopped or killed before.
Init ==
  /\ phase = [h \in Hosts |-> "off"]
  /\ leased = [h \in Hosts |-> 0]
  /\ broken = {} /\ aborted = {} /\ routes = {}
  /\ port = None
  /\ owner = NoRecord /\ descriptor = NoRecord
  /\ \E s \in {"missing", "stopped"} : status = [state |-> s, by |-> None, epoch |-> 0]
  /\ crashes = 0 /\ failures = 0

Goes(h, from, to) == phase[h] = from /\ phase' = [phase EXCEPT ![h] = to]

-----------------------------------------------------------------------------
(* The start.                                                              *)

\* A user, or a client, starts a Harness process.
Launch(h) ==
  /\ Goes(h, "off", "booting")
  /\ \A g \in Hosts : g < h => phase[g] # "off"
  /\ UNCHANGED <<leased, broken, aborted, network, files, bounds>>

\* Its web server takes the port, or the process ends.
Bind(h) ==
  /\ IF port = None
       THEN Goes(h, "booting", "begun") /\ port' = h
       ELSE Goes(h, "booting", "gone") /\ UNCHANGED port
  /\ UNCHANGED <<leased, broken, aborted, routes, files, bounds>>

Begin(h) ==
  /\ Goes(h, "begun", "acquiring")
  /\ status' = StatusOf("starting", h)
  /\ UNCHANGED <<leased, broken, aborted, network, owner, descriptor, bounds>>

\* No owner, or one whose process is dead.
Vacant == owner.host \notin Live

Acquire(h) ==
  /\ Goes(h, "acquiring", "leased")
  /\ h \notin aborted /\ Vacant
  /\ leased' = [leased EXCEPT ![h] = owner.epoch + 1]
  /\ owner' = [host |-> h, epoch |-> owner.epoch + 1]
  /\ UNCHANGED <<broken, aborted, network, status, descriptor, bounds>>

\* The owner stays alive until the budget is spent, or the Host is stopped.
AcquireFails(h) ==
  /\ Goes(h, "acquiring", "failing")
  /\ ~Vacant \/ h \in aborted
  /\ UNCHANGED <<leased, broken, aborted, network, files, bounds>>

Claim(h) ==
  /\ Goes(h, "leased", "setup")
  /\ status' = StatusOf("starting", h)
  /\ UNCHANGED <<leased, broken, aborted, network, owner, descriptor, bounds>>

\* Mutant: the route goes to whoever listens on the port.
MountOnPort(h) ==
  /\ Goes(h, "setup", "routed")
  /\ routes' = routes \cup {port}
  /\ UNCHANGED <<leased, broken, aborted, port, files, bounds>>

Mount(h) ==
  /\ Goes(h, "setup", "routed")
  /\ routes' = routes \cup {h}
  /\ UNCHANGED <<leased, broken, aborted, port, files, bounds>>

Publish(h) ==
  /\ Goes(h, "routed", "published")
  /\ descriptor' = Record(h)
  /\ UNCHANGED <<leased, broken, aborted, network, owner, status, bounds>>

\* Whoever listens on the port routes the request to its Relay.
Answers == port # None /\ port \in routes

\* The handshake with the route just published.
Verify(h) ==
  /\ Goes(h, "published", IF Answers THEN "verified" ELSE "failing")
  /\ UNCHANGED <<leased, broken, aborted, network, files, bounds>>

GoReady(h) ==
  /\ Goes(h, "verified", "ready")
  /\ status' = StatusOf("ready", h)
  /\ UNCHANGED <<leased, broken, aborted, network, owner, descriptor, bounds>>

StartFails(h) ==
  /\ phase[h] \in Starting
  /\ failures < MaxFailures /\ failures' = failures + 1
  /\ phase' = [phase EXCEPT ![h] = "failing"]
  /\ UNCHANGED <<leased, broken, aborted, network, files, crashes>>

\* The catch of startAuthority.  tryWriteRelayStatus swallows a failed write.
WriteFailed(h) ==
  /\ Goes(h, "failing", "cleaning")
  /\ broken' = broken \cup {h}
  /\ \/ status' = StatusOf("failed", h) /\ UNCHANGED failures
     \/ failures < MaxFailures /\ failures' = failures + 1 /\ UNCHANGED status
  /\ UNCHANGED <<leased, aborted, network, owner, descriptor, crashes>>

-----------------------------------------------------------------------------
(* The end: the cleanup that a failed start and a disposal share.          *)

Stop(h) ==
  /\ Alive(h) /\ h \notin aborted
  /\ aborted' = aborted \cup {h}
  /\ UNCHANGED <<phase, leased, broken, network, files, bounds>>

\* The disposer of a start that is over; one under way is over first.
Dispose(h) ==
  /\ Goes(h, "ready", "cleaning")
  /\ h \in aborted
  /\ UNCHANGED <<leased, broken, aborted, network, files, bounds>>

\* Mutant: the lease is released before the files are put right.
DrainReleased(h) ==
  /\ Goes(h, "cleaning", "drained")
  /\ routes' = routes \ {h}
  /\ owner' = IF owner = Record(h) THEN NoRecord ELSE owner
  /\ UNCHANGED <<leased, broken, aborted, port, status, descriptor, bounds>>

\* The route goes, and the requests under way are waited for.
Drain(h) ==
  /\ Goes(h, "cleaning", "drained")
  /\ routes' = routes \ {h}
  /\ UNCHANGED <<leased, broken, aborted, port, files, bounds>>

\* removeEndpoint: a failed start without a lease leaves the file alone.
Withdraw(h) ==
  /\ Goes(h, "drained", IF h \in broken THEN "releasing" ELSE "withdrawn")
  /\ descriptor' = IF h \in broken /\ leased[h] = 0 THEN descriptor ELSE NoRecord
  /\ UNCHANGED <<leased, broken, aborted, network, owner, status, bounds>>

WriteStopped(h) ==
  /\ Goes(h, "withdrawn", "releasing")
  /\ \/ status' = StatusOf("stopped", h) /\ UNCHANGED failures
     \/ failures < MaxFailures /\ failures' = failures + 1 /\ UNCHANGED status
  /\ UNCHANGED <<leased, broken, aborted, network, owner, descriptor, crashes>>

\* Only the record of this very lease is unlinked; the next epoch is then 1.
Release(h) ==
  /\ Goes(h, "releasing", "idle")
  /\ owner' = IF leased[h] # 0 /\ owner = Record(h) THEN NoRecord ELSE owner
  /\ leased' = [leased EXCEPT ![h] = 0]
  /\ UNCHANGED <<broken, aborted, network, status, descriptor, bounds>>

\* A stopping Harness closes its web server beside its plugins.
ClosePort(h) ==
  /\ port = h /\ h \in aborted
  /\ EarlyClose = "any" \/ (EarlyClose = "leased" /\ leased[h] # 0)
  /\ port' = None
  /\ UNCHANGED <<process, routes, files, bounds>>

\* Without a Relay, a Harness whose start of it failed works on until stopped.
Leave(h) ==
  /\ phase' = [phase EXCEPT ![h] = "gone"]
  /\ leased' = [leased EXCEPT ![h] = 0]
  /\ broken' = broken \ {h} /\ aborted' = aborted \ {h}
  /\ port' = IF port = h THEN None ELSE port
  /\ routes' = routes \ {h}
  /\ UNCHANGED files

Exit(h) == phase[h] \in {"booting", "idle"} /\ h \in aborted /\ Leave(h) /\ UNCHANGED bounds

Crash(h) ==
  /\ Alive(h) /\ crashes < MaxCrashes /\ crashes' = crashes + 1
  /\ Leave(h) /\ UNCHANGED failures

-----------------------------------------------------------------------------
Starts(h) ==
  \/ Bind(h) \/ Begin(h) \/ Acquire(h) \/ AcquireFails(h) \/ Claim(h)
  \/ Mount(h) \/ Publish(h) \/ Verify(h) \/ GoReady(h) \/ WriteFailed(h)

Ends(h) ==
  \/ Dispose(h) \/ Drain(h) \/ Withdraw(h) \/ WriteStopped(h) \/ Release(h) \/ Exit(h)

HostSteps(h) ==
  \/ Starts(h) \/ Ends(h) \/ Stop(h) \/ ClosePort(h) \/ Crash(h) \/ StartFails(h)

HostNext == \E h \in Hosts : Launch(h) \/ HostSteps(h)

HostSpec == Init /\ [][HostNext]_hostVars

-----------------------------------------------------------------------------
(* What a client finds: ProxyDiagnosticsFacade.inspect.                    *)

OwnerDead == status.by \notin Live \cup {None}
Failed    == status.state = "failed"

\* The status names a live, ready Host and the descriptor has its epoch.
Passes ==
  /\ status.state = "ready" /\ ~OwnerDead
  /\ descriptor # NoRecord /\ descriptor.epoch = status.epoch

-----------------------------------------------------------------------------
(* Properties.                                                             *)

States  == {"missing", "starting", "ready", "stopped", "failed"}
Records == [host : Hosts \cup {None}, epoch : Nat]

\* The types of the variables: what startAuthority awaits, whose lease, port,
\* route and files there are.
TypeOK ==
  /\ phase \in [Hosts -> Phases]
  /\ leased \in [Hosts -> Nat]
  /\ broken \subseteq Hosts /\ aborted \subseteq Hosts /\ routes \subseteq Hosts
  /\ port \in Hosts \cup {None}
  /\ owner \in Records /\ descriptor \in Records
  /\ status \in [state : States, by : Hosts \cup {None}, epoch : Nat]
  /\ crashes \in Nat /\ failures \in Nat

\* A Host that has become ready is found until it is stopped: the status names
\* it, the descriptor and the owner record have its epoch, and its port answers
\* by its own route (harness-entry.ts:202-246).  The late writes and unlinks of
\* another Host, stopping or failing, would take that away.
ServingIsAdvertised ==
  \A h \in Hosts :
    (phase[h] = "ready" /\ h \notin aborted) =>
      /\ status = StatusOf("ready", h) /\ leased[h] # 0
      /\ descriptor = Record(h) /\ owner = Record(h)
      /\ port = h /\ h \in routes
=============================================================================
