-------------------------- MODULE AutostartProofs --------------------------
(***************************************************************************)
(* Proofs about HostLifecycle and Autostart, for any number of clients,     *)
(* lives, kills and failures.  Hosts: one that writes the status or the     *)
(* descriptor holds the lease, and then the owner record is its own; or it  *)
(* has no lease yet, and then the port is its own.  A ready Host that is    *)
(* not being stopped has both, so no other Host writes.  Clients: to the    *)
(* Hosts they are one more reason to be launched; and a client that         *)
(* launches one keeps the start lock while the others would still find the  *)
(* Host down.                                                              *)
(***************************************************************************)
EXTENDS Autostart, TLAPS

Unleased == {"off", "booting", "begun", "acquiring"}
Leasing  == {"leased", "setup", "routed", "published", "verified", "ready", "withdrawn"}

\* A lease is the owner record; a Host has one from acquire to release.
Owning(g) ==
  /\ leased[g] # 0 => Alive(g) /\ owner.host = g /\ owner.epoch = leased[g]
  /\ phase[g] \in Unleased => leased[g] = 0
  /\ phase[g] \in Leasing => leased[g] # 0
  /\ phase[g] \in {"cleaning", "drained"} /\ g \notin broken => leased[g] # 0

\* What a Host has published stays until it withdraws it.
Published(g) ==
  /\ phase[g] \in {"routed", "published", "verified", "ready"} => g \in routes
  /\ phase[g] \in {"published", "verified", "ready"} =>
       descriptor.host = g /\ descriptor.epoch = leased[g]

\* The status names a Host that has started.
Named(g) == status.by = g => phase[g] # "off"

LeaseInv ==
  /\ TypeOK
  /\ \A g \in Hosts : Owning(g) /\ Published(g) /\ Named(g)

\* A Host that may write without a lease, or is not being stopped, has the port.
Listening(g) ==
  phase[g] \in Starting \cup {"ready", "failing"} /\ (leased[g] = 0 \/ g \notin aborted)
    => port = g

Announced(g) ==
  phase[g] = "ready" /\ g \notin aborted => status = StatusOf("ready", g)

PortInv == \A g \in Hosts : Listening(g) /\ Announced(g)

-----------------------------------------------------------------------------
LEMMA LeaseInitially == ASSUME Init PROVE LeaseInv
BY HostLifecycleAssumption DEF Init, LeaseInv, Owning, Published, Named,
   Unleased, Leasing, TypeOK, Phases, Disposing, Starting, Records, States,
   Alive, Record, NoRecord, StatusOf, hostVars, process, network, files,
   bounds

\* A Host acquires only what nobody alive owns, and releases only its own.
LEMMA LeaseInductive ==
  ASSUME LeaseInv, [HostNext]_hostVars
  PROVE  LeaseInv'
<1> USE HostLifecycleAssumption DEF LeaseInv, Owning, Published, Named,
     Unleased, Leasing, TypeOK, Phases, Disposing, Starting, Records, States,
     Alive, Record, NoRecord, StatusOf, hostVars, process, network, files,
     bounds
<1>1. ASSUME NEW h \in Hosts, Launch(h) PROVE LeaseInv'
    BY <1>1 DEF Launch, Goes
<1>2. ASSUME NEW h \in Hosts, Bind(h) PROVE LeaseInv'
    BY <1>2 DEF Bind, Goes
<1>3. ASSUME NEW h \in Hosts, Begin(h) PROVE LeaseInv'
    BY <1>3 DEF Begin, Goes
<1>4. ASSUME NEW h \in Hosts, Acquire(h) PROVE LeaseInv'
    BY <1>4 DEF Acquire, Goes, Vacant, Live, Alive
<1>5. ASSUME NEW h \in Hosts, AcquireFails(h) PROVE LeaseInv'
    BY <1>5 DEF AcquireFails, Goes
<1>6. ASSUME NEW h \in Hosts, Claim(h) PROVE LeaseInv'
    BY <1>6 DEF Claim, Goes
<1>7. ASSUME NEW h \in Hosts, Mount(h) PROVE LeaseInv'
    BY <1>7 DEF Mount, Goes
<1>8. ASSUME NEW h \in Hosts, Publish(h) PROVE LeaseInv'
    BY <1>8 DEF Publish, Goes
<1>9. ASSUME NEW h \in Hosts, Verify(h) PROVE LeaseInv'
    BY <1>9 DEF Verify, Goes
<1>10. ASSUME NEW h \in Hosts, GoReady(h) PROVE LeaseInv'
    BY <1>10 DEF GoReady, Goes
<1>11. ASSUME NEW h \in Hosts, StartFails(h) PROVE LeaseInv'
    BY <1>11 DEF StartFails
<1>12. ASSUME NEW h \in Hosts, WriteFailed(h) PROVE LeaseInv'
    BY <1>12 DEF WriteFailed, Goes
<1>13. ASSUME NEW h \in Hosts, Stop(h) PROVE LeaseInv'
    BY <1>13 DEF Stop
<1>14. ASSUME NEW h \in Hosts, Dispose(h) PROVE LeaseInv'
    BY <1>14 DEF Dispose, Goes
<1>15. ASSUME NEW h \in Hosts, Drain(h) PROVE LeaseInv'
    BY <1>15 DEF Drain, Goes
<1>16. ASSUME NEW h \in Hosts, Withdraw(h) PROVE LeaseInv'
    BY <1>16 DEF Withdraw, Goes
<1>17. ASSUME NEW h \in Hosts, WriteStopped(h) PROVE LeaseInv'
    BY <1>17 DEF WriteStopped, Goes
<1>18. ASSUME NEW h \in Hosts, Release(h) PROVE LeaseInv'
    BY <1>18 DEF Release, Goes
<1>19. ASSUME NEW h \in Hosts, ClosePort(h) PROVE LeaseInv'
    BY <1>19 DEF ClosePort
<1>20. ASSUME NEW h \in Hosts, Exit(h) PROVE LeaseInv'
    BY <1>20 DEF Exit, Leave
<1>21. ASSUME NEW h \in Hosts, Crash(h) PROVE LeaseInv'
    BY <1>21 DEF Crash, Leave
<1>22. CASE UNCHANGED hostVars
    BY <1>22
<1> QED BY <1>1, <1>2, <1>3, <1>4, <1>5, <1>6, <1>7, <1>8, <1>9, <1>10, <1>11,
     <1>12, <1>13, <1>14, <1>15, <1>16, <1>17, <1>18, <1>19, <1>20, <1>21,
     <1>22 DEF HostNext, HostSteps, Starts, Ends

LEMMA PortInitially == ASSUME Init PROVE PortInv
BY DEF Init, PortInv, Listening, Announced, Starting

\* Two Hosts that may write have the lease, or the port, both: they are one.
LEMMA PortInductive ==
  ASSUME EarlyClose # "any", LeaseInv, PortInv, [HostNext]_hostVars
  PROVE  PortInv'
<1> USE HostLifecycleAssumption DEF LeaseInv, Owning, Published, Named,
     Unleased, Leasing, PortInv, Listening, Announced, TypeOK, Phases,
     Disposing, Starting, Records, States, Alive, Record, NoRecord, StatusOf,
     hostVars, process, network, files, bounds
<1>1. ASSUME NEW h \in Hosts, Launch(h) PROVE PortInv'
    BY <1>1 DEF Launch, Goes
<1>2. ASSUME NEW h \in Hosts, Bind(h) PROVE PortInv'
    BY <1>2 DEF Bind, Goes
<1>3. ASSUME NEW h \in Hosts, Begin(h) PROVE PortInv'
    BY <1>3 DEF Begin, Goes
<1>4. ASSUME NEW h \in Hosts, Acquire(h) PROVE PortInv'
    BY <1>4 DEF Acquire, Goes, Vacant, Live, Alive
<1>5. ASSUME NEW h \in Hosts, AcquireFails(h) PROVE PortInv'
    BY <1>5 DEF AcquireFails, Goes
<1>6. ASSUME NEW h \in Hosts, Claim(h) PROVE PortInv'
    BY <1>6 DEF Claim, Goes
<1>7. ASSUME NEW h \in Hosts, Mount(h) PROVE PortInv'
    BY <1>7 DEF Mount, Goes
<1>8. ASSUME NEW h \in Hosts, Publish(h) PROVE PortInv'
    BY <1>8 DEF Publish, Goes
<1>9. ASSUME NEW h \in Hosts, Verify(h) PROVE PortInv'
    BY <1>9 DEF Verify, Goes
<1>10. ASSUME NEW h \in Hosts, GoReady(h) PROVE PortInv'
    BY <1>10 DEF GoReady, Goes
<1>11. ASSUME NEW h \in Hosts, StartFails(h) PROVE PortInv'
    BY <1>11 DEF StartFails
<1>12. ASSUME NEW h \in Hosts, WriteFailed(h) PROVE PortInv'
    BY <1>12 DEF WriteFailed, Goes
<1>13. ASSUME NEW h \in Hosts, Stop(h) PROVE PortInv'
    BY <1>13 DEF Stop
<1>14. ASSUME NEW h \in Hosts, Dispose(h) PROVE PortInv'
    BY <1>14 DEF Dispose, Goes
<1>15. ASSUME NEW h \in Hosts, Drain(h) PROVE PortInv'
    BY <1>15 DEF Drain, Goes
<1>16. ASSUME NEW h \in Hosts, Withdraw(h) PROVE PortInv'
    BY <1>16 DEF Withdraw, Goes
<1>17. ASSUME NEW h \in Hosts, WriteStopped(h) PROVE PortInv'
    BY <1>17 DEF WriteStopped, Goes
<1>18. ASSUME NEW h \in Hosts, Release(h) PROVE PortInv'
    BY <1>18 DEF Release, Goes
<1>19. ASSUME NEW h \in Hosts, ClosePort(h) PROVE PortInv'
    BY <1>19 DEF ClosePort
<1>20. ASSUME NEW h \in Hosts, Exit(h) PROVE PortInv'
    BY <1>20 DEF Exit, Leave
<1>21. ASSUME NEW h \in Hosts, Crash(h) PROVE PortInv'
    BY <1>21 DEF Crash, Leave
<1>22. CASE UNCHANGED hostVars
    BY <1>22
<1> QED BY <1>1, <1>2, <1>3, <1>4, <1>5, <1>6, <1>7, <1>8, <1>9, <1>10, <1>11,
     <1>12, <1>13, <1>14, <1>15, <1>16, <1>17, <1>18, <1>19, <1>20, <1>21,
     <1>22 DEF HostNext, HostSteps, Starts, Ends

-----------------------------------------------------------------------------
\* Every variable keeps its type (harness-entry.ts:113-259).
THEOREM TypeCorrect == HostSpec => []TypeOK
<1>1. Init => LeaseInv
    BY LeaseInitially
<1>2. LeaseInv /\ [HostNext]_hostVars => LeaseInv'
    BY LeaseInductive
<1>3. LeaseInv => TypeOK
    BY DEF LeaseInv
<1> QED BY <1>1, <1>2, <1>3, PTL DEF HostSpec

\* The registry grants one lease at a time, whatever is killed or recovered and
\* though a released epoch is given again (authority-registry-facade.ts:82-129).
THEOREM OneLease ==
  HostSpec => [](\A g, h \in Hosts : leased[g] # 0 /\ leased[h] # 0 => g = h)
<1>1. Init => LeaseInv
    BY LeaseInitially
<1>2. LeaseInv /\ [HostNext]_hostVars => LeaseInv'
    BY LeaseInductive
<1>3. LeaseInv => (\A g, h \in Hosts : leased[g] # 0 /\ leased[h] # 0 => g = h)
    BY DEF LeaseInv, Owning
<1> QED BY <1>1, <1>2, <1>3, PTL DEF HostSpec

LEMMA InvImpliesAdvertised == LeaseInv /\ PortInv => ServingIsAdvertised
<1> SUFFICES ASSUME LeaseInv, PortInv, NEW h \in Hosts,
                    phase[h] = "ready", h \notin aborted
             PROVE  /\ status = StatusOf("ready", h) /\ leased[h] # 0
                    /\ descriptor = Record(h) /\ owner = Record(h)
                    /\ port = h /\ h \in routes
    BY DEF ServingIsAdvertised
<1>1. Owning(h) /\ Published(h) /\ Listening(h) /\ Announced(h)
    BY DEF LeaseInv, PortInv
<1>2. leased[h] # 0 /\ owner.host = h /\ owner.epoch = leased[h]
    BY <1>1 DEF Owning, Leasing
<1>3. h \in routes /\ descriptor.host = h /\ descriptor.epoch = leased[h]
    BY <1>1 DEF Published
<1>4. owner = Record(h) /\ descriptor = Record(h)
    BY <1>2, <1>3 DEF LeaseInv, TypeOK, Records, Record
<1> QED BY <1>1, <1>2, <1>3, <1>4 DEF Listening, Announced, Starting

\* A ready Host is found until it is stopped, however many lives come and go,
\* as long as a Host stopped before it has its lease keeps its port till it ends.
THEOREM Advertised ==
  ASSUME EarlyClose # "any" PROVE HostSpec => []ServingIsAdvertised
<1>1. Init => LeaseInv /\ PortInv
    BY LeaseInitially, PortInitially
<1>2. LeaseInv /\ PortInv /\ [HostNext]_hostVars => (LeaseInv /\ PortInv)'
    BY LeaseInductive, PortInductive
<1>3. LeaseInv /\ PortInv => ServingIsAdvertised
    BY InvImpliesAdvertised
<1> QED BY <1>1, <1>2, <1>3, PTL DEF HostSpec

-----------------------------------------------------------------------------
(* Clients.                                                                *)


\* The start lock is held from acquire to release.
Holding(p) ==
  at[p] \in {"checking", "probing", "spawning", "waiting"} <=> lock = p

\* Whoever is about to launch has looked since the last launch, if that is still
\* on its way.
Looked(p) == at[p] \in {"probing", "spawning"} => pending = {}

\* While others would find the Host down, its launcher waits for it.
Awaited(l) ==
  /\ l[2] \in Underway
  /\ Recoverable => at[l[1]] = "waiting"

LaunchInv ==
  /\ AutostartTypeOK
  /\ \A p \in Proxies : Holding(p) /\ Looked(p)
  /\ \A l \in pending : Awaited(l)
  /\ OneLaunch

-----------------------------------------------------------------------------
\* What the clients do to the Hosts is to launch them.
LEMMA StepsOfHosts == ASSUME [Next]_vars PROVE [HostNext]_hostVars
<1>1. ASSUME NEW p \in Proxies, Spawn(p) PROVE HostNext
    BY <1>1 DEF Spawn, HostNext
<1>2. ASSUME NEW p \in Proxies,
             \/ Call(p) \/ RecoverStale(p) \/ Check(p) \/ Probe(p) \/ Sees(p)
             \/ DeadlinePasses(p) \/ Lock(p) \/ LockTimesOut(p) \/ SpawnFails(p) \/ Kill(p)
      PROVE  UNCHANGED hostVars
    BY <1>2 DEF Call, RecoverStale, Check, Probe, Sees, DeadlinePasses, Lock,
       LockTimesOut, SpawnFails, Kill
<1>3. ASSUME NEW h \in Hosts, HostStep(h) \/ UserStarts(h) PROVE HostNext
    BY <1>3 DEF HostStep, UserStarts, HostNext
<1>4. CASE UNCHANGED vars
    BY <1>4 DEF vars
<1> QED BY <1>1, <1>2, <1>3, <1>4 DEF Next, Recover

\* With clients that start them, Hosts still live as HostLifecycle says.
THEOREM HostsLive == Spec => HostSpec
<1>1. AutostartInit => Init
    BY DEF AutostartInit
<1>2. [Next]_vars => [HostNext]_hostVars
    BY StepsOfHosts
<1> QED BY <1>1, <1>2, PTL DEF Spec, HostSpec

\* Clients that start Hosts do not take a ready one away, either: what they
\* spawn beside it finds the port taken (host-autostart-facade.ts:83-95).
THEOREM AdvertisedAmongClients ==
  ASSUME EarlyClose # "any" PROVE Spec => []ServingIsAdvertised
BY HostsLive, Advertised, PTL

-----------------------------------------------------------------------------
\* A start of a process changes nothing that a client finds.
LEMMA LaunchUnseen ==
  ASSUME LeaseInv, NEW h \in Hosts, Launch(h)
  PROVE  /\ Recoverable' <=> Recoverable
         /\ Underway' = Underway \cup {h}
<1>1. /\ phase[h] = "off" /\ status' = status
      /\ \A g \in Hosts : phase'[g] = IF g = h THEN "booting" ELSE phase[g]
    BY DEF Launch, Goes, files, LeaseInv, TypeOK
<1>2. Named(h)
    BY DEF LeaseInv
<1>3. OwnerDead' <=> OwnerDead
  <2>1. Live' = Live \cup {h}
      BY <1>1 DEF Live, Alive
  <2>2. status.by # h
      BY <1>1, <1>2 DEF Named
  <2> QED BY <1>1, <2>1, <2>2 DEF OwnerDead
<1>4. Recoverable' <=> Recoverable
    BY <1>1, <1>3 DEF Recoverable
<1>5. Underway' = Underway \cup {h}
    BY <1>1 DEF Underway, Starting
<1> QED BY <1>4, <1>5

LEMMA LaunchInitially == ASSUME AutostartInit, LeaseInv PROVE LaunchInv
BY AutostartAssumption DEF AutostartInit, LaunchInv, AutostartTypeOK, Places,
   LeaseInv, Holding, Looked, OneLaunch, Dead

LEMMA LaunchInductive ==
  ASSUME Patient, LeaseInv, LeaseInv', LaunchInv, [Next]_vars
  PROVE  LaunchInv'
<1> USE AutostartAssumption DEF LaunchInv, AutostartTypeOK, Places, Holding,
     Looked, Awaited, OneLaunch, Moves, Returns, Dead
<1> DEFINE Same == status' = status /\ phase' = phase
<1>0. Same => (Recoverable <=> Recoverable') /\ Underway' = Underway
    BY DEF Recoverable, OwnerDead, Live, Alive, Underway
<1>1. TypeOK'
    BY DEF LeaseInv
<1>2. ASSUME NEW p \in Proxies, Call(p) PROVE LaunchInv'
    BY <1>0, <1>1, <1>2 DEF Call, hostVars, files, process
<1>3. ASSUME NEW p \in Proxies, RecoverStale(p) PROVE LaunchInv'
    BY <1>0, <1>1, <1>3 DEF RecoverStale, hostVars, files, process
<1>4. ASSUME NEW p \in Proxies, Lock(p) PROVE LaunchInv'
    BY <1>0, <1>1, <1>4 DEF Lock, hostVars, files, process
<1>5. ASSUME NEW p \in Proxies, LockTimesOut(p) PROVE LaunchInv'
    BY <1>0, <1>1, <1>5 DEF LockTimesOut, hostVars, files, process
<1>6. ASSUME NEW p \in Proxies, Check(p) PROVE LaunchInv'
    BY <1>0, <1>1, <1>6 DEF Check, hostVars, files, process
<1>7. ASSUME NEW p \in Proxies, Probe(p) PROVE LaunchInv'
    BY <1>0, <1>1, <1>7 DEF Probe, hostVars, files, process
<1>8. ASSUME NEW p \in Proxies, Spawn(p) PROVE LaunchInv'
  <2>1. PICK h \in Hosts : Launch(h) /\ pending' = pending \cup {<<p, h>>}
      BY <1>8 DEF Spawn
  <2>2. pending = {} /\ pending' = {<<p, h>>}
      BY <1>8, <2>1 DEF Spawn
  <2>3. /\ at' = [at EXCEPT ![p] = "waiting"] /\ at[p] = "spawning"
        /\ lock' = lock /\ mishaps' = mishaps
      BY <1>8 DEF Spawn
  <2>4. h \in Underway'
      BY <2>1, LaunchUnseen
  <2>5. AutostartTypeOK'
      BY <1>1, <2>2, <2>3
  <2>6. \A q \in Proxies : Holding(q)' /\ Looked(q)'
      BY <2>2, <2>3
  <2>7. \A l \in pending' : Awaited(l)'
      BY <2>2, <2>3, <2>4
  <2> QED BY <2>2, <2>5, <2>6, <2>7
<1>9. ASSUME NEW p \in Proxies, SpawnFails(p) PROVE LaunchInv'
    BY <1>0, <1>1, <1>9 DEF SpawnFails, hostVars, files, process
<1>10. ASSUME NEW p \in Proxies, Sees(p) PROVE LaunchInv'
  <2>1. ~Recoverable
      BY <1>10 DEF Sees, Passes, Failed, Recoverable
  <2> QED BY <1>0, <1>1, <1>10, <2>1 DEF Sees, hostVars, files, process
<1>11. ASSUME NEW p \in Proxies, DeadlinePasses(p) PROVE LaunchInv'
    BY <1>0, <1>1, <1>11 DEF DeadlinePasses, hostVars, files, process
<1>12. ASSUME NEW p \in Proxies, Kill(p) PROVE LaunchInv'
    BY <1>0, <1>1, <1>12 DEF Kill, hostVars, files, process
<1>13. ASSUME NEW h \in Hosts, HostStep(h) PROVE LaunchInv'
  <2>1. at' = at /\ lock' = lock /\ mishaps' = mishaps
      BY <1>13 DEF HostStep
  <2>2. CASE pending' = {}
      BY <1>1, <2>1, <2>2
  <2>3. CASE /\ status' = status /\ OwnerDead' = OwnerDead
             /\ pending' = {l \in pending : l[2] \in Underway'}
    <3>1. Recoverable' <=> Recoverable
        BY <2>3 DEF Recoverable
    <3>2. \A l \in pending' : l \in pending /\ l[2] \in Underway'
        BY <2>3
    <3>3. AutostartTypeOK' /\ OneLaunch'
        BY <1>1, <2>1, <3>2
    <3>4. \A l \in pending' : Awaited(l)'
        BY <2>1, <3>1, <3>2
    <3>5. \A p \in Proxies : Holding(p)' /\ Looked(p)'
        BY <2>1, <3>2
    <3> QED BY <3>3, <3>4, <3>5
  <2> QED BY <1>13, <2>2, <2>3 DEF HostStep
<1>14. ASSUME NEW h \in Hosts, UserStarts(h) PROVE LaunchInv'
  <2>1. (Recoverable' <=> Recoverable) /\ Underway' = Underway \cup {h}
      BY <1>14, LaunchUnseen DEF UserStarts
  <2> QED BY <1>1, <1>14, <2>1 DEF UserStarts
<1>15. CASE UNCHANGED vars
    BY <1>0, <1>1, <1>15 DEF vars, hostVars, files, process
<1> QED BY <1>2, <1>3, <1>4, <1>5, <1>6, <1>7, <1>8, <1>9, <1>10, <1>11,
     <1>12, <1>13, <1>14, <1>15 DEF Next, Recover

-----------------------------------------------------------------------------
LEMMA TypesInductive ==
  ASSUME LeaseInv', AutostartTypeOK, [Next]_vars
  PROVE  AutostartTypeOK'
<1> USE AutostartAssumption DEF AutostartTypeOK, Places, Moves, Returns
<1>1. TypeOK'
    BY DEF LeaseInv
<1>2. ASSUME NEW p \in Proxies,
             \/ Call(p) \/ RecoverStale(p) \/ Lock(p) \/ LockTimesOut(p) \/ Check(p)
             \/ Probe(p) \/ SpawnFails(p) \/ Sees(p) \/ DeadlinePasses(p)
      PROVE  AutostartTypeOK'
    BY <1>1, <1>2 DEF Call, RecoverStale, Lock, LockTimesOut, Check, Probe, SpawnFails, Sees, DeadlinePasses
<1>3. ASSUME NEW p \in Proxies, Spawn(p) PROVE AutostartTypeOK'
    BY <1>1, <1>3 DEF Spawn
<1>4. ASSUME NEW p \in Proxies, Kill(p) PROVE AutostartTypeOK'
    BY <1>1, <1>4 DEF Kill
<1>5. ASSUME NEW h \in Hosts, HostStep(h) \/ UserStarts(h) PROVE AutostartTypeOK'
    BY <1>1, <1>5 DEF HostStep, UserStarts
<1>6. CASE UNCHANGED vars
    BY <1>1, <1>6 DEF vars
<1> QED BY <1>2, <1>3, <1>4, <1>5, <1>6 DEF Next, Recover

\* Each client is at one place of a recovery, the start lock is free, a client's
\* or a dead one's, and a launch is one of a client and a Host.
THEOREM AutostartTypes == Spec => []AutostartTypeOK
<1>1. AutostartInit => LeaseInv /\ AutostartTypeOK
    BY LeaseInitially, LaunchInitially DEF AutostartInit, LaunchInv
<1>2. LeaseInv /\ AutostartTypeOK /\ [Next]_vars => (LeaseInv /\ AutostartTypeOK)'
  <2> SUFFICES ASSUME LeaseInv, AutostartTypeOK, [Next]_vars
               PROVE  LeaseInv' /\ AutostartTypeOK'
      OBVIOUS
  <2>1. LeaseInv'
      BY StepsOfHosts, LeaseInductive
  <2> QED BY <2>1, TypesInductive
<1> QED BY <1>1, <1>2, PTL DEF Spec

\* However many clients find one Host down, and whoever is killed on the way,
\* they do not have two Hosts on their way in one outage, if the start timeout
\* is longer than a start takes (host-autostart-facade.ts:54-112).
THEOREM Converge == ASSUME Patient PROVE Spec => []OneLaunch
<1>1. AutostartInit => LeaseInv /\ LaunchInv
    BY LeaseInitially, LaunchInitially DEF AutostartInit
<1>2. LeaseInv /\ LaunchInv /\ [Next]_vars => (LeaseInv /\ LaunchInv)'
  <2> SUFFICES ASSUME LeaseInv, LaunchInv, [Next]_vars
               PROVE  LeaseInv' /\ LaunchInv'
      OBVIOUS
  <2>1. LeaseInv'
      BY StepsOfHosts, LeaseInductive
  <2> QED BY <2>1, LaunchInductive
<1>3. LeaseInv /\ LaunchInv => OneLaunch
    BY DEF LaunchInv
<1> QED BY <1>1, <1>2, <1>3, PTL DEF Spec
=============================================================================
