------------------------- MODULE MCPermissionCases -------------------------
(***************************************************************************)
(* What is given back in the end, in one state space: the preset a run     *)
(* borrowed, with restores that follow one another or in any interleaving, *)
(* and the file lock of a process that died.  A behaviour is of one case.  *)
(***************************************************************************)
EXTENDS MCPermissionLeases

CONSTANTS m1, m2, m3   \* processes of the lock

VARIABLES case, lock, tombstones, claim, mine, expected, at, links, deaths, reuses, leaks

Overlapping == INSTANCE PermissionLeases WITH Overlap <- TRUE

Locks == INSTANCE FileLock WITH
  Procs <- {m1, m2, m3}, Fenced <- TRUE, Prompt <- TRUE,
  MaxLinks <- 2, MaxCrashes <- 2, MaxReuses <- 1, MaxLeaks <- 0, pc <- at, crashes <- deaths

lockVars == <<lock, tombstones, claim, mine, expected, at, links, deaths, reuses, leaks>>
caseVars == <<case, vars, lockVars>>

\* Restores that overlap are at work, or the lock.
Racing  == case = "overlap" /\ UNCHANGED <<case, lockVars>>
Locking == case = "lock" /\ UNCHANGED <<case, vars>>

CasesInit == Init /\ Locks!Init /\ case \in {"serial", "overlap", "lock"}

CasesNext ==
  \/ case = "serial" /\ Next /\ UNCHANGED <<case, lockVars>>
  \/ Racing /\ Overlapping!Next
  \/ Locking /\ Locks!Next

\* A process ends what it has begun with the lock: at each place it is one of these.
Ends(p) == \/ Locks!GiveUp(p) \/ Locks!Release(p) \/ Locks!Reclaim(p)
           \/ Locks!ProbeDead(p) \/ Locks!ProbeAlive(p)

\* Fairness of PermissionLeases, where restores overlap, and of FileLock.
CasesSpec ==
  /\ CasesInit /\ [][CasesNext]_caseVars
  /\ \A r \in Runs : /\ WF_caseVars(Racing /\ Overlapping!StartRun(r) /\ pc[r] # "idle")
                     /\ WF_caseVars(Racing /\ Overlapping!TurnEnds(r))
                     /\ SF_caseVars(Racing /\ \E c \in Callers : Overlapping!Poll(c, r))
  /\ \A p \in Procs : WF_caseVars(Racing /\ Overlapping!Goes(p))
  /\ SF_caseVars(Racing /\ \E c \in Callers : Overlapping!ReconcilePermissions(c))
  /\ \A p \in {m1, m2, m3} :
       /\ WF_caseVars(Locking /\ Ends(p))
       /\ SF_caseVars(Locking /\ Locks!Inspect(p) /\ ~Locks!Alive(lock.pid))

\* GrantInForce, when restores do not overlap.
GrantHolds == case = "serial" => GrantInForce

\* SessionIsFreed, when restores do not overlap.
SessionFreed == case = "serial" => SessionIsFreed

\* GivenBack, where restores overlap, and StaleIsRecovered, of the lock.
BackInTheEnd ==
  <>[](/\ case = "overlap" => NothingIsOwed
       /\ case = "lock" => Locks!NothingIsStale)
=============================================================================
