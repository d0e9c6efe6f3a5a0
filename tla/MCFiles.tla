------------------------------ MODULE MCFiles ------------------------------
(***************************************************************************)
(* Instances for TLC of what processes do to files they share, side by     *)
(* side in one state space: the state lock, with and without fenced        *)
(* recoverers, the state file, the bearer token, the guard of the          *)
(* authority registry, and the lock of a build.  A behaviour is one of the *)
(* part chosen at the start; the others stay in their initial states.      *)
(* The processes of the lock also load the token and are the Hosts of the  *)
(* registry.                                                               *)
(***************************************************************************)
EXTENDS FileLock, TLC

CONSTANTS
  Relays, Worker, Foreign, MaxSeq, MaxMishaps,     \* of StateFile
  Builders, Previous,                              \* of BuildLock
  MaxDeaths, MaxErrors, MaxRemovals                \* bounds of the parts that have them

ASSUME FilesAssumption ==
  /\ Worker \in Relays \ {Foreign} /\ None \notin Builders \cup Relays \cup {Previous}
  /\ {"half"} \cap (Procs \cup {None}) = {}
  /\ MaxSeq \in Nat /\ MaxDeaths \in Nat

VARIABLES
  part,
  uLock, uTombstones, uClaim, uMine, uExpected, uPc, uLinks, uCrashes, uReuses, uLeaks,
  disk, quarantine, memory, saving, job, text, holder, saved, mishaps,
  tokenFile, temp, tokenAt, token, tokenErrors, removals,
  lockFile, written, buildClaim, stage, target, dist, backup, deaths, buildErrors,
  guard, tombstone, owner, alive, at, purpose, seen, base, lease, displaced, kills, errors

unfencedVars ==
  <<uLock, uTombstones, uClaim, uMine, uExpected, uPc, uLinks, uCrashes, uReuses, uLeaks>>
stateVars    == <<disk, quarantine, memory, saving, job, text, holder, saved, mishaps>>
tokenVars    == <<tokenFile, temp, tokenAt, token, tokenErrors, removals>>
buildVars    == <<lockFile, written, buildClaim, stage, target, dist, backup, deaths, buildErrors>>
guardVars    ==
  <<guard, tombstone, owner, alive, at, purpose, seen, base, lease, displaced, kills, errors>>
filesVars    == <<part, vars, unfencedVars, stateVars, tokenVars, buildVars, guardVars>>

Unfenced == INSTANCE FileLock WITH
  Fenced <- FALSE, Prompt <- FALSE, MaxCrashes <- MaxDeaths,
  lock <- uLock, tombstones <- uTombstones, claim <- uClaim, mine <- uMine, expected <- uExpected, pc <- uPc,
  links <- uLinks, crashes <- uCrashes, reuses <- uReuses, leaks <- uLeaks

State == INSTANCE StateFile

Tokens == INSTANCE TokenStore WITH
  Loaders <- Procs, at <- tokenAt, errors <- tokenErrors

Build == INSTANCE BuildLock WITH tombstone <- buildClaim, errors <- buildErrors

Registry == INSTANCE AuthorityGuard WITH
  Hosts <- Procs, MaxCrashes <- MaxDeaths, crashes <- kills

Symmetry == Permutations(Procs)

-----------------------------------------------------------------------------
Frame ==
  /\ UNCHANGED part
  /\ IF part = "fenced"   THEN TRUE ELSE UNCHANGED vars
  /\ IF part = "unfenced" THEN TRUE ELSE UNCHANGED unfencedVars
  /\ IF part = "state"    THEN TRUE ELSE UNCHANGED stateVars
  /\ IF part = "token"    THEN TRUE ELSE UNCHANGED tokenVars
  /\ IF part = "build"    THEN TRUE ELSE UNCHANGED buildVars
  /\ IF part = "guard"    THEN TRUE ELSE UNCHANGED guardVars

FilesInit ==
  /\ part \in {"fenced", "unfenced", "state", "token", "build", "guard"}
  /\ Init /\ Unfenced!Init /\ Tokens!TokenInit /\ Build!BuildInit /\ Registry!GuardInit
  /\ State!StateInit /\ (part # "state" => disk = State!Missing)

FilesNext ==
  \/ part = "fenced" /\ Next /\ Frame
  \/ part = "unfenced" /\ Unfenced!Next /\ Frame
  \/ part = "state" /\ State!StateNext /\ Frame
  \/ part = "token" /\ Tokens!TokenNext /\ Frame
  \/ part = "build" /\ Build!BuildNext /\ Frame
  \/ part = "guard" /\ Registry!GuardNext /\ Frame

FilesSpec == FilesInit /\ [][FilesNext]_filesVars

-----------------------------------------------------------------------------
\* The properties of the parts: each is stated with its meaning in its module.
\* Recoverers without the fence never delete the record of a lease, and leave a
\* claim where two processes hold the lock (FileLock).
UnfencedIsKept == Unfenced!LeaseIsKept /\ Unfenced!OverlapLeavesClaim

\* A save that returned is not undone by another, and no one else can read the
\* state at its place (StateFile).
StateIsKept == State!SavedIsKept /\ State!NeverOpen

\* A file of another authority is left alone, and a migration stays marked (StateFile).
StateIsRespected == State!ForeignIsRefused /\ State!MarkerStays

\* Whoever loads the token has the one in the file, whole, and leaves no copy (TokenStore).
TokenIsShared == Tokens!OneToken /\ Tokens!TokenIsWhole /\ Tokens!NoLitter

\* A builder at work has the lock file, two at work leave a claim that tells of
\* it, and some build remains (BuildLock).
BuildsAreSafe == Build!HolderHasRecord /\ Build!OverlapLeavesClaim /\ Build!ABuildRemains

\* A lease of the authority is what the owner record says, and a guard file has
\* a keeper that removes it (AuthorityGuard).
AuthorityIsGuarded == Registry!LeaseIsRecorded /\ Registry!GuardHasKeeper
=============================================================================
