----------------------------- MODULE BuildLock -----------------------------
(***************************************************************************)
(* Builds of one checkout that promote their staged artifacts under a lock *)
(* file: acquireBuildLock, reclaimBuildLock and promoteArtifacts.          *)
(***************************************************************************)
EXTENDS Integers

CONSTANTS
  Builders,     \* build processes, each building once
  None,         \* "nothing"
  Previous,     \* the build that was there before
  MaxDeaths,    \* bound: builders that die
  MaxErrors     \* bound: renames and removals that fail

VARIABLES
  lockFile,   \* the lock file: the builder whose record it is, or None
  written,    \* the records that are written and closed
  tombstone,  \* the claim of a builder: the record it renamed away, or None
  stage,      \* where a builder is
  target,     \* the record a builder means to reclaim
  dist,       \* distDir: whose artifacts, or None
  backup,     \* the backup a builder has made
  deaths, errors

buildVars == <<lockFile, written, tombstone, stage, target, dist, backup, deaths, errors>>
claims    == <<lockFile, written, tombstone, target>>
artifacts == <<dist, backup>>

-----------------------------------------------------------------------------
BuildInit ==
  /\ lockFile = None /\ written = {} /\ tombstone = [p \in Builders |-> None]
  /\ stage = [p \in Builders |-> "staged"] /\ target = [p \in Builders |-> None]
  /\ dist = Previous /\ backup = [p \in Builders |-> None]
  /\ deaths = 0 /\ errors = 0

Goes(p, from, to) == stage[p] = from /\ stage' = [stage EXCEPT ![p] = to]

\* open() of the lock file with "wx" ...
Create(p) ==
  /\ Goes(p, "staged", "writing") /\ lockFile = None /\ lockFile' = p
  /\ UNCHANGED <<written, tombstone, target, artifacts, deaths, errors>>

\* ... and the record, into that file under whatever name it has by now.
Write(p) ==
  /\ Goes(p, "writing", "locked") /\ written' = written \cup {p}
  /\ UNCHANGED <<lockFile, tombstone, target, artifacts, deaths, errors>>

\* EEXIST: the record is whole, and its process dead; or the wait is over.
Inspect(p) ==
  /\ Goes(p, "staged", "reclaiming")
  /\ lockFile \in written /\ stage[lockFile] \in {"dead", "done", "failed"}
  /\ target' = [target EXCEPT ![p] = lockFile]
  /\ UNCHANGED <<lockFile, written, tombstone, artifacts, deaths, errors>>

TimesOut(p) ==
  /\ Goes(p, "staged", "failed") /\ lockFile # None
  /\ UNCHANGED <<claims, artifacts, deaths, errors>>

-----------------------------------------------------------------------------
\* reclaimBuildLock(): the lock file is renamed away, ...
Claim(p) ==
  /\ stage[p] = "reclaiming"
  /\ IF lockFile = None
     THEN /\ stage' = [stage EXCEPT ![p] = IF target[p] = p THEN "done" ELSE "staged"]
          /\ UNCHANGED <<lockFile, tombstone>>
     ELSE /\ tombstone' = [tombstone EXCEPT ![p] = lockFile] /\ lockFile' = None
          /\ stage' = [stage EXCEPT ![p] = "claimed"]
  /\ UNCHANGED <<written, target, artifacts, deaths, errors>>

\* The bug: the claim is deleted unread.
MatchesAny(p) == TRUE

Matches(p) == tombstone[p] = target[p] /\ target[p] \in written

\* ... compared, and deleted if it is the record that was meant; ...
Delete(p) ==
  /\ stage[p] = "claimed" /\ Matches(p)
  /\ stage' = [stage EXCEPT ![p] = IF target[p] = p THEN "done" ELSE "staged"]
  /\ tombstone' = [tombstone EXCEPT ![p] = None]
  /\ UNCHANGED <<lockFile, written, target, artifacts, deaths, errors>>

Ended(p) == [stage EXCEPT ![p] = IF target[p] = p THEN "done" ELSE "failed"]

\* The bug: rename() puts the claim back over whatever is there.
PutBackOver(p) ==
  /\ stage[p] = "claimed" /\ ~Matches(p) /\ stage' = Ended(p)
  /\ lockFile' = tombstone[p] /\ tombstone' = [tombstone EXCEPT ![p] = None]
  /\ UNCHANGED <<written, target, artifacts, deaths, errors>>

\* ... otherwise linked back, or left for inspection when the path is taken.
PutBack(p) ==
  /\ stage[p] = "claimed" /\ ~Matches(p) /\ stage' = Ended(p)
  /\ IF lockFile = None
     THEN lockFile' = tombstone[p] /\ tombstone' = [tombstone EXCEPT ![p] = None]
     ELSE UNCHANGED <<lockFile, tombstone>>
  /\ UNCHANGED <<written, target, artifacts, deaths, errors>>

\* release() reclaims the builder's own record.
Release(p) ==
  /\ Goes(p, "releasing", "reclaiming") /\ target' = [target EXCEPT ![p] = p]
  /\ UNCHANGED <<lockFile, written, tombstone, artifacts, deaths, errors>>

-----------------------------------------------------------------------------
\* The bug: the old artifacts are removed first.
SetAsideRemoves(p) ==
  /\ Goes(p, "locked", "swapping") /\ dist' = None
  /\ UNCHANGED <<backup, claims, deaths, errors>>

\* promoteArtifacts(): what was there becomes the backup, ...
SetAside(p) ==
  /\ Goes(p, "locked", "swapping")
  /\ backup' = [backup EXCEPT ![p] = dist] /\ dist' = None
  /\ UNCHANGED <<claims, deaths, errors>>

\* ... the staged tree takes its place, ...
Promote(p) ==
  /\ Goes(p, "swapping", "promoted") /\ dist = None /\ dist' = p
  /\ UNCHANGED <<backup, claims, deaths, errors>>

\* (the rename fails: an error, or another build is there)
PromoteFails(p) ==
  /\ Goes(p, "swapping", "restoring")
  /\ IF dist # None THEN UNCHANGED errors ELSE errors < MaxErrors /\ errors' = errors + 1
  /\ UNCHANGED <<claims, artifacts, deaths>>

\* ... or the backup is put back, if it can be, ...
Restore(p) ==
  /\ Goes(p, "restoring", "releasing")
  /\ IF backup[p] # None /\ dist = None
     THEN \/ dist' = backup[p] /\ backup' = [backup EXCEPT ![p] = None] /\ UNCHANGED errors
          \/ errors < MaxErrors /\ errors' = errors + 1 /\ UNCHANGED artifacts
     ELSE UNCHANGED <<artifacts, errors>>
  /\ UNCHANGED <<claims, deaths>>

\* ... and else removed, or left with a warning.
Clean(p) ==
  /\ Goes(p, "promoted", "releasing")
  /\ \/ backup' = [backup EXCEPT ![p] = None] /\ UNCHANGED errors
     \/ errors < MaxErrors /\ errors' = errors + 1 /\ UNCHANGED backup
  /\ UNCHANGED <<claims, dist, deaths>>

Die(p) ==
  /\ stage[p] \notin {"dead", "done", "failed"} /\ deaths < MaxDeaths
  /\ deaths' = deaths + 1 /\ stage' = [stage EXCEPT ![p] = "dead"]
  /\ UNCHANGED <<claims, artifacts, errors>>

BuildNext == \E p \in Builders :
  \/ Create(p) \/ Write(p) \/ Inspect(p) \/ TimesOut(p) \/ Claim(p) \/ Delete(p) \/ PutBack(p)
  \/ Release(p) \/ SetAside(p) \/ Promote(p) \/ PromoteFails(p) \/ Restore(p) \/ Clean(p) \/ Die(p)

BuildSpec == BuildInit /\ [][BuildNext]_buildVars

-----------------------------------------------------------------------------
Promoting == {"locked", "swapping", "restoring", "promoted", "releasing"}
Holders   == {p \in Builders : stage[p] \in Promoting}

Kept(p) == lockFile = p \/ \E q \in Builders : tombstone[q] = p

\* "a record changed by a racing writer can never be deleted" (build-lib.mjs:108):
\* the record of a builder that holds the lock is at its path, or in the claim of
\* a builder that raced for a dead one.
HolderHasRecord == \A p \in Holders : Kept(p)

\* Two builders hold the lock only after such a claim found the path taken when
\* it would put the record back; the claim stays to tell.
OverlapLeavesClaim ==
  \A p, q \in Holders : p # q => \E o \in Builders : tombstone[o] \in {p, q}

\* Some whole build is in place or set aside, whoever fails or dies in between.
ABuildRemains == dist # None \/ \E p \in Builders : backup[p] # None
=============================================================================
