-------------------------- MODULE AuthorityGuard --------------------------
(***************************************************************************)
(* The guard file every change of an authority's owner record is made      *)
(* under: acquireRegistryGuard, its lease, and the acquire and release of  *)
(* AuthorityRegistryFacade inside it, file operation by file operation.    *)
(***************************************************************************)
EXTENDS Integers

CONSTANTS
  Hosts,      \* Host processes, each with a PID of its own
  None,
  MaxCrashes, \* bound: processes that die
  MaxErrors   \* bound: owner records that cannot be written

VARIABLES
  guard,      \* the process in the guard file, or None
  tombstone,  \* what a process that reclaims has moved away
  owner,      \* the owner record: [by, epoch], epoch 0 for no file
  alive,
  at,         \* where a process is
  purpose,    \* what it wants the guard for: "acquire" or "release", or "hold": it has a lease
  seen,       \* the process in the guard file it has read and found dead
  base,       \* the epoch of the owner record it has read
  lease,      \* the epoch of its lease, or 0
  displaced,  \* a reclaim has moved a guard other than the one it had read
  crashes, errors

guardVars == <<guard, tombstone, owner, alive, at, purpose, seen, base, lease, displaced,
               crashes, errors>>

NoOwner == [by |-> None, epoch |-> 0]

\* Between the link and the unlink of the guard.
Guarded == {"owner", "write", "unlinkOwner", "unguard", "unlink"}

-----------------------------------------------------------------------------
To(p, where) == at' = [at EXCEPT ![p] = where]

UnchangedOwner == UNCHANGED <<owner, base, lease, errors>>
UnchangedReclaim == UNCHANGED <<tombstone, seen, displaced>>

GuardInit ==
  /\ guard = None /\ tombstone = [p \in Hosts |-> None] /\ owner = NoOwner
  /\ alive = [p \in Hosts |-> TRUE] /\ at = [p \in Hosts |-> "idle"]
  /\ purpose = [p \in Hosts |-> "acquire"]
  /\ seen = [p \in Hosts |-> None] /\ base = [p \in Hosts |-> 0]
  /\ lease = [p \in Hosts |-> 0]
  /\ displaced = FALSE /\ crashes = 0 /\ errors = 0

\* link() of the temporary file: published, and whole.
LinkGuard(p) ==
  /\ at[p] = "idle" /\ guard = None
  /\ guard' = p /\ To(p, "owner")
  /\ UNCHANGED <<alive, purpose, crashes>> /\ UnchangedOwner /\ UnchangedReclaim

\* EEXIST: the record is read and its process probed; the deadline may be over.
Occupied(p) ==
  /\ at[p] = "idle" /\ guard # None
  /\ \/ /\ ~alive[guard]
        /\ seen' = [seen EXCEPT ![p] = guard] /\ To(p, "reclaim")
     \/ alive[guard] /\ To(p, "timedOut") /\ UNCHANGED seen
  /\ UNCHANGED <<guard, tombstone, displaced, alive, purpose, crashes>> /\ UnchangedOwner

\* reclaimStaleLock(): whatever is at the path is renamed to a tombstone ...
Reclaim(p) ==
  /\ at[p] = "reclaim"
  /\ IF guard = None
     THEN To(p, "idle") /\ UNCHANGED <<guard, tombstone, displaced>>
     ELSE /\ tombstone' = [tombstone EXCEPT ![p] = guard] /\ guard' = None
          /\ displaced' = (displaced \/ guard # seen[p]) /\ To(p, "compare")
  /\ UNCHANGED <<seen, alive, purpose, crashes>> /\ UnchangedOwner

\* ... and deleted when it is the record that was read, else linked back.
CompareTombstone(p) ==
  /\ at[p] = "compare" /\ To(p, "idle")
  /\ tombstone' = [tombstone EXCEPT ![p] = None]
  /\ guard' = IF tombstone[p] # seen[p] /\ guard = None THEN tombstone[p] ELSE guard
  /\ UNCHANGED <<seen, displaced, alive, purpose, crashes>> /\ UnchangedOwner

\* The bug: whoever comes takes the authority over.
MayTakeAlways == owner = owner

\* acquire(): nobody, or a dead process, owns the Host, or it is refused.
MayTake == owner.by \notin {p \in Hosts : alive[p]}

\* The bug: a refusal does not pass through the finally.
ReadOwnerNoFinally(p) ==
  /\ at[p] = "owner"
  /\ \/ /\ purpose[p] = "acquire" /\ MayTake
        /\ base' = [base EXCEPT ![p] = owner.epoch] /\ To(p, "write")
     \/ purpose[p] = "acquire" /\ ~MayTake /\ To(p, "idle") /\ UNCHANGED base
  /\ UNCHANGED <<guard, owner, lease, errors, alive, purpose, crashes>> /\ UnchangedReclaim

ReadOwner(p) ==
  /\ at[p] = "owner"
  /\ \/ /\ purpose[p] = "acquire" /\ MayTake
        /\ base' = [base EXCEPT ![p] = owner.epoch] /\ To(p, "write")
     \/ purpose[p] = "acquire" /\ ~MayTake /\ To(p, "unguard") /\ UNCHANGED base
     \/ /\ purpose[p] = "release"
        /\ To(p, IF owner = [by |-> p, epoch |-> lease[p]] THEN "unlinkOwner" ELSE "unguard")
        /\ UNCHANGED base
  /\ UNCHANGED <<guard, owner, lease, errors, alive, purpose, crashes>> /\ UnchangedReclaim

WriteOwner(p) ==
  /\ at[p] = "write" /\ To(p, "unguard")
  /\ \/ /\ owner' = [by |-> p, epoch |-> base[p] + 1]
        /\ lease' = [lease EXCEPT ![p] = base[p] + 1] /\ UNCHANGED errors
     \/ errors < MaxErrors /\ errors' = errors + 1 /\ UNCHANGED <<owner, lease>>
  /\ UNCHANGED <<guard, base, alive, purpose, crashes>> /\ UnchangedReclaim

UnlinkOwner(p) ==
  /\ at[p] = "unlinkOwner" /\ To(p, "unguard") /\ owner' = NoOwner
  /\ UNCHANGED <<guard, base, lease, errors, alive, purpose, crashes>> /\ UnchangedReclaim

\* guardLease.release(): read and compare, then unlink whatever is there.
Unguard(p) ==
  LET after == IF purpose[p] = "acquire" THEN "idle" ELSE "over" IN
  /\ \/ at[p] = "unguard" /\ guard = p /\ To(p, "unlink") /\ UNCHANGED guard
     \/ at[p] = "unguard" /\ guard # p /\ To(p, after) /\ UNCHANGED guard
     \/ at[p] = "unlink" /\ guard' = None /\ To(p, after)
  /\ purpose' = IF at'[p] = "idle" /\ lease[p] # 0 THEN [purpose EXCEPT ![p] = "hold"] ELSE purpose
  /\ UNCHANGED <<alive, crashes>> /\ UnchangedOwner /\ UnchangedReclaim

\* release() of the lease, once.
Release(p) ==
  /\ purpose[p] = "hold" /\ at[p] = "idle"
  /\ purpose' = [purpose EXCEPT ![p] = "release"]
  /\ UNCHANGED <<guard, at, alive, crashes>> /\ UnchangedOwner /\ UnchangedReclaim

Crash(p) ==
  /\ alive[p] /\ crashes < MaxCrashes /\ crashes' = crashes + 1
  /\ alive' = [alive EXCEPT ![p] = FALSE]
  /\ UNCHANGED <<guard, at, purpose>> /\ UnchangedOwner /\ UnchangedReclaim

GuardNext ==
  \E p \in Hosts :
    \/ /\ alive[p]
       /\ \/ purpose[p] # "hold" /\ (LinkGuard(p) \/ Occupied(p))
          \/ Reclaim(p) \/ CompareTombstone(p) \/ ReadOwner(p) \/ WriteOwner(p)
          \/ UnlinkOwner(p) \/ Unguard(p) \/ Release(p)
    \/ Crash(p)

GuardSpec == GuardInit /\ [][GuardNext]_guardVars

-----------------------------------------------------------------------------
\* A living process whose acquire() has returned finds itself in the owner
\* record, with its epoch, until it releases: two Hosts are never both the
\* authority.  Except when a reclaim has displaced a guard it had not read.
LeaseIsRecorded ==
  \A p \in Hosts :
    alive[p] /\ purpose[p] = "hold" /\ ~displaced => owner = [by |-> p, epoch |-> lease[p]]

\* The guard file of a living process is one it is still going to remove: a
\* guard left behind would refuse every Host until that process ends.
GuardHasKeeper ==
  guard # None /\ alive[guard] /\ ~displaced => at[guard] \in Guarded
=============================================================================
