------------------------------ MODULE FileLock ------------------------------
(***************************************************************************)
(* FileLockFacade: a lock that is one file, published by hard link, given  *)
(* back and recovered by rename.  Both give-back and recovery go through   *)
(* reclaimStaleLock(), which first moves whatever is at the path to a      *)
(* tombstone of its own and looks at it only then.                         *)
(*                                                                         *)
(* The fallback that restores a claim by copy where hard links do not      *)
(* exist is left out: without hard links acquire() never publishes a lock. *)
(***************************************************************************)
EXTENDS Integers, FiniteSets

CONSTANTS
  Procs,        \* processes, named by their PID
  None,         \* "no file"
  Fenced,       \* do recoverers hold the authority fence, one at a time?
  Prompt,       \* does no owner die between the read of its record and the probe?
  MaxLinks,     \* bound: locks that are published
  MaxCrashes,   \* bound: processes that die
  MaxReuses,    \* bound: PIDs that are used again
  MaxLeaks      \* bound: acquires that fail after the link

ASSUME FileLockAssumption ==
  /\ None \notin Procs
  /\ Fenced \in BOOLEAN /\ Prompt \in BOOLEAN
  /\ MaxLinks \in Nat /\ MaxCrashes \in Nat /\ MaxReuses \in Nat /\ MaxLeaks \in Nat

VARIABLES
  lock,        \* the record in the lock file, or NoLock
  tombstones,  \* the records in the tombstones; each has a name of its own
  claim,       \* the record a process has moved to a tombstone, or NoLock
  mine,        \* the record of the lease a process has
  expected,    \* the record reclaimStaleLock() is to find
  pc,          \* where a process awaits
  links, crashes, reuses, leaks

files  == <<lock, tombstones>>
local  == <<claim, mine, expected, pc>>
bounds == <<links, crashes, reuses, leaks>>
vars   == <<files, local, bounds>>

-----------------------------------------------------------------------------
\* ownerToken is random: the n-th record that is published is unlike any other.
Record == [pid: Procs, token: 1..MaxLinks]
NoLock == [pid |-> None, token |-> 0]

Points == {"idle", "acquiring", "holding", "releasing", "inspected", "reclaiming", "claimed", "dead"}

\* Where a process takes part in a recovery: a claim of its own record is a
\* release.
Recovering(p) == \/ pc[p] \in {"inspected", "reclaiming"}
                 \/ pc[p] = "claimed" /\ expected[p].pid # p

Alive(p) == pc[p] # "dead"

Init ==
  /\ lock = NoLock /\ tombstones = {} /\ claim = [p \in Procs |-> NoLock]
  /\ mine = [p \in Procs |-> NoLock] /\ expected = [p \in Procs |-> NoLock]
  /\ pc = [p \in Procs |-> "idle"]
  /\ links = 0 /\ crashes = 0 /\ reuses = 0 /\ leaks = 0

Goto(p, point) == pc' = [pc EXCEPT ![p] = point]

-----------------------------------------------------------------------------
(* acquire()                                                               *)

Acquire(p) ==
  /\ pc[p] = "idle"
  /\ Goto(p, "acquiring")
  /\ UNCHANGED <<files, claim, mine, expected, bounds>>

PublishOver(p, record) == lock' = record /\ UNCHANGED tombstones

\* The hard link publishes the whole record at once, if the path is free; a
\* link that fails with EEXIST is tried again with a new record.
Publish(p, record) ==
  /\ lock = NoLock
  /\ lock' = record
  /\ UNCHANGED tombstones

NewRecordReused(p) == [pid |-> p, token |-> links]
NewRecord(p) == [pid |-> p, token |-> links + 1]

Link(p) ==
  /\ pc[p] = "acquiring"
  /\ links < MaxLinks /\ links' = links + 1
  /\ Publish(p, NewRecord(p))
  /\ mine' = [mine EXCEPT ![p] = NewRecord(p)]
  /\ Goto(p, "holding")
  /\ UNCHANGED <<claim, expected, crashes, reuses, leaks>>

\* The temporary file cannot be removed after the link: acquire() throws and
\* the published lock has an owner that does not know of it.
LinkLeaks(p) ==
  /\ pc[p] = "acquiring"
  /\ leaks < MaxLeaks /\ leaks' = leaks + 1
  /\ links < MaxLinks /\ links' = links + 1
  /\ Publish(p, NewRecord(p))
  /\ Goto(p, "idle")
  /\ UNCHANGED <<claim, mine, expected, crashes, reuses>>

\* The deadline passes, or a file operation fails before the link.
GiveUp(p) ==
  /\ pc[p] = "acquiring"
  /\ Goto(p, "idle")
  /\ UNCHANGED <<files, claim, mine, expected, bounds>>

-----------------------------------------------------------------------------
(* release() and recoverStale()                                            *)

ReleaseForgets(p) ==
  /\ pc[p] = "holding"
  /\ Goto(p, "releasing")
  /\ UNCHANGED <<files, claim, mine, expected, bounds>>

Release(p) ==
  /\ pc[p] = "holding"
  /\ expected' = [expected EXCEPT ![p] = mine[p]]
  /\ Goto(p, "releasing")
  /\ UNCHANGED <<files, claim, mine, bounds>>

\* inspect(): read the record, then ...
Inspect(p) ==
  /\ pc[p] = "idle" /\ lock # NoLock
  /\ Fenced => \A q \in Procs : ~Recovering(q)
  /\ expected' = [expected EXCEPT ![p] = lock]
  /\ Goto(p, "inspected")
  /\ UNCHANGED <<files, claim, mine, bounds>>

\* ... ask whether its process is alive: only a dead owner is recovered.
ProbeAnyOwner(p) ==
  /\ pc[p] = "inspected"
  /\ Goto(p, "reclaiming")
  /\ UNCHANGED <<files, claim, mine, expected, bounds>>

ProbeDead(p) ==
  /\ pc[p] = "inspected" /\ ~Alive(expected[p].pid)
  /\ Goto(p, "reclaiming")
  /\ UNCHANGED <<files, claim, mine, expected, bounds>>

ProbeAlive(p) ==
  /\ pc[p] = "inspected" /\ Alive(expected[p].pid)
  /\ Goto(p, "idle")
  /\ UNCHANGED <<files, claim, mine, expected, bounds>>

-----------------------------------------------------------------------------
(* reclaimStaleLock()                                                      *)

\* rename(): whatever is at the path goes to the tombstone of this process.
Claim(p) ==
  /\ pc[p] \in {"releasing", "reclaiming"} /\ lock # NoLock
  /\ claim' = [claim EXCEPT ![p] = lock]
  /\ lock' = NoLock /\ tombstones' = tombstones \cup {lock}
  /\ Goto(p, "claimed")
  /\ UNCHANGED <<mine, expected, bounds>>

ClaimMisses(p) ==
  /\ pc[p] \in {"releasing", "reclaiming"} /\ lock = NoLock
  /\ Goto(p, "idle")
  /\ UNCHANGED <<files, claim, mine, expected, bounds>>

MatchesLease(p) == claim[p] = mine[p]
Matches(p) == claim[p] = expected[p]

Delete(p) ==
  /\ pc[p] = "claimed" /\ Matches(p)
  /\ tombstones' = tombstones \ {claim[p]}
  /\ claim' = [claim EXCEPT ![p] = NoLock]
  /\ Goto(p, "idle")
  /\ UNCHANGED <<lock, mine, expected, bounds>>

\* The record is another one: link it back if the path is still free ...
Restore(p) ==
  /\ pc[p] = "claimed" /\ ~Matches(p) /\ lock = NoLock
  /\ lock' = claim[p] /\ tombstones' = tombstones \ {claim[p]}
  /\ claim' = [claim EXCEPT ![p] = NoLock]
  /\ Goto(p, "idle")
  /\ UNCHANGED <<mine, expected, bounds>>

\* ... and leave it in the tombstone if it is not.
LeaveClaim(p) ==
  /\ pc[p] = "claimed" /\ ~Matches(p) /\ lock # NoLock
  /\ claim' = [claim EXCEPT ![p] = NoLock]
  /\ Goto(p, "idle")
  /\ UNCHANGED <<files, mine, expected, bounds>>

-----------------------------------------------------------------------------
\* A process dies where it stands; its files stay.
Crash(p) ==
  /\ Prompt => \A q \in Procs : ~(pc[q] = "inspected" /\ expected[q].pid = p)
  /\ Alive(p) /\ crashes < MaxCrashes /\ crashes' = crashes + 1
  /\ Goto(p, "dead")
  /\ UNCHANGED <<files, claim, mine, expected, links, reuses, leaks>>

\* Another process gets the PID of a dead one.
Reuse(p) ==
  /\ ~Alive(p) /\ reuses < MaxReuses /\ reuses' = reuses + 1
  /\ Goto(p, "idle")
  /\ UNCHANGED <<files, claim, mine, expected, links, crashes, leaks>>

Reclaim(p) == Claim(p) \/ ClaimMisses(p) \/ Delete(p) \/ Restore(p) \/ LeaveClaim(p)

Step(p) ==
  \/ Acquire(p) \/ Link(p) \/ LinkLeaks(p) \/ GiveUp(p)
  \/ Release(p) \/ Inspect(p) \/ ProbeDead(p) \/ ProbeAlive(p)
  \/ Reclaim(p)

Next == \E p \in Procs : Step(p) \/ Crash(p) \/ Reuse(p)

Spec == Init /\ [][Next]_vars

\* A process that has begun an operation of the lock ends it, a holder gives
\* the lock back, and a Host that starts recovers what is stale.
Fairness ==
  \A p \in Procs : /\ WF_vars(GiveUp(p)) /\ WF_vars(Release(p)) /\ WF_vars(Reclaim(p))
                   /\ WF_vars(ProbeDead(p) \/ ProbeAlive(p))
                   /\ SF_vars(Inspect(p) /\ ~Alive(lock.pid))

FairSpec == Spec /\ Fairness

-----------------------------------------------------------------------------
(* Properties.                                                             *)

TypeOK ==
  /\ lock \in Record \cup {NoLock} /\ tombstones \subseteq Record
  /\ claim \in [Procs -> Record \cup {NoLock}]
  /\ mine \in [Procs -> Record \cup {NoLock}] /\ expected \in [Procs -> Record \cup {NoLock}]
  /\ pc \in [Procs -> Points]
  /\ links \in 0..MaxLinks /\ crashes \in 0..MaxCrashes /\ reuses \in 0..MaxReuses /\ leaks \in 0..MaxLeaks

Holders == {p \in Procs : pc[p] = "holding"}

\* acquire() returns a lease to one process at a time: the state file is
\* written by one process at a time, one proxy at a time starts the Host.
MutualExclusion == \A p, q \in Holders : p = q

\* A lease is what the lock file says, from acquire() until release() moves
\* the file away: recovery never takes the lock of a process that is at work.
LeaseIsOnDisk == \A p \in Procs : pc[p] \in {"holding", "releasing"} => lock = mine[p]

\* "A record changed by a racing writer is never deleted": whoever recovers, at
\* whatever moment, the record of a lease is in the lock file or in a tombstone
\* until its process releases it.
LeaseIsKept == \A p \in Procs : pc[p] \in {"holding", "releasing"} => mine[p] \in {lock} \cup tombstones

\* Two processes only hold the lock at a time when the record of one of them has
\* been moved to a tombstone, which a recovery leaves where it cannot put it back.
OverlapLeavesClaim == \A p, q \in Holders : p # q => {mine[p], mine[q]} \cap tombstones # {}

\* The lock keeps the promise of the abstract mutex.
Abstract == INSTANCE Mutex WITH holders <- Holders
Implements == Abstract!Spec

\* A lock file nobody will give back is one a recovery can take: its owner is
\* dead.  Only a failed unlink after the link leaves another one.
NoGhostLock ==
  lock # NoLock /\ leaks = 0 =>
    \/ ~Alive(lock.pid) \/ reuses > 0
    \/ pc[lock.pid] \in {"holding", "releasing"} /\ mine[lock.pid] = lock

\* No dead owner's lock is in the lock file, nor about to be put back there.
NothingIsStale ==
  \A p \in Procs :
    Alive(p) \/ (lock.pid # p /\ \A q \in Procs : pc[q] = "claimed" => claim[q].pid # p)

\* The lock of a dead owner is recovered for good, in the end.
StaleIsRecovered == <>[]NothingIsStale
=============================================================================
