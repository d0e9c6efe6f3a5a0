--------------------------- MODULE FileLockProofs ---------------------------
(***************************************************************************)
(* Proofs about FileLock.  With recoverers that hold the authority fence   *)
(* and probes that follow the read of a record at once, the lock implements *)
(* the abstract mutex, for any number of processes, crashes, reused PIDs   *)
(* and failed acquires.                                                    *)
(***************************************************************************)
EXTENDS FileLock, TLAPS

\* A lease belongs to its process and is what the lock file says.
Leased(p) ==
  /\ pc[p] \in {"holding", "releasing"} => lock = mine[p] /\ mine[p].pid = p
  /\ pc[p] = "releasing" => expected[p] = mine[p]

\* A recovery that has seen the owner dead still has its record before it, and
\* nobody holds that record.
Recovered(p) ==
  /\ pc[p] = "inspected" => expected[p].pid \in Procs
  /\ pc[p] = "inspected" /\ pc[expected[p].pid] = "dead" => lock = expected[p]
  /\ pc[p] = "reclaiming" =>
       /\ lock = expected[p] /\ lock \in Record
       /\ pc[lock.pid] \notin {"holding", "releasing"}
       /\ lock.pid # p
  /\ pc[p] = "claimed" => claim[p] = expected[p]

OneRecovery == \A p, q \in Procs : Recovering(p) /\ Recovering(q) => p = q

IInv ==
  /\ TypeOK
  /\ \A p \in Procs : Leased(p) /\ Recovered(p)
  /\ OneRecovery

LEMMA NoLockNotRecord == NoLock \notin Record /\ \A r \in Record : r.pid \in Procs /\ r # NoLock
BY FileLockAssumption DEF NoLock, Record

LEMMA Initially == ASSUME Init PROVE IInv
BY FileLockAssumption DEF Init, IInv, TypeOK, Points, Leased, Recovered, OneRecovery, Recovering

\* Two leases would be the same record.
LEMMA LeaseUnique ==
  ASSUME IInv, NEW p \in Procs, NEW q \in Procs,
         pc[p] \in {"holding", "releasing"}, pc[q] \in {"holding", "releasing"}
  PROVE  p = q
BY DEF IInv, Leased

LEMMA Inductive ==
  ASSUME Fenced, Prompt, IInv, [Next]_vars
  PROVE  IInv'
<1> USE FileLockAssumption, NoLockNotRecord DEF IInv, Alive
<1>1. ASSUME NEW p \in Procs, Acquire(p) PROVE IInv'
    BY <1>1 DEF Acquire, Goto, TypeOK, Points, Leased, Recovered, OneRecovery, Recovering, files, bounds
<1>2. ASSUME NEW p \in Procs, Link(p) PROVE IInv'
  <2>1. NewRecord(p) \in Record /\ NewRecord(p).pid = p
      BY <1>2 DEF Link, NewRecord, Record, TypeOK
  <2>2. TypeOK'
      BY <1>2, <2>1 DEF Link, Publish, Goto, TypeOK, Points
  <2>3. \A q \in Procs : pc'[q] = (IF q = p THEN "holding" ELSE pc[q]) /\ expected'[q] = expected[q]
      BY <1>2 DEF Link, Goto, TypeOK
  <2>4. lock = NoLock /\ lock.pid \notin Procs
      BY <1>2 DEF Link, Publish, NoLock
  <2>5. \A q \in Procs : Leased(q)'
      BY <1>2, <2>1, <2>3, <2>4 DEF Link, Publish, TypeOK, Leased
  <2>6. \A q \in Procs : Recovered(q)'
      BY <1>2, <2>3, <2>4 DEF Link, Publish, Recovered
  <2>7. OneRecovery'
      BY <2>3 DEF OneRecovery, Recovering
  <2> QED
      BY <2>2, <2>5, <2>6, <2>7
<1>3. ASSUME NEW p \in Procs, LinkLeaks(p) PROVE IInv'
  <2>1. NewRecord(p) \in Record /\ NewRecord(p).pid = p
      BY <1>3 DEF LinkLeaks, NewRecord, Record, TypeOK
  <2>2. TypeOK'
      BY <1>3, <2>1 DEF LinkLeaks, Publish, Goto, TypeOK, Points
  <2>3. \A q \in Procs : pc'[q] = (IF q = p THEN "idle" ELSE pc[q]) /\ expected'[q] = expected[q]
      BY <1>3 DEF LinkLeaks, Goto, TypeOK
  <2>4. lock = NoLock /\ lock.pid \notin Procs
      BY <1>3 DEF LinkLeaks, Publish, NoLock
  <2>5. \A q \in Procs : Leased(q)' /\ Recovered(q)'
      BY <1>3, <2>1, <2>3, <2>4 DEF LinkLeaks, Publish, Leased, Recovered
  <2>6. OneRecovery'
      BY <2>3 DEF OneRecovery, Recovering
  <2> QED
      BY <2>2, <2>5, <2>6
<1>4. ASSUME NEW p \in Procs, GiveUp(p) PROVE IInv'
    BY <1>4 DEF GiveUp, Goto, TypeOK, Points, Leased, Recovered, OneRecovery, Recovering, files, bounds
<1>5. ASSUME NEW p \in Procs, Release(p) PROVE IInv'
  <2>1. TypeOK'
      BY <1>5 DEF Release, Goto, TypeOK, Points, files, bounds
  <2>2. \A q \in Procs : Leased(q)' /\ Recovered(q)'
      BY <1>5 DEF Release, Goto, TypeOK, Leased, Recovered, files
  <2>3. OneRecovery'
      BY <1>5 DEF Release, Goto, TypeOK, OneRecovery, Recovering
  <2> QED
      BY <2>1, <2>2, <2>3
<1>6. ASSUME NEW p \in Procs, Inspect(p) PROVE IInv'
  <2>1. TypeOK'
      BY <1>6 DEF Inspect, Goto, TypeOK, Points, files, bounds
  <2>2. \A q \in Procs : Leased(q)' /\ Recovered(q)'
      BY <1>6 DEF Inspect, Goto, TypeOK, Leased, Recovered, files
  <2>3. OneRecovery'
      BY <1>6 DEF Inspect, Goto, TypeOK, OneRecovery, Recovering
  <2> QED
      BY <2>1, <2>2, <2>3
<1>7. ASSUME NEW p \in Procs, ProbeDead(p) PROVE IInv'
  <2>1. TypeOK'
      BY <1>7 DEF ProbeDead, Goto, TypeOK, Points, files, bounds
  <2>2. /\ \A q \in Procs : pc'[q] = IF q = p THEN "reclaiming" ELSE pc[q]
        /\ pc[p] = "inspected" /\ UNCHANGED <<lock, claim, mine, expected>>
      BY <1>7 DEF ProbeDead, Goto, TypeOK, files
  <2>3. lock = expected[p] /\ lock.pid \in Procs /\ pc[lock.pid] = "dead"
      BY <1>7, <2>2 DEF ProbeDead, Recovered
  <2>4. lock \in Record
      BY <2>3 DEF TypeOK, NoLock
  <2>5. \A q \in Procs : Leased(q)'
      BY <2>2 DEF Leased
  <2>6. \A q \in Procs : Recovered(q)'
      BY <2>2, <2>3, <2>4 DEF Recovered
  <2>7. OneRecovery'
      BY <2>2 DEF OneRecovery, Recovering
  <2> QED
      BY <2>1, <2>5, <2>6, <2>7
<1>8. ASSUME NEW p \in Procs, ProbeAlive(p) PROVE IInv'
    BY <1>8 DEF ProbeAlive, Goto, TypeOK, Points, Leased, Recovered, OneRecovery, Recovering, files, bounds
<1>9. ASSUME NEW p \in Procs, Claim(p) PROVE IInv'
  <2>1. TypeOK'
      BY <1>9 DEF Claim, Goto, TypeOK, Points, bounds
  <2>2. \A q \in Procs : Leased(q)'
      BY <1>9, LeaseUnique DEF Claim, Goto, TypeOK, Leased, Recovered
  <2>3. \A q \in Procs : Recovered(q)'
      BY <1>9 DEF Claim, Goto, TypeOK, Leased, Recovered, OneRecovery, Recovering
  <2>4. OneRecovery'
      BY <1>9 DEF Claim, Goto, TypeOK, OneRecovery, Recovering, Leased, Recovered
  <2> QED
      BY <2>1, <2>2, <2>3, <2>4
<1>10. ASSUME NEW p \in Procs, ClaimMisses(p) PROVE IInv'
    BY <1>10 DEF ClaimMisses, Goto, TypeOK, Points, Leased, Recovered, OneRecovery, Recovering, files, bounds
<1>11. ASSUME NEW p \in Procs, Delete(p) PROVE IInv'
    BY <1>11 DEF Delete, Goto, TypeOK, Points, Leased, Recovered, OneRecovery, Recovering, bounds
<1>12. ASSUME NEW p \in Procs, Restore(p) \/ LeaveClaim(p) PROVE FALSE
    BY <1>12 DEF Restore, LeaveClaim, Matches, Recovered
<1>13. ASSUME NEW p \in Procs, Crash(p) PROVE IInv'
    BY <1>13 DEF Crash, Goto, TypeOK, Points, Leased, Recovered, OneRecovery, Recovering, files
<1>14. ASSUME NEW p \in Procs, Reuse(p) PROVE IInv'
    BY <1>14 DEF Reuse, Goto, TypeOK, Points, Leased, Recovered, OneRecovery, Recovering, files
<1>15. CASE UNCHANGED vars
    BY <1>15 DEF vars, files, local, bounds, TypeOK, Leased, Recovered, OneRecovery, Recovering
<1> QED
    BY <1>1, <1>2, <1>3, <1>4, <1>5, <1>6, <1>7, <1>8, <1>9, <1>10, <1>11, <1>12, <1>13, <1>14, <1>15
       DEF Next, Step, Reclaim

\* A recovery never takes the lock of a process that is at work: what a lease
\* says is in the lock file until release() moves the file away.
THEOREM LeaseSafe == ASSUME Fenced, Prompt PROVE Spec => []LeaseIsOnDisk
<1>1. Init => IInv
    BY Initially
<1>2. IInv /\ [Next]_vars => IInv'
    BY Inductive
<1>3. IInv => LeaseIsOnDisk
    BY DEF IInv, Leased, LeaseIsOnDisk
<1> QED
    BY <1>1, <1>2, <1>3, PTL DEF Spec

LEMMA TypesKeep == ASSUME TypeOK, [Next]_vars PROVE TypeOK'
<1> USE FileLockAssumption DEF TypeOK, Goto, Points
<1>1. ASSUME NEW p \in Procs, Link(p) \/ LinkLeaks(p) PROVE TypeOK'
  <2>1. NewRecord(p) \in Record
      BY <1>1 DEF Link, LinkLeaks, NewRecord, Record
  <2> QED
      BY <1>1, <2>1 DEF Link, LinkLeaks, Publish
<1>2. ASSUME NEW p \in Procs, Acquire(p) \/ GiveUp(p) \/ Release(p) PROVE TypeOK'
    BY <1>2 DEF Acquire, GiveUp, Release, files, bounds
<1>3. ASSUME NEW p \in Procs, Inspect(p) \/ ProbeDead(p) \/ ProbeAlive(p) PROVE TypeOK'
    BY <1>3 DEF Inspect, ProbeDead, ProbeAlive, files, bounds
<1>4. ASSUME NEW p \in Procs, Claim(p) \/ ClaimMisses(p) \/ Delete(p) PROVE TypeOK'
    BY <1>4 DEF Claim, ClaimMisses, Delete, files, bounds
<1>5. ASSUME NEW p \in Procs, Restore(p) \/ LeaveClaim(p) PROVE TypeOK'
    BY <1>5 DEF Restore, LeaveClaim, files, bounds
<1>6. ASSUME NEW p \in Procs, Crash(p) \/ Reuse(p) PROVE TypeOK'
    BY <1>6 DEF Crash, Reuse, files
<1>7. CASE UNCHANGED vars
    BY <1>7 DEF vars, files, local, bounds
<1> QED
    BY <1>1, <1>2, <1>3, <1>4, <1>5, <1>6, <1>7 DEF Next, Step, Reclaim

\* The lock file, the tombstones and the leases always have the shape they are
\* written in, however a lock is recovered.
THEOREM TypeCorrect == Spec => []TypeOK
<1>1. Init => TypeOK
    BY FileLockAssumption DEF Init, TypeOK, Points
<1>2. TypeOK /\ [Next]_vars => TypeOK'
    BY TypesKeep
<1> QED
    BY <1>1, <1>2, PTL DEF Spec

-----------------------------------------------------------------------------
\* A step leaves no lock without an owner: either its owner is at work, or it is
\* dead, or the lock moves with what release() and recovery do to it.
LEMMA NoGhostStep ==
  ASSUME Fenced, Prompt, IInv, NoGhostLock, [Next]_vars
  PROVE  NoGhostLock'
<1> USE FileLockAssumption, NoLockNotRecord DEF IInv, TypeOK, NoGhostLock, Alive
<1>1. ASSUME NEW p \in Procs, Acquire(p) \/ GiveUp(p) \/ Inspect(p) \/ ProbeDead(p) \/ ProbeAlive(p)
      PROVE NoGhostLock'
    BY <1>1 DEF Acquire, GiveUp, Inspect, ProbeDead, ProbeAlive, Goto, files, bounds
<1>2. ASSUME NEW p \in Procs, Link(p) PROVE NoGhostLock'
    BY <1>2 DEF Link, Publish, NewRecord, Goto
<1>3. ASSUME NEW p \in Procs, LinkLeaks(p) PROVE NoGhostLock'
    BY <1>3 DEF LinkLeaks
<1>4. ASSUME NEW p \in Procs, Release(p) PROVE NoGhostLock'
    BY <1>4 DEF Release, Goto, files, bounds
<1>5. ASSUME NEW p \in Procs, Claim(p) PROVE NoGhostLock'
    BY <1>5 DEF Claim
<1>6. ASSUME NEW p \in Procs, ClaimMisses(p) PROVE NoGhostLock'
    BY <1>6 DEF ClaimMisses, files
<1>7. ASSUME NEW p \in Procs, Delete(p) PROVE NoGhostLock'
    BY <1>7 DEF Delete, Goto, bounds
<1>8. ASSUME NEW p \in Procs, Restore(p) \/ LeaveClaim(p) PROVE FALSE
    BY <1>8 DEF Restore, LeaveClaim, Matches, Recovered
<1>9. ASSUME NEW p \in Procs, Crash(p) PROVE NoGhostLock'
    BY <1>9 DEF Crash, Goto, files
<1>10. ASSUME NEW p \in Procs, Reuse(p) PROVE NoGhostLock'
    BY <1>10 DEF Reuse, Goto, files
<1>11. CASE UNCHANGED vars
    BY <1>11 DEF vars, files, local, bounds
<1> QED
    BY <1>1, <1>2, <1>3, <1>4, <1>5, <1>6, <1>7, <1>8, <1>9, <1>10, <1>11 DEF Next, Step, Reclaim

\* The lock file always belongs to a process that will give it back or to one
\* that is dead, unless an acquire() failed after its link.
THEOREM NoGhosts == ASSUME Fenced, Prompt PROVE Spec => []NoGhostLock
<1>1. Init => IInv /\ NoGhostLock
    BY Initially DEF Init, NoGhostLock
<1>2. IInv /\ NoGhostLock /\ [Next]_vars => (IInv /\ NoGhostLock)'
    BY Inductive, NoGhostStep
<1> QED
    BY <1>1, <1>2, PTL DEF Spec

\* acquire() returns a lease to one process at a time.
THEOREM LockExclusive == ASSUME Fenced, Prompt PROVE Spec => []MutualExclusion
<1>1. Init => IInv
    BY Initially
<1>2. IInv /\ [Next]_vars => IInv'
    BY Inductive
<1>3. IInv => MutualExclusion
    BY LeaseUnique DEF MutualExclusion, Holders
<1> QED
    BY <1>1, <1>2, <1>3, PTL DEF Spec

\* A step of a process that stays at work, or stays away from it, is a stutter
\* of the mutex.
LEMMA Stutter ==
  ASSUME NEW p \in Procs, NEW point, pc \in [Procs -> Points], Goto(p, point),
         pc[p] # "holding", point # "holding"
  PROVE  Holders' = Holders
BY DEF Goto, Holders

\* A process at work that goes on to something else leaves the mutex.
LEMMA Leaves ==
  ASSUME NEW p \in Procs, NEW point, pc \in [Procs -> Points], Goto(p, point),
         pc[p] = "holding", point # "holding"
  PROVE  Abstract!Leave(p)
BY DEF Goto, Holders, Abstract!Leave

LEMMA StepRefines ==
  ASSUME IInv, IInv', [Next]_vars
  PROVE  [Abstract!Next]_Holders
<1> USE DEF IInv, TypeOK
<1>1. ASSUME NEW p \in Procs, Link(p) PROVE Abstract!Enter(p)
  <2>1. lock = NoLock /\ lock.pid \notin Procs
      BY <1>1, FileLockAssumption DEF Link, Publish, NoLock
  <2>2. Holders = {}
      BY <2>1, FileLockAssumption DEF Holders, Leased
  <2>3. \A q \in Procs : pc'[q] = IF q = p THEN "holding" ELSE pc[q]
      BY <1>1 DEF Link, Goto
  <2>4. Holders' = {p}
      BY <2>2, <2>3 DEF Holders
  <2> QED
      BY <2>2, <2>4 DEF Abstract!Enter
<1>2. ASSUME NEW p \in Procs, Release(p) PROVE Abstract!Leave(p)
    BY <1>2, Leaves DEF Release
<1>3. ASSUME NEW p \in Procs, Crash(p), pc[p] = "holding" PROVE Abstract!Leave(p)
    BY <1>3, Leaves DEF Crash
<1>4. ASSUME NEW p \in Procs, Crash(p), pc[p] # "holding" PROVE Holders' = Holders
    BY <1>4, Stutter DEF Crash
<1>5. ASSUME NEW p \in Procs, Acquire(p) \/ LinkLeaks(p) \/ GiveUp(p) PROVE Holders' = Holders
    BY <1>5, Stutter DEF Acquire, LinkLeaks, GiveUp
<1>6. ASSUME NEW p \in Procs, Inspect(p) \/ ProbeDead(p) \/ ProbeAlive(p) PROVE Holders' = Holders
    BY <1>6, Stutter DEF Inspect, ProbeDead, ProbeAlive
<1>7. ASSUME NEW p \in Procs, Reclaim(p) PROVE Holders' = Holders
    BY <1>7, Stutter DEF Reclaim, Claim, ClaimMisses, Delete, Restore, LeaveClaim
<1>8. ASSUME NEW p \in Procs, Reuse(p) PROVE Holders' = Holders
    BY <1>8, Stutter DEF Reuse, Alive
<1>9. CASE UNCHANGED vars
    BY <1>9 DEF vars, local, Holders
<1> QED
    BY <1>1, <1>2, <1>3, <1>4, <1>5, <1>6, <1>7, <1>8, <1>9 DEF Next, Step, Abstract!Next

\* The lock file, links, renames and tombstones implement the abstract mutex.
THEOREM LockRefines == ASSUME Fenced, Prompt PROVE Spec => Implements
<1>1. Init => IInv
    BY Initially
<1>2. IInv /\ [Next]_vars => IInv'
    BY Inductive
<1>3. Init => Abstract!Init
    BY DEF Init, Holders, Abstract!Init
<1>4. IInv /\ IInv' /\ [Next]_vars => [Abstract!Next]_Holders
    BY StepRefines
<1> QED
    BY <1>1, <1>2, <1>3, <1>4, PTL DEF Spec, Implements, Abstract!Spec

-----------------------------------------------------------------------------
(* Whoever recovers, at whatever moment: what holds without the fence and   *)
(* without a probe that follows the read at once.                          *)

\* A process at work has a record of its own, and it is in the lock file or in a
\* tombstone; the record a release is to find is that one.
Kept(p) ==
  /\ pc[p] \in {"holding", "releasing"} =>
       mine[p] \in Record /\ mine[p].pid = p /\ mine[p] \in {lock} \cup tombstones
  /\ pc[p] = "releasing" => expected[p] = mine[p]

\* What reclaimStaleLock() may delete is the record of nobody at work: a
\* recovery has seen its owner dead, and no later record is like it.
Forsaken(p) ==
  /\ pc[p] = "inspected" => expected[p] \in Record
  /\ pc[p] \in {"reclaiming", "claimed"} =>
       \A q \in Procs : pc[q] \in {"holding", "releasing"} => mine[q] # expected[p]

KTypes ==
  /\ lock \in Record \cup {NoLock} /\ links \in Nat
  /\ claim \in [Procs -> Record \cup {NoLock}] /\ mine \in [Procs -> Record \cup {NoLock}]
  /\ expected \in [Procs -> Record \cup {NoLock}] /\ pc \in [Procs -> Points]

\* Tokens are drawn once: those in use are of links that were made.
Drawn ==
  /\ lock.token <= links
  /\ \A p \in Procs : claim[p].token <= links /\ mine[p].token <= links /\ expected[p].token <= links

KInv == KTypes /\ Drawn /\ \A p \in Procs : Kept(p) /\ Forsaken(p)

ConstantsOK == None \notin Procs /\ MaxLinks \in Nat

LEMMA Records ==
  ASSUME ConstantsOK
  PROVE  /\ NoLock \notin Record /\ NoLock.token = 0
         /\ \A r \in Record : r.pid \in Procs /\ r.token \in Nat /\ r # NoLock
BY DEF ConstantsOK, NoLock, Record

LEMMA KInitially == ASSUME ConstantsOK, Init PROVE KInv
BY DEF Init, KInv, KTypes, Drawn, Kept, Forsaken, Points, NoLock

\* A link makes a record that is unlike any before it, and takes none away.
LEMMA LinkKeeps ==
  ASSUME ConstantsOK, KInv, NEW p \in Procs, pc[p] = "acquiring", lock = NoLock,
         links < MaxLinks, links' = links + 1, lock' = NewRecord(p),
         UNCHANGED <<tombstones, claim, expected>>,
         \/ mine' = [mine EXCEPT ![p] = NewRecord(p)] /\ Goto(p, "holding")
         \/ mine' = mine /\ Goto(p, "idle")
  PROVE  KInv'
<1> USE Records DEF KInv
<1>1. NewRecord(p) \in Record /\ NewRecord(p).pid = p /\ NewRecord(p).token = links + 1
    BY DEF NewRecord, Record, ConstantsOK, KTypes
<1>2. KTypes'
    BY <1>1 DEF KTypes, Goto, Points
<1>3. ASSUME NEW q \in Procs, q # p
      PROVE  pc'[q] = pc[q] /\ mine'[q] = mine[q]
    BY <1>3 DEF KTypes, Goto
<1>4. /\ pc'[p] \in {"holding", "idle"} /\ (pc'[p] = "holding" => mine'[p] = NewRecord(p))
      /\ mine'[p] \in {mine[p], NewRecord(p)}
    BY DEF KTypes, Goto
<1>5. Drawn'
  <2>1. \A q \in Procs : mine[q].token \in Nat /\ claim[q].token \in Nat /\ expected[q].token \in Nat
      BY DEF KTypes
  <2>2. \A q \in Procs : mine'[q].token <= links'
      BY <1>1, <1>3, <1>4, <2>1 DEF Drawn, KTypes
  <2>3. \A q \in Procs : claim'[q].token <= links' /\ expected'[q].token <= links'
      BY <2>1 DEF Drawn, KTypes
  <2> QED
      BY <1>1, <2>2, <2>3 DEF Drawn, KTypes
<1>6. \A q \in Procs : Kept(q)'
    BY <1>1, <1>3, <1>4 DEF Kept
<1>7. \A q \in Procs : expected[q] # NewRecord(p)
    BY <1>1 DEF Drawn, KTypes
<1>8. \A q \in Procs : Forsaken(q)'
    BY <1>3, <1>4, <1>7 DEF Forsaken
<1> QED
    BY <1>2, <1>5, <1>6, <1>8

LEMMA Keeps ==
  ASSUME ConstantsOK, KInv, [Next]_vars
  PROVE  KInv'
<1> USE Records DEF KInv, Alive
<1>1. ASSUME NEW p \in Procs, Acquire(p) \/ GiveUp(p) \/ ProbeAlive(p) \/ ClaimMisses(p) PROVE KInv'
    BY <1>1 DEF Acquire, GiveUp, ProbeAlive, ClaimMisses, Goto, KTypes, Drawn, Kept, Forsaken, Points, files, bounds
<1>2. ASSUME NEW p \in Procs, Link(p) \/ LinkLeaks(p) PROVE KInv'
    BY <1>2, LinkKeeps DEF Link, LinkLeaks, Publish
<1>3. ASSUME NEW p \in Procs, Release(p) PROVE KInv'
    BY <1>3 DEF Release, Goto, KTypes, Drawn, Kept, Forsaken, Points, files, bounds
<1>4. ASSUME NEW p \in Procs, Inspect(p) PROVE KInv'
    BY <1>4 DEF Inspect, Goto, KTypes, Drawn, Kept, Forsaken, Points, files, bounds
<1>5. ASSUME NEW p \in Procs, ProbeDead(p) PROVE KInv'
    BY <1>5 DEF ProbeDead, Goto, KTypes, Drawn, Kept, Forsaken, Points, files, bounds
<1>6. ASSUME NEW p \in Procs, Claim(p) PROVE KInv'
  <2>1. KTypes' /\ Drawn'
      BY <1>6 DEF Claim, Goto, KTypes, Drawn, Points, bounds
  <2>2. \A q \in Procs : pc'[q] = (IF q = p THEN "claimed" ELSE pc[q]) /\ UNCHANGED <<mine, expected>>
      BY <1>6 DEF Claim, Goto, KTypes
  <2>3. {lock} \cup tombstones \subseteq {lock'} \cup tombstones'
      BY <1>6 DEF Claim
  <2>4. \A q \in Procs : Kept(q)'
      BY <2>2, <2>3 DEF Kept
  <2>5. pc[p] = "releasing" => \A q \in Procs : q # p /\ pc[q] \in {"holding", "releasing"} => mine[q] # expected[p]
      BY DEF Kept
  <2>6. \A q \in Procs : Forsaken(q)'
      BY <1>6, <2>2, <2>5 DEF Claim, Forsaken
  <2> QED
      BY <2>1, <2>4, <2>6
<1>7. ASSUME NEW p \in Procs, Delete(p) PROVE KInv'
  <2>1. \A q \in Procs : pc[q] \in {"holding", "releasing"} => mine[q] # claim[p]
      BY <1>7 DEF Delete, Matches, Forsaken
  <2>2. \A q \in Procs : pc'[q] = (IF q = p THEN "idle" ELSE pc[q]) /\ UNCHANGED <<lock, mine, expected>>
      BY <1>7 DEF Delete, Goto, KTypes
  <2>3. \A q \in Procs : Kept(q)'
      BY <1>7, <2>1, <2>2 DEF Delete, Kept
  <2>4. \A q \in Procs : Forsaken(q)'
      BY <2>2 DEF Forsaken
  <2>5. KTypes' /\ Drawn'
      BY <1>7 DEF Delete, Goto, KTypes, Drawn, Points, bounds
  <2> QED
      BY <2>3, <2>4, <2>5
<1>8. ASSUME NEW p \in Procs, Restore(p) \/ LeaveClaim(p) PROVE KInv'
  <2>1. \A q \in Procs : pc'[q] = (IF q = p THEN "idle" ELSE pc[q]) /\ UNCHANGED <<mine, expected>>
      BY <1>8 DEF Restore, LeaveClaim, Goto, KTypes
  <2>2. ({lock} \cup tombstones) \ {NoLock} \subseteq {lock'} \cup tombstones'
      BY <1>8 DEF Restore, LeaveClaim, files
  <2>3. \A q \in Procs : Kept(q)'
      BY <2>1, <2>2 DEF Kept
  <2>4. \A q \in Procs : Forsaken(q)'
      BY <2>1 DEF Forsaken
  <2>5. lock' \in {lock, claim[p]} /\ claim' = [claim EXCEPT ![p] = NoLock] /\ UNCHANGED <<mine, expected, links>>
      BY <1>8 DEF Restore, LeaveClaim, files, bounds
  <2>6. KTypes'
      BY <1>8, <2>5 DEF Restore, LeaveClaim, Goto, KTypes, Points
  <2>7. \A q \in Procs : claim'[q] \in {claim[q], NoLock}
      BY <2>5 DEF KTypes
  <2>8. Drawn'
      BY <2>5, <2>7 DEF KTypes, Drawn
  <2> QED
      BY <2>3, <2>4, <2>6, <2>8
<1>9. ASSUME NEW p \in Procs, Crash(p) \/ Reuse(p) PROVE KInv'
    BY <1>9 DEF Crash, Reuse, Goto, KTypes, Drawn, Kept, Forsaken, Points, files
<1>10. CASE UNCHANGED vars
    BY <1>10 DEF vars, files, local, bounds, KTypes, Drawn, Kept, Forsaken
<1> QED
    BY <1>1, <1>2, <1>3, <1>4, <1>5, <1>6, <1>7, <1>8, <1>9, <1>10 DEF Next, Step, Reclaim

LEMMA KeptShows == ASSUME ConstantsOK, KInv PROVE LeaseIsKept /\ OverlapLeavesClaim
BY DEF KInv, Kept, LeaseIsKept, OverlapLeavesClaim, Holders

\* Whoever recovers, with the fence or without it, and whatever dies in between:
\* no record of a process at work is deleted (file-lock-facade.ts:132-137), and
\* two processes are at work only when a claim that was left tells of it.
THEOREM LeasesKept == Spec => [](LeaseIsKept /\ OverlapLeavesClaim)
<1>1. ConstantsOK
    BY FileLockAssumption DEF ConstantsOK
<1>2. Init => KInv
    BY <1>1, KInitially
<1>3. KInv /\ [Next]_vars => KInv'
    BY <1>1, Keeps
<1>4. KInv => LeaseIsKept /\ OverlapLeavesClaim
    BY <1>1, KeptShows
<1> QED
    BY <1>2, <1>3, <1>4, PTL DEF Spec

=============================================================================
