---------------------- MODULE PermissionLeasesProofs ----------------------
(***************************************************************************)
(* Proofs about PermissionLeases, for any number of runs, callers, presets, *)
(* restarts and failures, when reconcile_permissions is called while no run *)
(* is at work.  The first part holds whether calls overlap or not: the      *)
(* state file always says what to give back.  The second is about calls     *)
(* that follow one another: a run works under the preset it was granted,    *)
(* and the session is free afterwards.                                      *)
(***************************************************************************)
EXTENDS MCPermissionCases, SequenceTheorems, WellFoundedInduction, TLAPS

Copies == [by: Procs, leases: [Runs -> Lease], status: [Runs -> Statuses]]

\* The leases, and the statuses, that memory, file and waiting copies have.
AllLeases   == {leases, file.leases} \cup {queue[n].leases : n \in 1..Len(queue)}
AllStatuses == {status, file.status} \cup {queue[n].status : n \in 1..Len(queue)}

BeforeLease == {"idle", "checking", "reading", "read"}
WithLease   == {"savingPrepared", "granting", "granted", "savingAcquired", "savingRefusal"}
BeforeRun   == BeforeLease \cup WithLease \cup {"baseline"}

\* Where the calls are, and what they are about.
CallsInv ==
  /\ \A p \in Procs : pc[p] \in Refreshing =>
       target[p] \in Runs /\ status[target[p]] # "none"
  /\ \A p \in Procs : pc[p] \in Restoring => held[p] \in Runs /\ leases[held[p]].state # "none"
  /\ \A r \in Runs : pc[r] \in WithLease => held[r] = r /\ Unreleased(leases[r])
  /\ \A r \in Runs : pc[r] \in {"savingRun", "prompting"} => status[r] # "none"
  /\ \A c \in Callers : pc[c] \in {"idle", "savingFinal"} \cup Refreshing \cup Restoring
  /\ \A r, s \in Runs : r # s => Resting(r) \/ Resting(s)

\* A call waits for one copy of its own.
QueueInv ==
  /\ queue \in Seq(Copies)
  /\ \A n \in 1..Len(queue) : pc[queue[n].by] \in Saving
  /\ \A m, n \in 1..Len(queue) : queue[m].by = queue[n].by => m = n

\* Nobody restores the lease of a start, and a run that is not started has none.
StartsInv ==
  /\ \A r \in Runs : pc[r] \in BeforeLease => \A l \in AllLeases : l[r].state = "none"
  /\ \A r \in Runs : pc[r] \in BeforeRun =>
       /\ \A s \in AllStatuses : s[r] = "none"
       /\ \A p \in Procs : pc[p] \in Restoring => held[p] # r

InOrder(r) == \E n \in 1..Len(order) : order[n] = r

\* Every lease goes back to the preset of the session, and has its place in the Map.
LeasesInv ==
  \A l \in AllLeases, r \in Runs : l[r].prev = Original /\ (l[r].state # "none" => InOrder(r))

\* The loan of r is in memory, on disk and in every copy that may come there.
Loan(r) == \A l \in AllLeases : Unreleased(l[r])

LoanInv ==
  /\ preset # Original => \E r \in Runs : Loan(r)
  /\ \A r \in Runs : pc[r] = "reading" => preset = Original
  /\ \A r \in Runs : pc[r] = "read" => seen[r] = Original
  /\ \A r \in Runs : pc[r] = "granting" => Loan(r)
  /\ \A r \in Runs : pc[r] = "savingPrepared" =>
       \A n \in 1..Len(queue) : queue[n].by = r =>
         \A m \in n..Len(queue) : Unreleased(queue[m].leases[r])

LeaseInv == TypeOK /\ CallsInv /\ QueueInv /\ StartsInv /\ LeasesInv /\ LoanInv

-----------------------------------------------------------------------------
(* What a step of a call does, in terms the proofs share.                  *)

Copy == [leases |-> Head(queue).leases, status |-> Head(queue).status]

\* The queue a step of p starts from: its own copy is at the head, or it waits
\* for none.
Written(p, q) ==
  \/ q = queue /\ file' = file /\ pc[p] \notin Saving
  \/ Awaited(p) /\ q = Tail(queue) /\ file' \in {file, Copy}

\* p goes on, with a copy of the memory in the queue where it waits for one.
Moves(p, q) ==
  \E point \in Points :
    /\ pc' = [pc EXCEPT ![p] = point]
    /\ \/ queue' = q
       \/ point \in Saving /\ queue' = Append(q, [by |-> p, leases |-> leases', status |-> status'])

\* No lease is added, and none is released while its preset is lent.
Kept == \A r \in Runs : leases'[r] = leases[r]
          \/ /\ leases[r].state # "none" /\ leases'[r].state # "none"
             /\ leases'[r].prev = leases[r].prev
             /\ Unreleased(leases'[r]) \/ (preset = Original /\ pc[r] \notin BeforeRun)

MemoryOK == leases' \in [Runs -> Lease] /\ status' \in [Runs -> Statuses]

\* The least element of a set of naturals, by well-founded induction.
LEMMA Least == ASSUME NEW T \in SUBSET Nat, T # {} PROVE \E x \in T : \A y \in T : x <= y
<1> DEFINE R == OpToRel(<, Nat)
<1>1. IsWellFoundedOn(R, Nat) BY NatLessThanWellFounded
<1>2. \A x, y \in Nat : y < x => <<y, x>> \in R BY DEF OpToRel
<1> HIDE DEF R
<1>3. PICK x \in T : \A y \in T : ~(<<y, x>> \in R) BY <1>1, WFMin
<1>4. \A y \in T : ~(y < x) BY <1>2, <1>3
<1>5. QED BY <1>4

\* activeForSession() misses no lease: if it finds none, every lease is released.
LEMMA ActiveLeaseIs ==
  ASSUME LeaseInv
  PROVE  /\ ActiveLease # None => ActiveLease \in Runs /\ Unreleased(leases[ActiveLease])
         /\ ActiveLease = None => \A r \in Runs : ~Unreleased(leases[r])
<1> USE PermissionLeasesAssumption
<1>1. \A n \in 1..Len(order) : order[n] \in Runs
  BY DEF LeaseInv, TypeOK
<1>2. ASSUME NEW n \in 1..Len(order), IsFirst(n) PROVE ActiveLease \in Runs /\ Unreleased(leases[ActiveLease])
  BY <1>1, <1>2 DEF ActiveLease, IsFirst
<1>3. (\A n \in 1..Len(order) : ~IsFirst(n)) => ActiveLease = None
  BY DEF ActiveLease
<1>4. ASSUME NEW r \in Runs, Unreleased(leases[r]) PROVE \E n \in 1..Len(order) : IsFirst(n)
  <2> DEFINE T == {n \in 1..Len(order) : Unreleased(leases[order[n]])}
  <2>1. InOrder(r) BY <1>4 DEF LeaseInv, LeasesInv, AllLeases, Unreleased
  <2>2. T # {} /\ T \subseteq Nat BY <2>1, <1>4 DEF InOrder, LeaseInv, TypeOK
  <2>3. PICK x \in T : \A y \in T : x <= y BY <2>2, Least
  <2>4. \A m \in 1..(x - 1) : m \in 1..Len(order) /\ ~(x <= m) BY <2>2, <2>3 DEF LeaseInv, TypeOK
  <2>5. IsFirst(x) BY <2>3, <2>4 DEF IsFirst
  <2>6. QED BY <2>5
<1>5. QED BY <1>2, <1>3, <1>4

\* Copies come to the file in the order they were made, and no others.
LEMMA QueueStep ==
  ASSUME LeaseInv, NEW p \in Procs, NEW q, Written(p, q), Moves(p, q), MemoryOK
  PROVE  /\ QueueInv'
         /\ file' \in [leases: [Runs -> Lease], status: [Runs -> Statuses]]
         /\ pc' \in [Procs -> Points]
         /\ AllLeases' \subseteq AllLeases \cup {leases'}
         /\ AllStatuses' \subseteq AllStatuses \cup {status'}
<1> DEFINE new == [by |-> p, leases |-> leases', status |-> status']
<1>1. queue \in Seq(Copies) /\ new \in Copies BY DEF LeaseInv, QueueInv, Copies, MemoryOK
<1>2. /\ q \in Seq(Copies)
      /\ \A n \in 1..Len(q) : q[n].by # p /\ pc[q[n].by] \in Saving
      /\ \A m, n \in 1..Len(q) : q[m].by = q[n].by => m = n
      /\ \A n \in 1..Len(q) : \E m \in 1..Len(queue) : q[n] = queue[m]
  <2>1. CASE q = queue /\ pc[p] \notin Saving
    BY <1>1, <2>1 DEF LeaseInv, QueueInv
  <2>2. CASE Awaited(p) /\ q = Tail(queue)
    <3>1. /\ q \in Seq(Copies) /\ Len(q) = Len(queue) - 1 /\ Len(queue) \in Nat
          /\ \A n \in 1..Len(q) : q[n] = queue[n + 1]
      BY <1>1, <2>2, HeadTailProperties, LenProperties DEF Awaited
    <3>2. queue[1].by = p /\ 1 \in 1..Len(queue) BY <1>1, <2>2, <3>1, EmptySeq, LenProperties DEF Awaited
    <3>3. \A n \in 1..Len(q) : n + 1 \in 1..Len(queue) /\ n + 1 # 1 BY <3>1
    <3>4. QueueInv BY DEF LeaseInv
    <3>5. \A n \in 1..Len(q) : q[n].by # p BY <3>1, <3>2, <3>3, <3>4 DEF QueueInv
    <3>6. \A m, n \in 1..Len(q) : q[m].by = q[n].by => m = n
      <4> SUFFICES ASSUME NEW m \in 1..Len(q), NEW n \in 1..Len(q), q[m].by = q[n].by PROVE m = n
        OBVIOUS
      <4>1. m + 1 = n + 1 BY <3>1, <3>3, <3>4 DEF QueueInv
      <4>2. QED BY <4>1
    <3>7. QED BY <3>1, <3>3, <3>4, <3>5, <3>6 DEF QueueInv
  <2>3. QED BY <2>1, <2>2 DEF Written
<1>3. PICK point \in Points :
        /\ pc' = [pc EXCEPT ![p] = point]
        /\ \/ queue' = q
           \/ point \in Saving /\ queue' = Append(q, new)
  BY DEF Moves
<1>4. /\ pc' \in [Procs -> Points] /\ pc'[p] = point
      /\ \A n \in 1..Len(q) : pc'[q[n].by] \in Saving
  <2>1. \A n \in 1..Len(q) : q[n] \in Copies BY <1>2, ElementOfSeq
  <2>1a. \A n \in 1..Len(q) : q[n].by \in Procs BY <2>1 DEF Copies
  <2>2. QED BY <1>2, <1>3, <2>1a DEF LeaseInv, TypeOK
<1>5. /\ queue' \in Seq(Copies)
      /\ \A n \in 1..Len(queue') :
           \/ queue'[n] = new
           \/ n \in 1..Len(q) /\ queue'[n] = q[n]
  <2>1. CASE queue' = q BY <2>1, <1>2
  <2>2. CASE queue' = Append(q, new)
    <3> HIDE DEF new
    <3>1. /\ queue' \in Seq(Copies) /\ Len(queue') = Len(q) + 1 /\ Len(q) \in Nat
          /\ \A n \in 1..Len(q) : queue'[n] = q[n]
          /\ queue'[Len(q) + 1] = new
      BY <2>2, <1>1, <1>2, AppendProperties, LenProperties
    <3>2. QED BY <3>1
  <2>3. QED BY <2>1, <2>2, <1>3
<1>6. QueueInv'
  <2>1. CASE queue' = q BY <2>1, <1>2, <1>4, <1>5 DEF QueueInv
  <2>2. CASE point \in Saving /\ queue' = Append(q, new)
    <3>1. /\ Len(queue') = Len(q) + 1 /\ queue'[Len(q) + 1] = new /\ Len(q) \in Nat
          /\ \A n \in 1..Len(q) : queue'[n] = q[n]
      BY <2>2, <1>1, <1>2, AppendProperties, LenProperties
    <3>2. \A n \in 1..Len(queue') : n = Len(q) + 1 \/ n \in 1..Len(q) BY <3>1
    <3>3. new.by = p OBVIOUS
    <3> HIDE DEF new
    <3>4. \A n \in 1..Len(queue') : pc'[queue'[n].by] \in Saving
      BY <2>2, <1>4, <3>1, <3>2, <3>3
    <3>5. \A m, n \in 1..Len(queue') : queue'[m].by = queue'[n].by => m = n
      BY <1>2, <3>1, <3>2, <3>3
    <3>6. QED BY <1>5, <3>4, <3>5 DEF QueueInv
  <2>3. QED BY <2>1, <2>2, <1>3
<1>7. /\ file' \in [leases: [Runs -> Lease], status: [Runs -> Statuses]]
      /\ file'.leases \in AllLeases /\ file'.status \in AllStatuses
  <2>1. CASE file' = file BY <2>1 DEF LeaseInv, TypeOK, AllLeases, AllStatuses
  <2>2. CASE Awaited(p) /\ file' = Copy
    <3>1. Head(queue) = queue[1] /\ 1 \in 1..Len(queue) /\ Head(queue) \in Copies
      BY <1>1, <2>2, HeadTailProperties, LenProperties, EmptySeq DEF Awaited
    <3>2. QED BY <2>2, <3>1 DEF Copy, Copies, AllLeases, AllStatuses
  <2>3. QED BY <2>1, <2>2 DEF Written
<1>8. \A n \in 1..Len(queue') : /\ queue'[n].leases \in AllLeases \cup {leases'}
                                /\ queue'[n].status \in AllStatuses \cup {status'}
  BY <1>2, <1>5 DEF AllLeases, AllStatuses
<1>9. AllLeases' \subseteq AllLeases \cup {leases'} BY <1>7, <1>8 DEF AllLeases
<1>10. AllStatuses' \subseteq AllStatuses \cup {status'} BY <1>7, <1>8 DEF AllStatuses
<1>11. QED BY <1>4, <1>6, <1>7, <1>9, <1>10

\* A step takes the head of the queue away or leaves it, and may add a copy.
LEMMA QueueShape ==
  ASSUME LeaseInv, NEW p \in Procs, NEW q, Written(p, q), Moves(p, q), MemoryOK
  PROVE  \E k \in {0, 1} : \A n \in 1..Len(queue') :
           \/ n = Len(queue') /\ queue'[n].by = p /\ queue'[n].leases = leases' /\ queue'[n].status = status'
           \/ n + k \in 1..Len(queue) /\ queue'[n] = queue[n + k]
<1> DEFINE new == [by |-> p, leases |-> leases', status |-> status']
<1>1. queue \in Seq(Copies) /\ new \in Copies BY DEF LeaseInv, QueueInv, Copies, MemoryOK
<1>2. new.by = p /\ new.leases = leases' /\ new.status = status' OBVIOUS
<1>3. PICK k \in {0, 1} : /\ q \in Seq(Copies)
                          /\ \A n \in 1..Len(q) : n + k \in 1..Len(queue) /\ q[n] = queue[n + k]
  <2>1. CASE q = queue
    <3>1. \A n \in 1..Len(q) : n + 0 \in 1..Len(queue) /\ q[n] = queue[n + 0] BY <2>1
    <3>2. QED BY <3>1, <2>1, <1>1
  <2>2. CASE Awaited(p) /\ q = Tail(queue)
    <3>1. /\ q \in Seq(Copies) /\ Len(q) = Len(queue) - 1 /\ Len(queue) \in Nat
          /\ \A n \in 1..Len(q) : q[n] = queue[n + 1]
      BY <1>1, <2>2, HeadTailProperties, LenProperties DEF Awaited
    <3>2. \A n \in 1..Len(q) : n + 1 \in 1..Len(queue) /\ q[n] = queue[n + 1] BY <3>1
    <3>3. QED BY <3>1, <3>2
  <2>3. QED BY <2>1, <2>2 DEF Written
<1>4. CASE queue' = q BY <1>3, <1>4
<1>5. CASE queue' = Append(q, new)
  <2> HIDE DEF new
  <2>1. /\ Len(queue') = Len(q) + 1 /\ Len(q) \in Nat
        /\ \A n \in 1..Len(q) : queue'[n] = q[n]
        /\ queue'[Len(q) + 1] = new
    BY <1>5, <1>1, <1>3, AppendProperties, LenProperties
  <2>2. \A n \in 1..Len(queue') : (n = Len(queue') /\ queue'[n] = new) \/ n \in 1..Len(q) BY <2>1
  <2>3. QED BY <2>1, <2>2, <1>2, <1>3
<1>6. QED BY <1>4, <1>5 DEF Moves

\* Where no lease is added or released, every loan stays where it is.
LEMMA KeptStep ==
  ASSUME LeaseInv, NEW p \in Procs, NEW q, Written(p, q), Moves(p, q), MemoryOK, Kept, order' = order
  PROVE  /\ LeasesInv'
         /\ \A r \in Runs : Loan(r) /\ (preset # Original \/ pc[r] \in BeforeRun) => Loan(r)'
         /\ \A r \in Runs :
              (\A l \in AllLeases : l[r].state = "none") => \A l \in AllLeases' : l[r].state = "none"
         /\ \A r \in Runs : r # p /\ pc[r] = "savingPrepared" =>
              \A n \in 1..Len(queue') : queue'[n].by = r =>
                \A m \in n..Len(queue') : Unreleased(queue'[m].leases[r])
<1>1. AllLeases' \subseteq AllLeases \cup {leases'} BY QueueStep
<1>2. leases \in AllLeases BY DEF AllLeases
<1>3. LeasesInv'
  <2>1. \A r \in Runs : leases'[r].prev = Original /\ (leases'[r].state # "none" => InOrder(r))
    BY <1>2 DEF Kept, Unreleased, LeaseInv, LeasesInv
  <2>2. \A r \in Runs : InOrder(r)' <=> InOrder(r) BY DEF InOrder
  <2>3. QED BY <1>1, <2>1, <2>2 DEF LeaseInv, LeasesInv
<1>4. \A r \in Runs : Loan(r) /\ (preset # Original \/ pc[r] \in BeforeRun) => Loan(r)' BY <1>1, <1>2 DEF Loan, Kept
<1>5. ASSUME NEW r \in Runs, \A l \in AllLeases : l[r].state = "none"
      PROVE  \A l \in AllLeases' : l[r].state = "none"
  BY <1>1, <1>2, <1>5 DEF Kept, Unreleased
<1>6. ASSUME NEW r \in Runs, r # p, pc[r] = "savingPrepared"
      PROVE  \A n \in 1..Len(queue') : queue'[n].by = r =>
               \A m \in n..Len(queue') : Unreleased(queue'[m].leases[r])
  <2>1. Unreleased(leases'[r]) BY <1>6 DEF Kept, WithLease, BeforeRun, LeaseInv, CallsInv
  <2>2. PICK k \in {0, 1} : \A n \in 1..Len(queue') :
           \/ n = Len(queue') /\ queue'[n].by = p /\ queue'[n].leases = leases'
           \/ n + k \in 1..Len(queue) /\ queue'[n] = queue[n + k]
    BY QueueShape
  <2>3. ASSUME NEW n \in 1..Len(queue'), queue'[n].by = r, NEW m \in n..Len(queue')
        PROVE  Unreleased(queue'[m].leases[r])
    <3>1. n + k \in 1..Len(queue) /\ queue[n + k].by = r BY <2>2, <2>3, <1>6
    <3>2. queue' \in Seq(Copies) BY QueueStep DEF QueueInv
    <3>3. m \in 1..Len(queue') /\ m + k >= n + k BY <3>2, LenProperties
    <3>4. CASE queue'[m].leases = leases' BY <3>4, <2>1
    <3>5. CASE m + k \in 1..Len(queue) /\ queue'[m] = queue[m + k]
      <4>1. m + k \in (n + k)..Len(queue) BY <3>3, <3>5
      <4>2. QED BY <3>1, <3>5, <4>1, <1>6 DEF LeaseInv, LoanInv
    <3>6. QED BY <2>2, <3>3, <3>4, <3>5
  <2>4. QED BY <2>3
<1>7. QED BY <1>3, <1>4, <1>5, <1>6


\* One field of one lease changes.
LEMMA SetLeaseIs ==
  ASSUME LeaseInv, NEW h \in Runs, NEW state \in LeaseStates, SetLease(h, state)
  PROVE  /\ leases' \in [Runs -> Lease]
         /\ \A r \in Runs : r # h => leases'[r] = leases[r]
         /\ leases'[h].state = state /\ leases'[h].prev = leases[h].prev
<1> DEFINE marked == [leases[h] EXCEPT !.state = state]
<1>1. leases \in [Runs -> Lease] /\ leases[h] \in Lease BY DEF LeaseInv, TypeOK
<1>2. marked \in Lease /\ marked.state = state /\ marked.prev = leases[h].prev
  BY <1>1 DEF Lease
<1>3. leases' = [leases EXCEPT ![h] = marked] BY DEF SetLease
<1> HIDE DEF marked
<1>4. QED BY <1>1, <1>2, <1>3

\* restoreSession() ends at once, or takes the first lease that is not released.
Ended(p) ==
  \E point \in {"idle", "done", "savingFinal"} :
    /\ pc' = [pc EXCEPT ![p] = point]
    /\ point = "idle" => p \in Callers
    /\ point = "done" => p \in Runs
Takes(p, owner, h) ==
  /\ owner \in {None, h} /\ Unreleased(leases[h])
  /\ held' = [held EXCEPT ![p] = h]
  /\ leases' = [leases EXCEPT ![h].state = "restoring"]
  /\ pc' = [pc EXCEPT ![p] = "savingRestoring"]

LEMMA RestoreIs ==
  ASSUME LeaseInv, NEW p \in Procs, NEW owner, NEW then, NEW q, Restore(p, owner, then, q),
         status' \in [Runs -> Statuses], then \in {"end", "save"}
  PROVE  /\ Moves(p, q) /\ MemoryOK /\ Kept
         /\ held' \in [Procs -> Runs \cup {None}] /\ after' \in [Procs -> {"end", "save"}]
         /\ after' = [after EXCEPT ![p] = then]
         /\ \/ leases' = leases /\ held' = held /\ Ended(p)
            \/ \E h \in Runs : Takes(p, owner, h)
<1> USE DEF LeaseInv, TypeOK
<1>1. after' = [after EXCEPT ![p] = then] /\ after' \in [Procs -> {"end", "save"}] BY DEF Restore
<1>2. CASE leases' = leases /\ held' = held /\ Leave(p, then, q)
  <2>1. Ended(p) BY <1>2 DEF Leave, Rest, Continue, Save, Goto, Ended, Procs
  <2>2. Moves(p, q)
    BY <1>2 DEF Leave, Rest, Continue, Save, Goto, Moves, Points, Saving
  <2>3. QED BY <1>1, <1>2, <2>1, <2>2 DEF MemoryOK, Kept
<1>3. CASE /\ ActiveLease # None /\ owner \in {None, ActiveLease}
           /\ held' = [held EXCEPT ![p] = ActiveLease]
           /\ SetLease(ActiveLease, "restoring")
           /\ Save(p, "savingRestoring", q)
  <2> DEFINE h == ActiveLease
  <2>1. h \in Runs /\ Unreleased(leases[h]) BY <1>3, ActiveLeaseIs
  <2>2. Takes(p, owner, h) BY <1>3, <2>1 DEF Takes, SetLease, Save, Goto
  <2> HIDE DEF h
  <2>3. Moves(p, q) BY <1>3 DEF Save, Goto, Moves, Points, Saving
  <2>4a. SetLease(h, "restoring") /\ "restoring" \in LeaseStates
    BY <2>2 DEF Takes, SetLease, LeaseStates
  <2>5. /\ leases' \in [Runs -> Lease]
        /\ \A r \in Runs : r # h => leases'[r] = leases[r]
        /\ leases'[h].state = "restoring" /\ leases'[h].prev = leases[h].prev
    BY <2>1, <2>4a, SetLeaseIs
  <2>6. Kept BY <2>1, <2>5 DEF Kept, Unreleased
  <2>7. held' \in [Procs -> Runs \cup {None}] BY <2>1, <2>2 DEF Takes
  <2>8. QED BY <1>1, <2>1, <2>2, <2>3, <2>5, <2>6, <2>7 DEF MemoryOK
<1>4. QED BY <1>2, <1>3 DEF Restore

DataOK ==
  /\ preset' \in Presets /\ target' \in [Procs -> Runs \cup {None}]
  /\ held' \in [Procs -> Runs \cup {None}] /\ after' \in [Procs -> {"end", "save"}]
  /\ seen' \in [Procs -> Presets] /\ turn' \in [Runs -> Turns] /\ active' \in Runs \cup {None}
  /\ crashes' \in 0..MaxCrashes /\ errors' \in 0..MaxErrors /\ order' = order

\* Only p moves, to a place it may be at: it refreshes a run that exists, or holds
\* a lease that is not of a start under way, or the one it was granted itself.
Steps(p, point) ==
  /\ pc' = [pc EXCEPT ![p] = point]
  /\ \A x \in Procs : x # p => target'[x] = target[x] /\ held'[x] = held[x]
  /\ \A r \in Runs :
       \/ status'[r] = status[r]
       \/ status'[r] # "none" /\ (pc[r] \notin BeforeRun \/ r = p)
  /\ point \in Refreshing => target'[p] \in Runs /\ status'[target'[p]] # "none"
  /\ point \in Restoring =>
       /\ held'[p] \in Runs /\ leases'[held'[p]].state # "none"
       /\ held'[p] = p \/ pc[held'[p]] \notin BeforeRun
  /\ p \in Callers => point \in {"idle", "savingFinal"} \cup Refreshing \cup Restoring
  /\ p \in Runs /\ point \in WithLease => held'[p] = p /\ Unreleased(leases'[p])
  /\ p \in Runs /\ point \in {"savingRun", "prompting"} => status'[p] # "none"
  /\ p \in Runs /\ point \in BeforeRun => pc[p] \in BeforeRun /\ status'[p] = "none"
  /\ p \in Runs /\ point \in BeforeLease => pc[p] \in BeforeLease
  /\ p \in Runs => ~Resting(p) \/ \A r \in Runs \ {p} : Resting(r)

LEMMA StepPreserves ==
  ASSUME LeaseInv, NEW p \in Procs, NEW q, NEW point \in Points,
         Steps(p, point), Written(p, q), Moves(p, q), MemoryOK, Kept, DataOK
  PROVE  TypeOK' /\ CallsInv' /\ QueueInv' /\ StartsInv' /\ LeasesInv'
<1> USE PermissionLeasesAssumption
<1>2. /\ QueueInv'
      /\ file' \in [leases: [Runs -> Lease], status: [Runs -> Statuses]]
      /\ pc' \in [Procs -> Points]
      /\ AllStatuses' \subseteq AllStatuses \cup {status'}
  BY QueueStep
<1>3. /\ LeasesInv'
      /\ \A r \in Runs :
           (\A l \in AllLeases : l[r].state = "none") => \A l \in AllLeases' : l[r].state = "none"
  BY KeptStep DEF DataOK
<1>4. TypeOK'
  <2>1. \A n \in 1..Len(queue') : queue'[n] \in Copies BY <1>2, ElementOfSeq DEF QueueInv
  <2>2. QED BY <1>2, <2>1 DEF LeaseInv, TypeOK, DataOK, MemoryOK, Copies
<1>5. pc'[p] = point /\ \A x \in Procs : x # p => pc'[x] = pc[x]
  BY DEF LeaseInv, TypeOK, Steps
<1>6. CallsInv'
  <2>2. ASSUME NEW x \in Procs, pc'[x] \in Refreshing
        PROVE  target'[x] \in Runs /\ status'[target'[x]] # "none"
    <3>1. CASE x = p BY <3>1, <2>2, <1>5 DEF Steps
    <3>2. CASE x # p
      <4>1. target'[x] = target[x] /\ target[x] \in Runs /\ status[target[x]] # "none"
        BY <3>2, <2>2, <1>5 DEF Steps, LeaseInv, CallsInv
      <4>2. QED BY <4>1 DEF Steps
    <3>3. QED BY <3>1, <3>2
  <2>3. ASSUME NEW x \in Procs, pc'[x] \in Restoring
        PROVE  held'[x] \in Runs /\ leases'[held'[x]].state # "none"
    <3>1. CASE x = p BY <3>1, <2>3, <1>5 DEF Steps
    <3>2. CASE x # p
      <4>1. held'[x] = held[x] /\ held[x] \in Runs /\ leases[held[x]].state # "none"
        BY <3>2, <2>3, <1>5 DEF Steps, LeaseInv, CallsInv
      <4>2. QED BY <4>1 DEF Kept, Unreleased
    <3>3. QED BY <3>1, <3>2
  <2>4. ASSUME NEW r \in Runs, pc'[r] \in WithLease PROVE held'[r] = r /\ Unreleased(leases'[r])
    <3>1. CASE r = p BY <3>1, <2>4, <1>5 DEF Steps
    <3>2. CASE r # p
      <4>1. held'[r] = held[r] /\ held[r] = r /\ Unreleased(leases[r])
        BY <3>2, <2>4, <1>5 DEF Steps, LeaseInv, CallsInv, Procs
      <4>2. pc[r] \in BeforeRun BY <3>2, <2>4, <1>5 DEF BeforeRun, Procs
      <4>3. QED BY <4>1, <4>2 DEF Kept
    <3>3. QED BY <3>1, <3>2
  <2>5. /\ \A c \in Callers : pc'[c] \in {"idle", "savingFinal"} \cup Refreshing \cup Restoring
        /\ \A r \in Runs : pc'[r] \in {"savingRun", "prompting"} => status'[r] # "none"
    BY <1>5 DEF Steps, LeaseInv, CallsInv, Procs
  <2>6. \A r, s \in Runs : r # s => pc'[r] \in {"idle", "done"} \/ pc'[s] \in {"idle", "done"}
    BY <1>5 DEF Steps, LeaseInv, CallsInv, Resting, Procs
  <2>7. QED BY <2>2, <2>3, <2>4, <2>5, <2>6 DEF CallsInv, Resting
<1>8. StartsInv'
  <2>1. \A r \in Runs : pc'[r] \in BeforeLease => \A l \in AllLeases' : l[r].state = "none"
    BY <1>3, <1>5 DEF Steps, LeaseInv, StartsInv, Procs
  <2>2. ASSUME NEW r \in Runs, pc'[r] \in BeforeRun
        PROVE  /\ \A s \in AllStatuses' : s[r] = "none"
               /\ \A x \in Procs : pc'[x] \in Restoring => held'[x] # r
    <3>1. pc[r] \in BeforeRun /\ status'[r] = status[r]
      <4>1. status \in AllStatuses BY DEF AllStatuses
      <4>2. CASE r = p
        <5>1. pc[r] \in BeforeRun /\ status'[r] = "none" BY <4>2, <2>2, <1>5 DEF Steps
        <5>2. QED BY <5>1, <4>1 DEF LeaseInv, StartsInv
      <4>3. CASE r # p BY <4>3, <2>2, <1>5 DEF Steps, Procs
      <4>4. QED BY <4>2, <4>3
    <3>2. status \in AllStatuses BY DEF AllStatuses
    <3>3. \A s \in AllStatuses' : s[r] = "none"
      BY <1>2, <3>1, <3>2 DEF LeaseInv, StartsInv
    <3>4. ASSUME NEW x \in Procs, pc'[x] \in Restoring, held'[x] = r PROVE FALSE
      <4>1. CASE x = p
        <5>1. r = p /\ pc'[p] = point /\ point \in Restoring BY <4>1, <3>1, <3>4, <1>5 DEF Steps
        <5>2. QED BY <5>1, <2>2 DEF Restoring, BeforeRun, BeforeLease, WithLease
      <4>2. CASE x # p BY <4>2, <3>1, <3>4, <1>5 DEF Steps, LeaseInv, StartsInv
      <4>3. QED BY <4>1, <4>2
    <3>5. QED BY <3>3, <3>4
  <2>3. QED BY <2>1, <2>2 DEF StartsInv
<1>10. QED BY <1>2, <1>3, <1>4, <1>6, <1>8

\* The loan is not touched by a step that sets no preset and takes none.
LEMMA LoanPreserves ==
  ASSUME LeaseInv, NEW p \in Procs, NEW q, NEW point \in Points,
         Steps(p, point), Written(p, q), Moves(p, q), MemoryOK, Kept, DataOK,
         preset' = preset, seen' = seen,
         p \in Runs => point \notin {"reading", "read", "granting", "savingPrepared"}
  PROVE  LeaseInv'
<1>1. /\ \A r \in Runs : Loan(r) /\ (preset # Original \/ pc[r] \in BeforeRun) => Loan(r)'
      /\ \A r \in Runs : r # p /\ pc[r] = "savingPrepared" =>
           \A n \in 1..Len(queue') : queue'[n].by = r =>
             \A m \in n..Len(queue') : Unreleased(queue'[m].leases[r])
  BY KeptStep DEF DataOK
<1>2. pc'[p] = point /\ \A x \in Procs : x # p => pc'[x] = pc[x]
  BY DEF LeaseInv, TypeOK, Steps
<1>3. \A r \in Runs : pc'[r] \in {"reading", "read", "granting", "savingPrepared"} =>
        r # p /\ pc'[r] = pc[r]
  BY <1>2 DEF Procs
<1>4. LoanInv' BY <1>1, <1>3 DEF LeaseInv, LoanInv, BeforeRun, WithLease
<1>5. QED BY <1>4, StepPreserves DEF LeaseInv

\* What an action that restores has in common with the others that do.
RestoreFrame(p) ==
  /\ preset' = preset /\ order' = order /\ target' = target /\ seen' = seen
  /\ status' \in [Runs -> Statuses]
  /\ \A r \in Runs : status'[r] = status[r] \/ (status'[r] # "none" /\ pc[r] \notin BeforeRun)
  /\ turn' \in [Runs -> Turns] /\ active' \in Runs \cup {None}
  /\ crashes' \in 0..MaxCrashes /\ errors' \in 0..MaxErrors
  /\ p \in Runs => ~Resting(p)

\* Who restores does not take the lease of a start that is under way, unless it
\* is that start.
LEMMA RestorePreserves ==
  ASSUME LeaseInv, NEW p \in Procs, NEW owner, NEW then \in {"end", "save"}, NEW q,
         Restore(p, owner, then, q), Written(p, q), RestoreFrame(p),
         \A h \in Runs : owner \in {None, h} /\ Unreleased(leases[h]) => h = p \/ pc[h] \notin BeforeRun
  PROVE  LeaseInv'
<1> USE PermissionLeasesAssumption
<1>1. /\ Moves(p, q) /\ MemoryOK /\ Kept
      /\ held' \in [Procs -> Runs \cup {None}] /\ after' \in [Procs -> {"end", "save"}]
      /\ \/ leases' = leases /\ held' = held /\ Ended(p)
         \/ \E h \in Runs : Takes(p, owner, h)
  BY RestoreIs DEF RestoreFrame
<1>2. DataOK BY <1>1 DEF DataOK, RestoreFrame, LeaseInv, TypeOK
<1>3. \A point \in {"idle", "done", "savingFinal", "savingRestoring"} :
        /\ point \in Points \ (Refreshing \cup WithLease)
        /\ point \notin {"reading", "read", "granting", "savingPrepared", "savingRun", "prompting"}
        /\ point # "savingRestoring" => point \notin Restoring
        /\ point # "idle" => point \notin BeforeRun
        /\ point \notin {"idle"} => point \notin BeforeLease
  BY DEF Points, Saving, Refreshing, Restoring, WithLease, BeforeRun, BeforeLease
<1>4. CASE held' = held /\ Ended(p)
  <2>1. PICK point \in {"idle", "done", "savingFinal"} :
          /\ pc' = [pc EXCEPT ![p] = point]
          /\ point = "idle" => p \in Callers
          /\ point = "done" => p \in Runs
    BY <1>4 DEF Ended
  <2>2. Steps(p, point) BY <1>3, <1>4, <2>1 DEF Steps, RestoreFrame
  <2>3. QED BY <1>1, <1>2, <1>3, <2>2, LoanPreserves DEF RestoreFrame
<1>5. ASSUME NEW h \in Runs, Takes(p, owner, h) PROVE LeaseInv'
  <2>1. /\ \A x \in Procs : x # p => held'[x] = held[x]
        /\ held'[p] = h /\ leases'[h].state = "restoring"
    BY <1>5 DEF Takes, LeaseInv, TypeOK, Lease
  <2>2. h = p \/ pc[h] \notin BeforeRun BY <1>5 DEF Takes
  <2>3. pc' = [pc EXCEPT ![p] = "savingRestoring"] BY <1>5 DEF Takes
  <2>4. Steps(p, "savingRestoring") BY <1>3, <2>1, <2>2, <2>3 DEF Steps, RestoreFrame, Restoring
  <2>5. QED BY <1>1, <1>2, <1>3, <2>4, LoanPreserves DEF RestoreFrame
<1>6. QED BY <1>1, <1>4, <1>5

-----------------------------------------------------------------------------
(* The steps.                                                              *)

\* A caller, and a start, are where only they can be.
LEMMA WhoIs ==
  ASSUME LeaseInv
  PROVE  /\ \A p \in Procs : pc[p] \in WithLease \cup {"checking", "reading", "read", "baseline",
                                        "savingRun", "prompting"} => p \in Runs
         /\ \A r \in Runs : pc[r] \in BeforeRun => status[r] = "none"
         /\ \A r \in Runs : status[r] # "none" => pc[r] \notin BeforeRun
<1>1. status \in AllStatuses BY DEF AllStatuses
<1>2. QED
  BY <1>1 DEF LeaseInv, CallsInv, StartsInv, Procs, WithLease, Refreshing, Restoring

\* startRun's catch block.
LEMMA CatchPreserves ==
  ASSUME LeaseInv, NEW p \in Runs, NEW q, Catch(p, q), Written(p, q), ~Resting(p),
         preset' = preset, order' = order, target' = target, seen' = seen,
         turn' \in [Runs -> Turns], crashes' \in 0..MaxCrashes, errors' \in 0..MaxErrors
  PROVE  LeaseInv'
<1> USE PermissionLeasesAssumption
<1>1. Restore(p, p, "end", q) /\ RestoreFrame(p)
  BY DEF Catch, RestoreFrame, LeaseInv, TypeOK
<1>2. \A h \in Runs : p \in {None, h} => h = p OBVIOUS
<1>3. p \in Procs BY DEF Procs
<1>4. QED BY <1>1, <1>2, <1>3, RestorePreserves

\* RunReconciler.finalize(), of a run that exists.
LEMMA FinalizePreserves ==
  ASSUME LeaseInv, NEW p \in Procs, NEW r \in Runs, NEW q, Finalize(p, r, q), Written(p, q),
         p \in Runs => ~Resting(p), status[r] # "none",
         preset' = preset, order' = order, target' = target, seen' = seen,
         turn' \in [Runs -> Turns], crashes' \in 0..MaxCrashes, errors' \in 0..MaxErrors
  PROVE  LeaseInv'
<1> USE PermissionLeasesAssumption
<1>1. pc[r] \notin BeforeRun BY WhoIs
<1>2. Restore(p, r, "save", q) /\ RestoreFrame(p)
  BY <1>1 DEF Finalize, FreeSession, RestoreFrame, LeaseInv, TypeOK, Statuses
<1>3. \A h \in Runs : r \in {None, h} => h = r OBVIOUS
<1>4. QED BY <1>1, <1>2, <1>3, RestorePreserves

\* A step that saves nothing and waits for nothing.
LEMMA GotoStep ==
  ASSUME LeaseInv, NEW p \in Procs, NEW point \in Points, Goto(p, point),
         queue' = queue, file' = file, pc[p] \notin Saving,
         leases' = leases, status' \in [Runs -> Statuses]
  PROVE  Written(p, queue) /\ Moves(p, queue) /\ MemoryOK /\ Kept
BY DEF Goto, Written, Moves, MemoryOK, Kept, LeaseInv, TypeOK

LEMMA SaveStep ==
  ASSUME NEW p, NEW q, NEW point \in Saving, Save(p, point, q)
  PROVE  Moves(p, q) /\ pc' = [pc EXCEPT ![p] = point]
BY DEF Save, Goto, Moves, Points

LEMMA ContinueStep ==
  ASSUME NEW p, NEW q, NEW point \in Points, Continue(p, point, q)
  PROVE  Moves(p, q) /\ pc' = [pc EXCEPT ![p] = point]
BY DEF Continue, Goto, Moves

\* The steps of a start that leave the leases alone.
LEMMA StartPlain ==
  ASSUME LeaseInv, NEW r \in Runs,
         \/ Begin(r) \/ HostReads(r) \/ SendPrompt(r) \/ Baseline(r)
         \/ Check(r) /\ ActiveLease = None
         \/ Prepare(r) /\ seen[r] = Grant[r]
  PROVE  LeaseInv'
<1> USE PermissionLeasesAssumption
<1>0. r \in Procs BY DEF Procs
<1>1. CASE Begin(r)
  <2>1. Goto(r, "checking") /\ pc[r] = "idle" /\ \A q \in Runs \ {r} : Resting(q) BY <1>1 DEF Begin
  <2>2. /\ queue' = queue /\ file' = file /\ leases' = leases /\ status' = status
        /\ preset' = preset /\ seen' = seen /\ target' = target /\ held' = held
    BY <1>1 DEF Begin, host, disk
  <2>3. Written(r, queue) /\ Moves(r, queue) /\ MemoryOK /\ Kept
    BY <1>0, <2>1, <2>2, GotoStep DEF Points, Saving, LeaseInv, TypeOK
  <2>4. DataOK BY <1>1 DEF Begin, DataOK, host, disk, bounds, LeaseInv, TypeOK
  <2>5. status[r] = "none" BY <2>1, WhoIs DEF BeforeRun, BeforeLease
  <2>6. Steps(r, "checking")
    BY <2>1, <2>2, <2>5 DEF Steps, Goto, Refreshing, Restoring, WithLease, BeforeRun, BeforeLease
  <2>7. QED BY <1>0, <2>2, <2>3, <2>4, <2>6, LoanPreserves DEF Points
<1>2. CASE HostReads(r)
  <2>1. Goto(r, "read") /\ pc[r] = "reading" /\ seen' = [seen EXCEPT ![r] = preset]
    BY <1>2 DEF HostReads
  <2>2. /\ queue' = queue /\ file' = file /\ leases' = leases /\ status' = status
        /\ preset' = preset /\ target' = target /\ held' = held
    BY <1>2 DEF HostReads, host, memory, disk
  <2>3. Written(r, queue) /\ Moves(r, queue) /\ MemoryOK /\ Kept
    BY <1>0, <2>1, <2>2, GotoStep DEF Points, Saving, LeaseInv, TypeOK
  <2>4. DataOK BY <1>2 DEF HostReads, DataOK, host, memory, disk, bounds, LeaseInv, TypeOK
  <2>5. status[r] = "none" BY <2>1, WhoIs DEF BeforeRun, BeforeLease
  <2>6. Steps(r, "read")
    BY <2>1, <2>2, <2>5 DEF Steps, Goto, Resting, Refreshing, Restoring, WithLease, BeforeRun, BeforeLease
  <2>7. TypeOK' /\ CallsInv' /\ QueueInv' /\ StartsInv' /\ LeasesInv'
    BY <1>0, <2>3, <2>4, <2>6, StepPreserves DEF Points
  <2>8. /\ \A x \in Runs : Loan(x) /\ (preset # Original \/ pc[x] \in BeforeRun) => Loan(x)'
        /\ preset = Original /\ preset' = preset
        /\ \A x \in Runs : x # r => pc'[x] = pc[x] /\ seen'[x] = seen[x]
        /\ pc'[r] = "read" /\ seen'[r] = preset
    <3>1. \A x \in Runs : Loan(x) /\ (preset # Original \/ pc[x] \in BeforeRun) => Loan(x)' BY <1>0, <2>3, <2>4, KeptStep DEF DataOK
    <3>2. QED BY <1>0, <2>1, <2>2, <3>1 DEF LeaseInv, TypeOK, LoanInv, Goto, Procs
  <2>9. LoanInv' BY <2>2, <2>8 DEF LeaseInv, LoanInv, BeforeRun, WithLease
  <2>10. QED BY <2>7, <2>9 DEF LeaseInv
<1>3. CASE SendPrompt(r)
  <2>1. Goto(r, "listing") /\ pc[r] = "prompting" /\ target' = [target EXCEPT ![r] = r]
    BY <1>3 DEF SendPrompt
  <2>2. /\ queue' = queue /\ file' = file /\ leases' = leases /\ status' = status
        /\ preset' = preset /\ held' = held /\ seen' = seen
    BY <1>3 DEF SendPrompt, memory, disk
  <2>3. Written(r, queue) /\ Moves(r, queue) /\ MemoryOK /\ Kept
    BY <1>0, <2>1, <2>2, GotoStep DEF Points, Refreshing, Saving, LeaseInv, TypeOK
  <2>4. DataOK BY <1>3, <1>0 DEF SendPrompt, DataOK, memory, disk, bounds, LeaseInv, TypeOK, Turns
  <2>5. status[r] # "none" BY <2>1 DEF LeaseInv, CallsInv
  <2>6. Steps(r, "listing")
    BY <1>0, <2>1, <2>2, <2>5 DEF Steps, Goto, Resting, Refreshing, Restoring, WithLease, BeforeRun, BeforeLease,
       LeaseInv, TypeOK
  <2>7. QED BY <1>0, <2>2, <2>3, <2>4, <2>6, LoanPreserves DEF Points, Refreshing
<1>4. CASE Baseline(r)
  <2>1. /\ Save(r, "savingRun", queue) /\ pc[r] = "baseline"
        /\ status' = [status EXCEPT ![r] = "running"] /\ leases' = leases
        /\ file' = file /\ preset' = preset /\ held' = held /\ seen' = seen /\ target' = target
    BY <1>4 DEF Baseline, host
  <2>2. /\ Moves(r, queue) /\ pc' = [pc EXCEPT ![r] = "savingRun"] /\ "savingRun" \in Points
    BY <2>1, SaveStep DEF Saving, Points
  <2>3. Written(r, queue) /\ MemoryOK /\ Kept
    BY <2>1 DEF Written, MemoryOK, Kept, Saving, LeaseInv, TypeOK, Statuses
  <2>4. DataOK BY <1>4 DEF Baseline, DataOK, host, bounds, LeaseInv, TypeOK
  <2>5. /\ \A x \in Runs : status'[x] = status[x] \/ (status'[x] # "none" /\ x = r)
        /\ status'[r] # "none"
    BY <2>1 DEF LeaseInv, TypeOK
  <2>6. Steps(r, "savingRun")
    BY <2>1, <2>2, <2>5 DEF Steps, Resting, Refreshing, Restoring, WithLease, BeforeRun, BeforeLease
  <2>7. QED BY <1>0, <2>1, <2>2, <2>3, <2>4, <2>6, LoanPreserves
<1>5. CASE Check(r) /\ ActiveLease = None
  <2>1. Goto(r, "reading") /\ pc[r] = "checking" /\ leases' = leases /\ status' = status /\ queue' = queue
        /\ held' = held /\ active' = active /\ after' = after
    BY <1>5 DEF Check
  <2>2. /\ file' = file /\ preset' = preset /\ target' = target /\ seen' = seen
    BY <1>5 DEF Check, host
  <2>3. Written(r, queue) /\ Moves(r, queue) /\ MemoryOK /\ Kept
    BY <1>0, <2>1, <2>2, GotoStep DEF Points, Saving, LeaseInv, TypeOK
  <2>4. DataOK BY <1>5, <2>1 DEF Check, DataOK, host, bounds, LeaseInv, TypeOK
  <2>5. status[r] = "none" BY <2>1, WhoIs DEF BeforeRun, BeforeLease
  <2>6. Steps(r, "reading")
    BY <2>1, <2>2, <2>5 DEF Steps, Goto, Resting, Refreshing, Restoring, WithLease, BeforeRun, BeforeLease
  <2>7. TypeOK' /\ CallsInv' /\ QueueInv' /\ StartsInv' /\ LeasesInv'
    BY <1>0, <2>3, <2>4, <2>6, StepPreserves DEF Points
  <2>8. preset = Original
    <3>1. \A x \in Runs : ~Unreleased(leases[x]) BY <1>5, ActiveLeaseIs
    <3>2. QED BY <3>1 DEF LeaseInv, LoanInv, Loan, AllLeases
  <2>9. LoanInv'
    <3>1. \A x \in Runs : Loan(x) /\ (preset # Original \/ pc[x] \in BeforeRun) => Loan(x)' BY <1>0, <2>3, <2>4, KeptStep DEF DataOK
    <3>2. /\ \A x \in Runs : x # r => pc'[x] = pc[x]
          /\ pc'[r] = "reading"
      BY <1>0, <2>1 DEF LeaseInv, TypeOK, Goto, Procs
    <3>3. QED BY <2>1, <2>2, <2>8, <3>1, <3>2 DEF LeaseInv, LoanInv, BeforeRun, WithLease
  <2>10. QED BY <2>7, <2>9 DEF LeaseInv
<1>6. CASE Prepare(r) /\ seen[r] = Grant[r]
  <2>1. Goto(r, "baseline") /\ pc[r] = "read" /\ leases' = leases /\ order' = order /\ queue' = queue
        /\ held' = held
    BY <1>6 DEF Prepare
  <2>2. /\ file' = file /\ preset' = preset /\ target' = target /\ seen' = seen /\ status' = status
    BY <1>6 DEF Prepare, host
  <2>3. Written(r, queue) /\ Moves(r, queue) /\ MemoryOK /\ Kept
    BY <1>0, <2>1, <2>2, GotoStep DEF Points, Saving, LeaseInv, TypeOK
  <2>4. DataOK BY <1>6, <2>1 DEF Prepare, DataOK, host, bounds, LeaseInv, TypeOK
  <2>5. status[r] = "none" BY <2>1, WhoIs DEF BeforeRun, BeforeLease
  <2>6. Steps(r, "baseline")
    BY <2>1, <2>2, <2>5 DEF Steps, Goto, Resting, Refreshing, Restoring, WithLease, BeforeRun, BeforeLease
  <2>7. QED BY <1>0, <2>2, <2>3, <2>4, <2>6, LoanPreserves DEF Points
<1>7. QED BY <1>1, <1>2, <1>3, <1>4, <1>5, <1>6

\* The steps of a start that restore what it has borrowed, if it has.
LEMMA StartRestores ==
  ASSUME LeaseInv, NEW r \in Runs,
         \/ SetUpFails(r) \/ BaselineFails(r) \/ PromptRejected(r)
         \/ Check(r) /\ ActiveLease # None
  PROVE  LeaseInv'
<1> USE PermissionLeasesAssumption
<1>1. r \in Procs BY DEF Procs
<1>2. CASE SetUpFails(r) \/ BaselineFails(r) \/ (Check(r) /\ ActiveLease # None)
  <2>1. /\ Catch(r, queue) /\ pc[r] \in {"checking", "reading", "baseline"}
        /\ preset' = preset /\ order' = order /\ target' = target /\ seen' = seen /\ file' = file
        /\ turn' = turn /\ crashes' = crashes /\ errors' = errors
    BY <1>2 DEF SetUpFails, BaselineFails, Check, host, bounds
  <2>2. Written(r, queue) /\ ~Resting(r) BY <2>1 DEF Written, Saving, Resting
  <2>3. QED BY <2>1, <2>2, CatchPreserves DEF LeaseInv, TypeOK
<1>3. CASE PromptRejected(r)
  <2>1. /\ Finalize(r, r, queue) /\ pc[r] = "prompting"
        /\ preset' = preset /\ order' = order /\ target' = target /\ seen' = seen /\ file' = file
        /\ turn' = [turn EXCEPT ![r] = "rejected"] /\ crashes' = crashes /\ errors' = errors
    BY <1>3 DEF PromptRejected, bounds
  <2>2. Written(r, queue) /\ ~Resting(r) BY <2>1 DEF Written, Saving, Resting
  <2>3. status[r] # "none" BY <2>1 DEF LeaseInv, CallsInv
  <2>4. turn' \in [Runs -> Turns] BY <2>1 DEF LeaseInv, TypeOK, Turns
  <2>5. QED BY <1>1, <2>1, <2>2, <2>3, <2>4, FinalizePreserves DEF LeaseInv, TypeOK
<1>4. QED BY <1>2, <1>3

\* The lease that startRun prepares is in the copy it waits for.
LEMMA PreparePreserves ==
  ASSUME LeaseInv, NEW r \in Runs, Prepare(r), seen[r] # Grant[r]
  PROVE  LeaseInv'
<1> USE PermissionLeasesAssumption
<1>0. r \in Procs BY DEF Procs
<1>1. /\ pc[r] = "read" /\ order' = Append(order, r) /\ held' = [held EXCEPT ![r] = r]
      /\ leases' = [leases EXCEPT ![r] = [prev |-> seen[r], state |-> "prepared"]]
      /\ Save(r, "savingPrepared", queue)
      /\ preset' = preset /\ turn' = turn /\ status' = status /\ active' = active /\ file' = file
      /\ target' = target /\ after' = after /\ seen' = seen /\ crashes' = crashes /\ errors' = errors
  BY DEF Prepare, PrepareLease, host, bounds
<1>2. seen[r] = Original BY <1>1 DEF LeaseInv, LoanInv
<1>3. /\ leases' \in [Runs -> Lease]
      /\ leases'[r] = [prev |-> Original, state |-> "prepared"]
      /\ \A x \in Runs : x # r => leases'[x] = leases[x]
  BY <1>1, <1>2 DEF LeaseInv, TypeOK, Lease, LeaseStates
<1>4. Moves(r, queue) /\ pc' = [pc EXCEPT ![r] = "savingPrepared"] BY <1>1, SaveStep DEF Saving
<1>5. Written(r, queue) /\ MemoryOK
  BY <1>1, <1>3 DEF Written, Saving, MemoryOK, LeaseInv, TypeOK
<1>6. /\ QueueInv'
      /\ file' \in [leases: [Runs -> Lease], status: [Runs -> Statuses]]
      /\ pc' \in [Procs -> Points]
      /\ AllLeases' \subseteq AllLeases \cup {leases'}
      /\ AllStatuses' \subseteq AllStatuses \cup {status'}
  BY <1>0, <1>4, <1>5, QueueStep
<1>7. /\ order' \in Seq(Runs) /\ \A x \in Runs : InOrder(x) => InOrder(x)'
      /\ InOrder(r)'
  <2>1. /\ order' \in Seq(Runs) /\ Len(order') = Len(order) + 1 /\ Len(order) \in Nat
        /\ \A n \in 1..Len(order) : order'[n] = order[n]
        /\ order'[Len(order) + 1] = r
    BY <1>1, AppendProperties, LenProperties DEF LeaseInv, TypeOK
  <2>2. QED BY <2>1 DEF InOrder
<1>8. /\ pc'[r] = "savingPrepared" /\ \A x \in Procs : x # r => pc'[x] = pc[x]
      /\ held'[r] = r /\ \A x \in Procs : x # r => held'[x] = held[x]
  BY <1>0, <1>1, <1>4 DEF LeaseInv, TypeOK
<1>9. TypeOK'
  <2>1. \A n \in 1..Len(queue') : queue'[n] \in Copies BY <1>6, ElementOfSeq DEF QueueInv
  <2>2. held' \in [Procs -> Runs \cup {None}] BY <1>1 DEF LeaseInv, TypeOK
  <2>3. QED BY <1>1, <1>3, <1>6, <1>7, <2>1, <2>2 DEF LeaseInv, TypeOK, Copies
<1>10. CallsInv'
  <2>1. \A x \in Procs : pc[x] \in Restoring => held[x] # r
    BY <1>1 DEF LeaseInv, StartsInv, BeforeRun, BeforeLease
  <2>2. \A x \in Procs : pc'[x] \in Refreshing \cup Restoring => x # r
    BY <1>8 DEF Refreshing, Restoring
  <2>3. \A x \in Procs : pc'[x] \in Refreshing =>
          target'[x] \in Runs /\ status'[target'[x]] # "none"
    BY <1>1, <1>8, <2>2 DEF LeaseInv, CallsInv
  <2>4. \A x \in Procs : pc'[x] \in Restoring =>
          held'[x] \in Runs /\ leases'[held'[x]].state # "none"
    BY <1>3, <1>8, <2>1, <2>2 DEF LeaseInv, CallsInv
  <2>5. \A x \in Runs : pc'[x] \in WithLease => held'[x] = x /\ Unreleased(leases'[x])
    BY <1>3, <1>8 DEF LeaseInv, CallsInv, Unreleased, Procs
  <2>6. \A x \in Runs : pc'[x] \in {"savingRun", "prompting"} => status'[x] # "none"
    BY <1>1, <1>8 DEF LeaseInv, CallsInv, Procs
  <2>7. \A c \in Callers : pc'[c] \in {"idle", "savingFinal"} \cup Refreshing \cup Restoring
    BY <1>8 DEF LeaseInv, CallsInv, Procs
  <2>8. \A x, y \in Runs : x # y => pc'[x] \in {"idle", "done"} \/ pc'[y] \in {"idle", "done"}
    BY <1>1, <1>8 DEF LeaseInv, CallsInv, Resting, Procs
  <2>9. QED BY <2>3, <2>4, <2>5, <2>6, <2>7, <2>8 DEF CallsInv, Resting
<1>11. StartsInv'
  <2>1. leases \in AllLeases /\ status \in AllStatuses BY DEF AllLeases, AllStatuses
  <2>2. \A x \in Runs : pc'[x] \in BeforeLease => \A l \in AllLeases' : l[x].state = "none"
    BY <1>3, <1>6, <1>8, <2>1 DEF LeaseInv, StartsInv, BeforeLease, Procs
  <2>3. \A x \in Runs : pc'[x] \in BeforeRun => pc[x] \in BeforeRun
    BY <1>1, <1>8 DEF BeforeRun, BeforeLease, Procs
  <2>4. \A x \in Procs : pc'[x] \in Restoring => pc[x] \in Restoring /\ held'[x] = held[x]
    BY <1>8 DEF Restoring
  <2>5. QED BY <1>1, <1>6, <2>1, <2>2, <2>3, <2>4 DEF LeaseInv, StartsInv
<1>12. LeasesInv'
  <2>1. leases \in AllLeases BY DEF AllLeases
  <2>2. \A x \in Runs : leases'[x].prev = Original /\ (leases'[x].state # "none" => InOrder(x)')
    BY <1>3, <1>7, <2>1 DEF LeaseInv, LeasesInv
  <2>3. \A l \in AllLeases, x \in Runs : l[x].prev = Original /\ (l[x].state # "none" => InOrder(x)')
    BY <1>7 DEF LeaseInv, LeasesInv
  <2>4. QED BY <1>6, <2>2, <2>3 DEF LeasesInv
<1>13. LoanInv'
  <2>1. leases \in AllLeases BY DEF AllLeases
  <2>2. \A x \in Runs : x # r /\ Loan(x) => Loan(x)' BY <1>3, <1>6, <2>1 DEF Loan
  <2>3. leases[r].state = "none" BY <1>1, <2>1 DEF LeaseInv, StartsInv, BeforeLease
  <2>4. ~Loan(r) BY <2>1, <2>3 DEF Loan, Unreleased
  <2>5. \A x \in Runs : x # r => pc'[x] \in {"idle", "done"}
    BY <1>1, <1>8 DEF LeaseInv, CallsInv, Resting, Procs
  <2>6. ASSUME NEW n \in 1..Len(queue'), queue'[n].by = r, NEW m \in n..Len(queue')
        PROVE  Unreleased(queue'[m].leases[r])
    <3>1. PICK k \in {0, 1} : \A i \in 1..Len(queue') :
             \/ i = Len(queue') /\ queue'[i].by = r /\ queue'[i].leases = leases'
             \/ i + k \in 1..Len(queue) /\ queue'[i] = queue[i + k]
      BY <1>0, <1>4, <1>5, QueueShape
    <3>2. \A i \in 1..Len(queue) : queue[i].by # r BY <1>1 DEF LeaseInv, QueueInv, Saving
    <3>3. n = Len(queue') /\ queue'[n].leases = leases' BY <2>6, <3>1, <3>2
    <3>4. m = n BY <3>3
    <3>5. QED BY <1>3, <3>3, <3>4 DEF Unreleased
  <2>7. QED BY <1>1, <1>8, <2>2, <2>4, <2>5, <2>6 DEF LeaseInv, LoanInv
<1>14. QED BY <1>6, <1>9, <1>10, <1>11, <1>12, <1>13 DEF LeaseInv

\* Polls and reconcile_permissions.
LEMMA PollPreserves ==
  ASSUME LeaseInv, NEW c \in Callers, NEW r \in Runs, Poll(c, r)
  PROVE  LeaseInv'
<1> USE PermissionLeasesAssumption
<1>0. c \in Procs /\ c \notin Runs BY DEF Procs
<1>1. Goto(c, "listing") /\ pc[c] = "idle" /\ target' = [target EXCEPT ![c] = r] /\ status[r] = "running"
  BY DEF Poll
<1>2. /\ queue' = queue /\ file' = file /\ leases' = leases /\ status' = status
      /\ preset' = preset /\ held' = held /\ seen' = seen
  BY DEF Poll, host, memory, disk
<1>3. Written(c, queue) /\ Moves(c, queue) /\ MemoryOK /\ Kept
  BY <1>0, <1>1, <1>2, GotoStep DEF Points, Refreshing, Saving, LeaseInv, TypeOK
<1>4. DataOK BY <1>0, <1>1 DEF Poll, DataOK, host, memory, disk, bounds, LeaseInv, TypeOK
<1>5. Steps(c, "listing")
  BY <1>0, <1>1, <1>2 DEF Steps, Goto, Refreshing, Restoring, LeaseInv, TypeOK
<1>6. QED BY <1>0, <1>2, <1>3, <1>4, <1>5, LoanPreserves DEF Points, Refreshing

LEMMA ReconcilePreserves ==
  ASSUME LeaseInv, ~AtWork, NEW c \in Callers, ReconcilePermissions(c)
  PROVE  LeaseInv'
<1> USE PermissionLeasesAssumption
<1>0. c \in Procs /\ c \notin Runs BY DEF Procs
<1>1. /\ pc[c] = "idle" /\ Quiet(c) /\ Restore(c, None, "end", queue)
      /\ preset' = preset /\ turn' = turn /\ order' = order /\ status' = status /\ active' = active
      /\ file' = file /\ target' = target /\ seen' = seen /\ crashes' = crashes /\ errors' = errors
  BY DEF ReconcilePermissions, host, bounds
<1>2. Written(c, queue) BY <1>1 DEF Written, Saving
<1>3. RestoreFrame(c) BY <1>0, <1>1 DEF RestoreFrame, LeaseInv, TypeOK
<1>4. ASSUME NEW h \in Runs, Unreleased(leases[h]) PROVE pc[h] \notin BeforeRun
  <2>1. pc[h] \in {"idle", "done"} BY <1>0, <1>1 DEF Quiet, Resting, Procs
  <2>2. leases \in AllLeases BY DEF AllLeases
  <2>3. pc[h] # "idle" BY <1>4, <2>2 DEF LeaseInv, StartsInv, BeforeLease, Unreleased
  <2>4. QED BY <2>1, <2>3 DEF BeforeRun, BeforeLease, WithLease
<1>5. QED BY <1>0, <1>1, <1>2, <1>3, <1>4, RestorePreserves

\* RunReconciler.refresh.
LEMMA RefreshPreserves ==
  ASSUME LeaseInv, NEW p \in Procs,
         HostLists(p) \/ ListedRunning(p) \/ ReadHistory(p) \/ RefreshFails(p)
  PROVE  LeaseInv'
<1> USE PermissionLeasesAssumption
<1>1. ASSUME HostLists(p) \/ ListedRunning(p) PROVE LeaseInv'
  <2>1. PICK point \in {"listed", "history"} : Goto(p, point)
    BY <1>1 DEF HostLists, ListedRunning
  <2>2. /\ queue' = queue /\ file' = file /\ leases' = leases /\ status' = status
        /\ preset' = preset /\ held' = held /\ seen' = seen /\ target' = target
        /\ pc[p] \in {"listing", "listed"}
    BY <1>1 DEF HostLists, ListedRunning, host, memory, disk
  <2>3. Written(p, queue) /\ Moves(p, queue) /\ MemoryOK /\ Kept
    BY <2>1, <2>2, GotoStep DEF Points, Refreshing, Saving, LeaseInv, TypeOK
  <2>4. target[p] \in Runs /\ status[target[p]] # "none"
    BY <2>2 DEF LeaseInv, CallsInv, Refreshing
  <2>5. DataOK
    BY <1>1, <2>4 DEF HostLists, ListedRunning, DataOK, host, memory, disk, bounds, LeaseInv, TypeOK
  <2>6. Steps(p, point)
    BY <2>1, <2>2, <2>4 DEF Steps, Goto, Resting, Refreshing, Restoring, WithLease, BeforeRun, BeforeLease
  <2>7. QED BY <2>1, <2>2, <2>3, <2>5, <2>6, LoanPreserves DEF Points, Refreshing
<1>2. CASE ReadHistory(p)
  <2>1. /\ pc[p] = "history" /\ target[p] \in Runs /\ status[target[p]] # "none"
        /\ preset' = preset /\ turn' = turn /\ order' = order /\ file' = file
        /\ target' = target /\ seen' = seen /\ crashes' = crashes /\ errors' = errors
    BY <1>2 DEF ReadHistory, host, bounds, LeaseInv, CallsInv, Refreshing
  <2>2. Written(p, queue) /\ ~Resting(p) BY <2>1 DEF Written, Saving, Resting
  <2>3. CASE Finalize(p, target[p], queue)
    BY <2>1, <2>2, <2>3, FinalizePreserves DEF LeaseInv, TypeOK
  <2>4. CASE UNCHANGED <<leases, status, active, held, after>> /\ Save(p, "savingFinal", queue)
    <3>1. Moves(p, queue) /\ pc' = [pc EXCEPT ![p] = "savingFinal"] BY <2>4, SaveStep DEF Saving
    <3>2. MemoryOK /\ Kept BY <2>4 DEF MemoryOK, Kept, LeaseInv, TypeOK
    <3>3. DataOK BY <2>1, <2>4 DEF DataOK, LeaseInv, TypeOK
    <3>4. Steps(p, "savingFinal")
      BY <2>1, <2>2, <2>4, <3>1 DEF Steps, Refreshing, Restoring, WithLease, BeforeRun, BeforeLease
    <3>5. QED BY <2>1, <2>2, <3>1, <3>2, <3>3, <3>4, LoanPreserves DEF Points, Saving
  <2>5. QED BY <1>2, <2>3, <2>4 DEF ReadHistory
<1>3. CASE RefreshFails(p)
  <2>1. /\ pc[p] \in {"listing", "history"} /\ Rest(p, queue)
        /\ leases' = leases /\ status' = status /\ file' = file /\ preset' = preset
        /\ held' = held /\ target' = target /\ seen' = seen
    BY <1>3 DEF RefreshFails, host, memory
  <2> DEFINE point == IF p \in Runs THEN "done" ELSE "idle"
  <2>2. Moves(p, queue) /\ pc' = [pc EXCEPT ![p] = point]
    BY <2>1, ContinueStep DEF Rest, Points
  <2>3. Written(p, queue) /\ MemoryOK /\ Kept
    BY <1>3, <2>1 DEF RefreshFails, Rest, Continue, Written, Saving, MemoryOK, Kept, LeaseInv, TypeOK
  <2>4. DataOK
    BY <1>3 DEF RefreshFails, DataOK, host, memory, LeaseInv, TypeOK
  <2>5. ~Resting(p) BY <2>1 DEF Resting
  <2>6. point \in Points /\ point \in {"idle", "done"} /\ (p \in Runs => point = "done") BY DEF Points
  <2> HIDE DEF point
  <2>6a. /\ point \notin Refreshing \cup Restoring \cup WithLease \cup {"savingRun", "prompting"}
         /\ point # "idle" => point \notin BeforeRun \cup BeforeLease
    BY <2>6 DEF Refreshing, Restoring, WithLease, BeforeRun, BeforeLease
  <2>6b. p \in Callers => point = "idle" BY DEF point, Procs
  <2>7. Steps(p, point)
    BY <2>1, <2>2, <2>5, <2>6, <2>6a, <2>6b DEF Steps
  <2>8. QED BY <2>1, <2>2, <2>3, <2>4, <2>6, <2>7, LoanPreserves
<1>4. QED BY <1>1, <1>2, <1>3

\* PermissionGateway.select, and the answers to it.
LEMMA WantedIs ==
  ASSUME LeaseInv, NEW p \in Procs
  PROVE  /\ pc[p] \in {"granting", "granted"} => p \in Runs /\ held[p] = p /\ Wanted(p) = Grant[p]
         /\ pc[p] \in {"restoring", "restored"} => /\ held[p] \in Runs /\ Wanted(p) = Original
                                                   /\ pc[held[p]] \notin BeforeRun
         /\ pc[p] \in {"granting", "restoring", "granted", "restored"} => Wanted(p) \in Presets
<1>1. leases \in AllLeases BY DEF AllLeases
<1>2. pc[p] \in {"granting", "granted"} => p \in Runs /\ held[p] = p /\ Wanted(p) = Grant[p]
  BY WhoIs DEF Wanted, LeaseInv, CallsInv, WithLease
<1>3. pc[p] \in {"restoring", "restored"} => /\ held[p] \in Runs /\ Wanted(p) = Original
                                             /\ pc[held[p]] \notin BeforeRun
  BY <1>1 DEF Wanted, LeaseInv, CallsInv, StartsInv, LeasesInv, Restoring
<1>4. QED BY <1>2, <1>3, PermissionLeasesAssumption

LEMMA SelectPreserves ==
  ASSUME LeaseInv, NEW p \in Procs, HostSelects(p)
  PROVE  LeaseInv'
<1> USE PermissionLeasesAssumption
<1> DEFINE point == IF pc[p] = "granting" THEN "granted" ELSE "restored"
<1>1. /\ pc[p] \in {"granting", "restoring"} /\ preset' = Wanted(p) /\ Goto(p, point)
      /\ queue' = queue /\ file' = file /\ leases' = leases /\ status' = status /\ order' = order
      /\ held' = held /\ target' = target /\ seen' = seen
  BY DEF HostSelects, memory, disk
<1>2. /\ point \in {"granted", "restored"} /\ (pc[p] = "granting" <=> point = "granted")
      /\ (pc[p] = "restoring" <=> point = "restored")
  BY <1>1
<1> HIDE DEF point
<1>3. Written(p, queue) /\ Moves(p, queue) /\ MemoryOK /\ Kept
  BY <1>1, <1>2, GotoStep DEF Points, Restoring, Saving, LeaseInv, TypeOK
<1>4. Wanted(p) \in Presets BY <1>1, WantedIs
<1>5. DataOK BY <1>1, <1>4 DEF HostSelects, DataOK, memory, disk, bounds, LeaseInv, TypeOK
<1>6. Steps(p, point)
  <2>1. CASE point = "granted"
    <3>1. p \in Runs /\ held[p] = p /\ Unreleased(leases[p]) /\ status[p] = "none"
      BY <2>1, <1>2, WantedIs, WhoIs DEF LeaseInv, CallsInv, WithLease, BeforeRun
    <3>2. QED
      BY <1>1, <1>2, <2>1, <3>1 DEF Steps, Goto, Resting, Refreshing, Restoring, WithLease, BeforeRun, BeforeLease, Procs
  <2>2. CASE point = "restored"
    <3>1. held[p] \in Runs /\ leases[held[p]].state # "none" /\ pc[held[p]] \notin BeforeRun
      BY <2>2, <1>2, WantedIs DEF LeaseInv, CallsInv, Restoring
    <3>2. QED
      BY <1>1, <1>2, <2>2, <3>1 DEF Steps, Goto, Resting, Refreshing, Restoring, WithLease, BeforeRun, BeforeLease
  <2>3. QED BY <1>2, <2>1, <2>2
<1>7. TypeOK' /\ CallsInv' /\ QueueInv' /\ StartsInv' /\ LeasesInv'
  BY <1>2, <1>3, <1>5, <1>6, StepPreserves DEF Points, Restoring
<1>8. LoanInv'
  <2>1. \A x \in Runs : Loan(x) /\ (preset # Original \/ pc[x] \in BeforeRun) => Loan(x)' BY <1>3, <1>5, KeptStep DEF DataOK
  <2>2. pc'[p] = point /\ \A x \in Procs : x # p => pc'[x] = pc[x]
    BY <1>1 DEF LeaseInv, TypeOK, Goto
  <2>3. \A x \in Runs : pc'[x] \in {"reading", "read", "granting", "savingPrepared"} =>
          x # p /\ pc'[x] = pc[x]
    BY <1>2, <2>2 DEF Procs
  <2>4. CASE pc[p] = "granting"
    <3>1. p \in Runs /\ Loan(p) BY <2>4, WantedIs DEF LeaseInv, LoanInv
    <3>2. \A x \in Runs : x # p => pc[x] \in {"idle", "done"}
      BY <2>4, <3>1 DEF LeaseInv, CallsInv, Resting
    <3>3. QED BY <1>1, <2>1, <2>3, <2>4, <3>1, <3>2 DEF LoanInv, BeforeRun, WithLease
  <2>5. CASE pc[p] = "restoring"
    <3>1. preset' = Original BY <1>1, <2>5, WantedIs
    <3>2. QED BY <1>1, <2>1, <2>3, <3>1 DEF LoanInv, LeaseInv, BeforeRun, WithLease
  <2>6. QED BY <1>1, <2>4, <2>5
<1>9. QED BY <1>7, <1>8 DEF LeaseInv

\* A lease in another state than none that is marked, not released.
LEMMA MarkIsKept ==
  ASSUME LeaseInv, NEW h \in Runs, NEW state \in LeaseStates \ {"none", "released"},
         leases[h].state # "none", SetLease(h, state), status' = status
  PROVE  MemoryOK /\ Kept /\ Unreleased(leases'[h])
<1>2. /\ leases' \in [Runs -> Lease]
      /\ \A r \in Runs : r # h => leases'[r] = leases[r]
      /\ leases'[h].state = state /\ leases'[h].prev = leases[h].prev
  BY SetLeaseIs
<1>3. QED BY <1>2 DEF MemoryOK, Kept, Unreleased, LeaseInv, TypeOK

\* A call marks the lease it holds, and waits for the copy that says so.
LEMMA MarkPreserves ==
  ASSUME LeaseInv, NEW p \in Procs, NEW q, Written(p, q), NEW state \in {"acquired", "needs_attention"},
         NEW point, SetLease(held[p], state), status' = status, Save(p, point, q),
         \/ pc[p] \in WithLease /\ point \in {"savingAcquired", "savingRefusal"}
         \/ pc[p] \in Restoring /\ point = "savingAttention",
         preset' = preset, order' = order, target' = target, held' = held, after' = after,
         seen' = seen, turn' = turn, active' = active, crashes' = crashes, errors' \in 0..MaxErrors
  PROVE  LeaseInv'
<1> USE PermissionLeasesAssumption
<1>1. state \in LeaseStates \ {"none", "released"} BY DEF LeaseStates
<1>2. /\ held[p] \in Runs /\ leases[held[p]].state # "none"
      /\ pc[p] \in WithLease => p \in Runs /\ held[p] = p /\ status[p] = "none" /\ pc[p] \in BeforeRun
      /\ pc[p] \in Restoring => pc[held[p]] \notin BeforeRun
  BY WhoIs DEF LeaseInv, CallsInv, StartsInv, BeforeRun, Unreleased
<1>3. MemoryOK /\ Kept /\ Unreleased(leases'[held[p]]) BY <1>1, <1>2, MarkIsKept
<1>4. point \in Saving BY DEF Saving
<1>5. Moves(p, q) /\ pc' = [pc EXCEPT ![p] = point] BY <1>4, SaveStep
<1>6. DataOK BY DEF DataOK, LeaseInv, TypeOK
<1>7. ~Resting(p) BY DEF Resting, WithLease, Restoring
<1>8. Steps(p, point)
  <2>1. CASE pc[p] \in WithLease /\ point \in {"savingAcquired", "savingRefusal"}
    BY <1>2, <1>3, <1>5, <1>7, <2>1
    DEF Steps, Refreshing, Restoring, WithLease, BeforeRun, BeforeLease, Procs
  <2>2. CASE pc[p] \in Restoring /\ point = "savingAttention"
    <3>1. leases'[held[p]].state # "none" BY <1>3 DEF Unreleased
    <3>2. point \notin Refreshing \cup WithLease \cup BeforeRun \cup BeforeLease \cup {"savingRun", "prompting"}
      BY <2>2 DEF Refreshing, WithLease, BeforeRun, BeforeLease
    <3>3. point \in Restoring BY <2>2 DEF Restoring
    <3>4. QED BY <1>2, <1>5, <1>7, <2>2, <3>1, <3>2, <3>3 DEF Steps
  <2>3. QED BY <2>1, <2>2
<1>9. QED BY <1>3, <1>4, <1>5, <1>6, <1>8, LoanPreserves DEF Points

\* The lease that was given back is released: its preset is in force again.
LEMMA ReleasePreserves ==
  ASSUME LeaseInv, NEW p \in Procs, Confirmed(p), pc[p] = "restored"
  PROVE  LeaseInv'
<1> USE PermissionLeasesAssumption
<1> DEFINE h == held[p]
<1>1. /\ h \in Runs /\ pc[h] \notin BeforeRun /\ leases[h].state # "none" /\ preset = Original
      /\ SetLease(h, "released") /\ status' = status
      /\ Save(p, "savingReleased", queue)
      /\ preset' = preset /\ order' = order /\ target' = target /\ held' = held /\ after' = after
      /\ file' = file /\ seen' = seen /\ turn' = turn /\ active' = active
      /\ crashes' = crashes /\ errors' = errors
  BY WantedIs DEF Confirmed, host, bounds, LeaseInv, CallsInv, Restoring
<1> HIDE DEF h
<1>2. /\ leases' \in [Runs -> Lease]
      /\ \A r \in Runs : r # h => leases'[r] = leases[r]
      /\ leases'[h].state = "released" /\ leases'[h].prev = leases[h].prev
  <2>1. "released" \in LeaseStates BY DEF LeaseStates
  <2>2. QED BY <1>1, <2>1, SetLeaseIs
<1>3. MemoryOK /\ Kept BY <1>1, <1>2 DEF MemoryOK, Kept, LeaseInv, TypeOK
<1>4. Written(p, queue) /\ ~Resting(p) BY <1>1 DEF Written, Saving, Resting
<1>5. Moves(p, queue) /\ pc' = [pc EXCEPT ![p] = "savingReleased"] BY <1>1, SaveStep DEF Saving
<1>6. DataOK BY <1>1 DEF DataOK, LeaseInv, TypeOK
<1>7. held'[p] = h BY <1>1 DEF h
<1>8. Steps(p, "savingReleased")
  BY <1>1, <1>2, <1>4, <1>5, <1>7 DEF Steps, Restoring, Refreshing, WithLease, BeforeRun, BeforeLease
<1>9. QED BY <1>1, <1>3, <1>4, <1>5, <1>6, <1>8, LoanPreserves DEF Points, Saving

\* The Host confirms, or does not.
LEMMA AnswerPreserves ==
  ASSUME LeaseInv, NEW p \in Procs, Confirmed(p) \/ SelectFails(p)
  PROVE  LeaseInv'
<1>1. CASE Confirmed(p) /\ pc[p] = "granted"
  <2>1. /\ SetLease(held[p], "acquired") /\ status' = status /\ Save(p, "savingAcquired", queue)
        /\ preset' = preset /\ order' = order /\ target' = target /\ held' = held /\ after' = after
        /\ file' = file /\ seen' = seen /\ turn' = turn /\ active' = active
        /\ crashes' = crashes /\ errors' \in 0..MaxErrors
    BY <1>1 DEF Confirmed, host, bounds, LeaseInv, TypeOK
  <2>2. Written(p, queue) BY <1>1, <2>1 DEF Written, Saving
  <2>3. pc[p] \in WithLease BY <1>1 DEF WithLease
  <2>4. QED BY <2>1, <2>2, <2>3, MarkPreserves
<1>2. CASE Confirmed(p) /\ pc[p] = "restored" BY <1>2, ReleasePreserves
<1>3. CASE SelectFails(p)
  <2>1. /\ pc[p] \in {"granting", "restoring", "granted", "restored"}
        /\ SetLease(held[p], "needs_attention") /\ status' = status
        /\ Save(p, IF pc[p] \in {"granting", "granted"} THEN "savingRefusal" ELSE "savingAttention", queue)
        /\ preset' = preset /\ order' = order /\ target' = target /\ held' = held /\ after' = after
        /\ file' = file /\ seen' = seen /\ turn' = turn /\ active' = active
        /\ crashes' = crashes
    BY <1>3 DEF SelectFails, Attention, host
  <2>2. errors' \in 0..MaxErrors
    BY <1>3, PermissionLeasesAssumption DEF SelectFails, LeaseInv, TypeOK
  <2>3. Written(p, queue) BY <2>1 DEF Written, Saving
  <2>4. CASE pc[p] \in {"granting", "granted"}
    <3>1. pc[p] \in WithLease /\ Save(p, "savingRefusal", queue) BY <2>1, <2>4 DEF WithLease
    <3>2. QED BY <2>1, <2>2, <2>3, <3>1, MarkPreserves
  <2>5. CASE pc[p] \in {"restoring", "restored"}
    <3>1. pc[p] \in Restoring /\ Save(p, "savingAttention", queue) BY <2>1, <2>5 DEF Restoring
    <3>2. QED BY <2>1, <2>2, <2>3, <3>1, MarkPreserves
  <2>6. QED BY <2>1, <2>4, <2>5
<1>4. QED BY <1>1, <1>2, <1>3 DEF Confirmed

\* What a step leaves alone that only moves a call and its copy.
StillFrame ==
  /\ leases' = leases /\ status' = status /\ active' = active /\ held' = held /\ after' = after
  /\ preset' = preset /\ turn' = turn /\ order' = order /\ target' = target /\ seen' = seen
  /\ crashes' = crashes /\ errors' \in 0..MaxErrors

\* A call ends, or saves the memory a last time.
LEMMA RestPreserves ==
  ASSUME LeaseInv, NEW p \in Procs, NEW q, Written(p, q), StillFrame, ~Resting(p),
         Rest(p, q) \/ Save(p, "savingFinal", q)
  PROVE  LeaseInv'
<1> USE PermissionLeasesAssumption
<1>1. MemoryOK /\ Kept /\ DataOK BY DEF MemoryOK, Kept, DataOK, StillFrame, LeaseInv, TypeOK
<1>2. PICK point \in {"idle", "done", "savingFinal"} :
        /\ Moves(p, q) /\ pc' = [pc EXCEPT ![p] = point]
        /\ point = "idle" => p \in Callers
        /\ point = "done" => p \in Runs
  <2>1. CASE Save(p, "savingFinal", q) BY <2>1, SaveStep DEF Saving
  <2>2. CASE Rest(p, q)
    <3>1. CASE p \in Runs
      <4>1. Continue(p, "done", q) BY <2>2, <3>1 DEF Rest
      <4>2. QED BY <3>1, <4>1, ContinueStep DEF Points
    <3>2. CASE p \notin Runs
      <4>1. Continue(p, "idle", q) /\ p \in Callers BY <2>2, <3>2 DEF Rest, Procs
      <4>2. QED BY <4>1, ContinueStep DEF Points
    <3>3. QED BY <3>1, <3>2
  <2>3. QED BY <2>1, <2>2
<1>3. /\ point \in Points /\ point \notin {"reading", "read", "granting", "savingPrepared"}
      /\ point \notin Refreshing \cup Restoring \cup WithLease \cup {"savingRun", "prompting"}
      /\ point # "idle" => point \notin BeforeRun \cup BeforeLease
  BY DEF Points, Saving, Refreshing, Restoring, WithLease, BeforeRun, BeforeLease
<1>4. Steps(p, point) BY <1>2, <1>3 DEF Steps, StillFrame
<1>5. QED BY <1>1, <1>2, <1>3, <1>4, LoanPreserves DEF StillFrame

LEMMA AwaitedIs ==
  ASSUME LeaseInv, NEW p \in Procs, Awaited(p)
  PROVE  /\ pc[p] \in Saving /\ ~Resting(p)
         /\ Head(queue) = queue[1] /\ 1 \in 1..Len(queue) /\ queue[1] \in Copies /\ queue[1].by = p
<1>1. queue \in Seq(Copies) BY DEF LeaseInv, QueueInv
<1>2. Head(queue) = queue[1] /\ 1 \in 1..Len(queue) /\ queue[1] \in Copies /\ queue[1].by = p
  BY <1>1, HeadTailProperties, LenProperties, EmptySeq DEF Awaited
<1>3. pc[p] \in Saving BY <1>2 DEF LeaseInv, QueueInv
<1>4. QED BY <1>2, <1>3 DEF Saving, Resting

\* The copy with its lease is on disk: the grant may be asked for.
LEMMA LoanIsSaved ==
  ASSUME LeaseInv, NEW p \in Procs, Awaited(p), pc[p] = "savingPrepared", file' = Copy,
         Continue(p, "granting", Tail(queue)), StillFrame
  PROVE  LeaseInv'
<1>1. p \in Runs /\ held[p] = p /\ Unreleased(leases[p]) /\ status[p] = "none"
  BY WhoIs DEF LeaseInv, CallsInv, WithLease, BeforeRun
<1>2. MemoryOK /\ Kept /\ DataOK BY DEF MemoryOK, Kept, DataOK, StillFrame, LeaseInv, TypeOK
<1>3. Written(p, Tail(queue)) BY DEF Written
<1>4. Moves(p, Tail(queue)) /\ pc' = [pc EXCEPT ![p] = "granting"] BY ContinueStep DEF Points
<1>5. Steps(p, "granting")
  <2>1. /\ "granting" \in WithLease /\ "granting" \notin Refreshing \cup Restoring \cup BeforeLease
        /\ pc[p] \in BeforeRun /\ ~Resting(p)
    BY DEF Resting, Refreshing, Restoring, WithLease, BeforeRun, BeforeLease
  <2>2. p \notin Callers BY <1>1, PermissionLeasesAssumption
  <2>3. QED BY <1>1, <1>4, <2>1, <2>2 DEF Steps, StillFrame
<1>6. TypeOK' /\ CallsInv' /\ QueueInv' /\ StartsInv' /\ LeasesInv'
  BY <1>2, <1>3, <1>4, <1>5, StepPreserves DEF Points
<1>7. Loan(p)'
  <2>1. queue[1].by = p /\ 1 \in 1..Len(queue) /\ Head(queue) = queue[1] BY AwaitedIs
  <2>2. \A m \in 1..Len(queue) : Unreleased(queue[m].leases[p]) BY <1>1, <2>1 DEF LeaseInv, LoanInv
  <2>3. \A n \in 1..Len(queue') : \E m \in 1..Len(queue) : queue'[n] = queue[m]
    <3>1. queue \in Seq(Copies) /\ queue # <<>> /\ queue' = Tail(queue)
      BY DEF LeaseInv, QueueInv, Continue, Awaited
    <3>2. /\ Len(queue') = Len(queue) - 1 /\ Len(queue) \in Nat
          /\ \A n \in 1..Len(queue') : queue'[n] = queue[n + 1]
      BY <3>1, HeadTailProperties, LenProperties
    <3>3. \A n \in 1..Len(queue') : n + 1 \in 1..Len(queue) BY <3>2
    <3>4. QED BY <3>2, <3>3
  <2>4. file'.leases = queue[1].leases BY <2>1 DEF Copy
  <2>5. QED BY <1>1, <2>1, <2>2, <2>3, <2>4 DEF Loan, AllLeases, StillFrame
<1>8. LoanInv'
  <2>1. /\ \A r \in Runs : Loan(r) /\ (preset # Original \/ pc[r] \in BeforeRun) => Loan(r)'
        /\ \A r \in Runs : r # p /\ pc[r] = "savingPrepared" =>
             \A n \in 1..Len(queue') : queue'[n].by = r =>
               \A m \in n..Len(queue') : Unreleased(queue'[m].leases[r])
    BY <1>2, <1>3, <1>4, KeptStep DEF DataOK
  <2>2. pc'[p] = "granting" /\ \A x \in Procs : x # p => pc'[x] = pc[x]
    BY <1>4 DEF LeaseInv, TypeOK
  <2>3. QED
    BY <1>7, <2>1, <2>2 DEF LeaseInv, LoanInv, StillFrame, BeforeRun, WithLease, Procs
<1>9. QED BY <1>6, <1>8 DEF LeaseInv

LEMMA SaveDonePreserves ==
  ASSUME LeaseInv, NEW p \in Procs, SaveDone(p)
  PROVE  LeaseInv'
<1> USE PermissionLeasesAssumption
<1> DEFINE q == Tail(queue)
<1>1. /\ Awaited(p) /\ file' = Copy /\ Written(p, q) /\ ~Resting(p)
      /\ preset' = preset /\ turn' = turn /\ order' = order /\ target' = target /\ seen' = seen
      /\ crashes' = crashes /\ errors' = errors /\ errors' \in 0..MaxErrors
  BY AwaitedIs DEF SaveDone, Copy, Written, host, bounds, LeaseInv, TypeOK
<1>2. CASE pc[p] = "savingPrepared" /\ Step(p, "granting", q)
  <2>1. Continue(p, "granting", q) /\ StillFrame
    BY <1>1, <1>2 DEF Step, StillFrame, SaveDone, Continue, Goto, Catch, Rest, Leave
  <2>2. QED BY <1>1, <1>2, <2>1, LoanIsSaved
<1>3. CASE \/ pc[p] = "savingAcquired" /\ Step(p, "baseline", q)
           \/ pc[p] = "savingRun" /\ Step(p, "prompting", q)
           \/ pc[p] = "savingRestoring" /\ Step(p, "restoring", q)
  <2>1. PICK point \in {"baseline", "prompting", "restoring"} :
          /\ Continue(p, point, q) /\ leases' = leases /\ active' = active /\ held' = held /\ after' = after
          /\ status' = status
          /\ point = "baseline" => pc[p] = "savingAcquired"
          /\ point = "prompting" => pc[p] = "savingRun"
          /\ point = "restoring" => pc[p] = "savingRestoring"
    BY <1>3 DEF Step
  <2>2. MemoryOK /\ Kept /\ DataOK BY <1>1, <2>1 DEF MemoryOK, Kept, DataOK, LeaseInv, TypeOK
  <2>3. Moves(p, q) /\ pc' = [pc EXCEPT ![p] = point] /\ point \in Points
    BY <2>1, ContinueStep DEF Points, Restoring
  <2>4. Steps(p, point)
    <3>1. CASE point = "baseline"
      <4>1. p \in Runs /\ pc[p] \in BeforeRun /\ status[p] = "none"
        BY <2>1, <3>1, WhoIs DEF WithLease, BeforeRun
      <4>2. QED
        BY <1>1, <2>1, <2>3, <3>1, <4>1
        DEF Steps, Refreshing, Restoring, WithLease, BeforeRun, BeforeLease
    <3>2. CASE point = "prompting"
      <4>1. p \in Runs /\ status[p] # "none" BY <2>1, <3>2, WhoIs DEF LeaseInv, CallsInv
      <4>2. QED
        BY <1>1, <2>1, <2>3, <3>2, <4>1
        DEF Steps, Refreshing, Restoring, WithLease, BeforeRun, BeforeLease
    <3>3. CASE point = "restoring"
      <4>1. held[p] \in Runs /\ leases[held[p]].state # "none" /\ pc[held[p]] \notin BeforeRun
        BY <2>1, <3>3 DEF LeaseInv, CallsInv, StartsInv, Restoring
      <4>2. QED
        BY <1>1, <2>1, <2>3, <3>3, <4>1
        DEF Steps, Refreshing, Restoring, WithLease, BeforeRun, BeforeLease
    <3>4. QED BY <3>1, <3>2, <3>3
  <2>5. QED BY <1>1, <2>1, <2>2, <2>3, <2>4, LoanPreserves
<1>4. CASE pc[p] = "savingRefusal" /\ Catch(p, q)
  <2>1. p \in Runs BY <1>4, WhoIs DEF WithLease
  <2>2. QED BY <1>1, <1>4, <2>1, CatchPreserves DEF LeaseInv, TypeOK
<1>5. CASE /\ UNCHANGED <<leases, status, active, held, after>>
           /\ Rest(p, q) \/ Leave(p, after[p], q)
  <2>1. Rest(p, q) \/ Save(p, "savingFinal", q) BY <1>5 DEF Leave
  <2>2. StillFrame BY <1>1, <1>5 DEF StillFrame
  <2>3. QED BY <1>1, <2>1, <2>2, RestPreserves
<1>6. QED BY <1>2, <1>3, <1>4, <1>5 DEF SaveDone

LEMMA SaveFailsPreserves ==
  ASSUME LeaseInv, NEW p \in Procs, SaveFails(p)
  PROVE  LeaseInv'
<1> USE PermissionLeasesAssumption
<1> DEFINE q == Tail(queue)
<1>1. /\ Awaited(p) /\ file' = file /\ Written(p, q) /\ ~Resting(p)
      /\ preset' = preset /\ turn' = turn /\ order' = order /\ target' = target /\ seen' = seen
      /\ crashes' = crashes /\ errors' \in 0..MaxErrors
  BY AwaitedIs DEF SaveFails, Written, host, LeaseInv, TypeOK
<1>2. CASE p \in Runs /\ Catch(p, q)
  BY <1>1, <1>2, CatchPreserves DEF LeaseInv, TypeOK
<1>3. CASE pc[p] = "savingRun" /\ Finalize(p, p, q)
  <2>1. p \in Runs /\ status[p] # "none" BY <1>3, WhoIs DEF LeaseInv, CallsInv
  <2>2. QED BY <1>1, <1>3, <2>1, FinalizePreserves DEF LeaseInv, TypeOK
<1>4. CASE /\ pc[p] \in {"savingAcquired", "savingReleased"}
           /\ Attention(p, pc[p] = "savingAcquired", q) /\ UNCHANGED <<active, held, after>>
  <2>1. SetLease(held[p], "needs_attention") /\ status' = status BY <1>4 DEF Attention
  <2>2. CASE pc[p] = "savingAcquired"
    <3>1. Save(p, "savingRefusal", q) /\ pc[p] \in WithLease BY <1>4, <2>2 DEF Attention, WithLease
    <3>2. QED BY <1>1, <1>4, <2>1, <3>1, MarkPreserves
  <2>3. CASE pc[p] = "savingReleased"
    <3>1. Save(p, "savingAttention", q) /\ pc[p] \in Restoring BY <1>4, <2>3 DEF Attention, Restoring
    <3>2. QED BY <1>1, <1>4, <2>1, <3>1, MarkPreserves
  <2>4. QED BY <1>4, <2>2, <2>3
<1>5. CASE Rest(p, q) /\ UNCHANGED <<leases, status, active, held, after>>
  <2>1. StillFrame BY <1>1, <1>5 DEF StillFrame
  <2>2. QED BY <1>1, <1>5, <2>1, RestPreserves
<1>6. pc[p] \in {"savingPrepared", "savingRefusal"} => p \in Runs BY WhoIs DEF WithLease
<1>7. QED BY <1>2, <1>3, <1>4, <1>5, <1>6 DEF SaveFails, Throw

LEMMA TurnPreserves ==
  ASSUME LeaseInv, NEW r \in Runs, TurnEnds(r)
  PROVE  LeaseInv'
<1>1. turn' = [turn EXCEPT ![r] = "ended"] /\ UNCHANGED <<preset, memory, disk, calls, bounds>>
  BY DEF TurnEnds
<1>2. turn' \in [Runs -> Turns] BY <1>1 DEF LeaseInv, TypeOK, Turns
<1>3. TypeOK' BY <1>1, <1>2 DEF LeaseInv, TypeOK, memory, disk, calls, bounds
<1>4. AllLeases' = AllLeases /\ AllStatuses' = AllStatuses
  BY <1>1 DEF AllLeases, AllStatuses, memory, disk
<1>5. CallsInv' /\ QueueInv'
  BY <1>1 DEF LeaseInv, CallsInv, QueueInv, Resting, memory, disk, calls
<1>6. StartsInv' BY <1>1, <1>4 DEF LeaseInv, StartsInv, calls
<1>7. LeasesInv' BY <1>1, <1>4 DEF LeaseInv, LeasesInv, InOrder, memory
<1>8. LoanInv' BY <1>1, <1>4 DEF LeaseInv, LoanInv, Loan, memory, disk, calls
<1>9. QED BY <1>3, <1>5, <1>6, <1>7, <1>8 DEF LeaseInv

\* A restart finds every loan in the file.
LEMMA RestartPreserves ==
  ASSUME LeaseInv, Restart
  PROVE  LeaseInv'
<1> USE PermissionLeasesAssumption
<1>1. PICK expired \in SUBSET {r \in Runs : Unreleased(file.leases[r])} :
         leases' = [r \in Runs |-> IF r \in expired THEN [file.leases[r] EXCEPT !.state = "needs_attention"]
                                   ELSE file.leases[r]]
  BY DEF Restart
<1>2. /\ file.leases \in [Runs -> Lease] /\ file.status \in [Runs -> Statuses]
      /\ file.leases \in AllLeases /\ file.status \in AllStatuses
      /\ file = [leases |-> file.leases, status |-> file.status]
  BY DEF LeaseInv, TypeOK, AllLeases, AllStatuses
<1>3. \A r \in Runs : /\ leases'[r] \in Lease /\ leases'[r].prev = file.leases[r].prev
                      /\ leases'[r].state = "none" <=> file.leases[r].state = "none"
                      /\ Unreleased(leases'[r]) <=> Unreleased(file.leases[r])
  <2> SUFFICES ASSUME NEW r \in Runs
               PROVE  /\ leases'[r] \in Lease /\ leases'[r].prev = file.leases[r].prev
                      /\ leases'[r].state = "none" <=> file.leases[r].state = "none"
                      /\ Unreleased(leases'[r]) <=> Unreleased(file.leases[r])
    OBVIOUS
  <2>1. "needs_attention" \in LeaseStates BY DEF LeaseStates
  <2>2. CASE r \in expired
    <3>1. leases'[r] = [file.leases[r] EXCEPT !.state = "needs_attention"] BY <1>1, <2>2
    <3>2. Unreleased(file.leases[r]) BY <2>2
    <3>3. QED BY <1>2, <2>1, <3>1, <3>2 DEF Lease, Unreleased
  <2>3. CASE r \notin expired
    <3>1. leases'[r] = file.leases[r] BY <1>1, <2>3
    <3>2. QED BY <1>2, <3>1
  <2>4. QED BY <2>2, <2>3
<1>4. leases' \in [Runs -> Lease] BY <1>1, <1>3
<1>5. file' = [leases |-> leases', status |-> file.status] BY <1>2 DEF Restart
<1>6. /\ queue' = <<>> /\ status' = file.status /\ order' = order /\ preset' = preset /\ turn' = turn
      /\ target' = target /\ held' = held /\ after' = after /\ seen' = seen
      /\ errors' = errors /\ crashes' \in 0..MaxCrashes /\ active' \in Runs \cup {None}
  BY DEF Restart, host, LeaseInv, TypeOK
<1>7. /\ pc' \in [Procs -> Points]
      /\ \A p \in Procs : pc'[p] \in {"idle", "done"}
      /\ \A r \in Runs : pc'[r] = "idle" => pc[r] = "idle"
      /\ \A c \in Callers : pc'[c] = "idle"
  BY DEF Restart, Points, Procs
<1>8. AllLeases' = {leases'} /\ AllStatuses' = {file.status}
  <2>1. 1..Len(queue') = {} BY <1>6
  <2>2. file'.leases = leases' /\ file'.status = file.status BY <1>5
  <2>3. QED BY <1>6, <2>1, <2>2 DEF AllLeases, AllStatuses
<1>9. TypeOK'
  <2>1. 1..Len(queue') = {} BY <1>6
  <2>2. QED BY <1>2, <1>4, <1>5, <1>6, <1>7, <2>1 DEF LeaseInv, TypeOK
<1>10. CallsInv'
  BY <1>7 DEF CallsInv, Refreshing, Restoring, WithLease, Resting, Procs
<1>11. QueueInv'
  <2>1. 1..Len(queue') = {} /\ queue' \in Seq(Copies) BY <1>6
  <2>2. QED BY <2>1 DEF QueueInv
<1>12. \A r \in Runs : pc'[r] \in BeforeRun => pc[r] = "idle"
  BY <1>7 DEF BeforeRun, BeforeLease, WithLease, Procs
<1>13. StartsInv'
  <2>1. \A r \in Runs : pc'[r] \in BeforeLease => leases'[r].state = "none"
    BY <1>2, <1>3, <1>12 DEF LeaseInv, StartsInv, BeforeRun, BeforeLease
  <2>2. \A r \in Runs : pc'[r] \in BeforeRun => file.status[r] = "none"
    BY <1>2, <1>12 DEF LeaseInv, StartsInv, BeforeRun, BeforeLease
  <2>3. \A p \in Procs : pc'[p] \notin Restoring BY <1>7 DEF Restoring
  <2>4. QED BY <1>8, <2>1, <2>2, <2>3 DEF StartsInv
<1>14. LeasesInv'
  <2>1. \A r \in Runs : InOrder(r)' <=> InOrder(r) BY <1>6 DEF InOrder
  <2>2. QED BY <1>2, <1>3, <1>8, <2>1 DEF LeaseInv, LeasesInv
<1>15. LoanInv'
  <2>1. \A r \in Runs : Loan(r) => Loan(r)' BY <1>2, <1>3, <1>8 DEF Loan
  <2>2. \A r \in Runs : pc'[r] \in {"idle", "done"} BY <1>7 DEF Procs
  <2>3. QED BY <1>6, <2>1, <2>2 DEF LeaseInv, LoanInv
<1>16. QED BY <1>9, <1>10, <1>11, <1>13, <1>14, <1>15 DEF LeaseInv

-----------------------------------------------------------------------------
LEMMA LeaseInitially == ASSUME Init PROVE LeaseInv
<1> USE PermissionLeasesAssumption
<1>1. \A r \in Runs : leases[r] = [prev |-> Original, state |-> "none"] /\ status[r] = "none"
  BY DEF Init, NoLease
<1>2. 1..Len(queue) = {} /\ queue = <<>> BY DEF Init
<1>3. AllLeases = {leases} /\ AllStatuses = {status}
  BY <1>2 DEF Init, AllLeases, AllStatuses
<1>4. TypeOK
  <2>1. leases \in [Runs -> Lease] /\ status \in [Runs -> Statuses]
    BY DEF Init, NoLease, Lease, LeaseStates, Statuses
  <2>2. pc \in [Procs -> Points] BY DEF Init, Points
  <2>3. turn \in [Runs -> Turns] BY DEF Init, Turns
  <2>4. QED BY <1>2, <2>1, <2>2, <2>3 DEF Init, TypeOK
<1>5. \A p \in Procs : pc[p] = "idle" BY DEF Init
<1>6. CallsInv BY <1>5 DEF CallsInv, Refreshing, Restoring, WithLease, Resting, Procs
<1>7. QueueInv BY <1>2 DEF QueueInv
<1>8. StartsInv BY <1>1, <1>3, <1>5 DEF StartsInv, Restoring, Procs
<1>9. LeasesInv
  <2>1. ASSUME NEW r \in Runs PROVE leases[r].prev = Original /\ leases[r].state = "none"
    <3>1. leases[r] = [prev |-> Original, state |-> "none"] BY <1>1
    <3>2. QED BY <3>1
  <2>2. QED BY <1>3, <2>1 DEF LeasesInv
<1>10. LoanInv BY <1>5 DEF LoanInv, Init, Procs
<1>11. QED BY <1>4, <1>6, <1>7, <1>8, <1>9, <1>10 DEF LeaseInv

LEMMA LeaseInductive ==
  ASSUME ~AtWork, LeaseInv, [Next]_vars
  PROVE  LeaseInv'
<1>1. ASSUME NEW r \in Runs, StartRun(r) PROVE LeaseInv'
  <2>1. CASE Prepare(r) BY <2>1, StartPlain, PreparePreserves
  <2>2. CASE Check(r) BY <2>2, StartPlain, StartRestores
  <2>3. QED BY <1>1, <2>1, <2>2, StartPlain, StartRestores DEF StartRun
<1>2. ASSUME NEW r \in Runs, TurnEnds(r) PROVE LeaseInv' BY <1>2, TurnPreserves
<1>3. ASSUME NEW c \in Callers, ReconcilePermissions(c) PROVE LeaseInv' BY <1>3, ReconcilePreserves
<1>4. ASSUME NEW c \in Callers, NEW r \in Runs, Poll(c, r) PROVE LeaseInv' BY <1>4, PollPreserves
<1>5. ASSUME NEW p \in Procs, Goes(p) \/ RefreshFails(p) \/ SaveFails(p) PROVE LeaseInv'
  BY <1>5, RefreshPreserves, SelectPreserves, AnswerPreserves, SaveDonePreserves, SaveFailsPreserves DEF Goes
<1>6. CASE Restart BY <1>6, RestartPreserves
<1>7. CASE UNCHANGED vars
  <2>1. AllLeases' = AllLeases /\ AllStatuses' = AllStatuses
    BY <1>7 DEF AllLeases, AllStatuses, vars, memory, disk
  <2>2. QED
    BY <1>7, <2>1 DEF LeaseInv, TypeOK, CallsInv, QueueInv, StartsInv, LeasesInv, LoanInv, InOrder, Loan,
       Resting, vars, host, memory, disk, calls, bounds
<1>8. QED BY <1>1, <1>2, <1>3, <1>4, <1>5, <1>6, <1>7 DEF Next

LEMMA LeaseAlways == ASSUME ~AtWork PROVE Spec => []LeaseInv
<1>1. Init => LeaseInv BY LeaseInitially
<1>2. LeaseInv /\ [Next]_vars => LeaseInv' BY LeaseInductive
<1>3. QED BY <1>1, <1>2, PTL DEF Spec

\* Every lease, copy and place has its type, whatever overlaps.
THEOREM LeasesAreTyped == ASSUME ~AtWork PROVE Spec => []TypeOK
<1>1. LeaseInv => TypeOK BY DEF LeaseInv
<1>2. QED BY <1>1, LeaseAlways, PTL

\* Write-ahead of the loan, whatever overlaps: the preset of the session is never
\* changed before the file says what to give back.
THEOREM LoanOnDisk == ASSUME ~AtWork PROVE Spec => []LoanIsOnDisk
<1>1. LeaseInv => LoanIsOnDisk
  BY DEF LeaseInv, LoanInv, LeasesInv, Loan, AllLeases, LoanIsOnDisk
<1>2. QED BY <1>1, LeaseAlways, PTL
-----------------------------------------------------------------------------
(* Calls that follow one another.                                          *)

Begun(r) == pc[r] \in BeforeRun \ {"idle"}

\* The copy that a start waits for, and all after it, say that its run is running.
RunQueued(r) ==
  \A n \in 1..Len(queue) : queue[n].by = r =>
    \A m \in n..Len(queue) : queue[m].status[r] = "running"

\* Who has the session, in memory and in every copy of it.
SessionInv ==
  /\ \A r \in Runs : active = r <=> status[r] = "running" \/ Begun(r)
  /\ \A r, s \in Runs : r # s /\ ~Resting(s) => status[r] # "running"
  /\ \A l \in AllStatuses : \A r, s \in Runs : l[r] = "running" /\ l[s] = "running" => r = s
  /\ \A r \in Runs : turn[r] = "working" => \A l \in AllStatuses : l[r] = "running"
  /\ \A r \in Runs : turn[r] # "none" => pc[r] \notin BeforeRun \cup {"savingRun", "prompting"}
  /\ \A r \in Runs : turn[r] = "rejected" /\ ~Resting(r) => status[r] = "over"
  /\ \A r \in Runs : pc[r] = "prompting" => \A l \in AllStatuses : l[r] = "running"
  /\ \A r \in Runs : pc[r] = "savingRun" => status[r] = "running" /\ RunQueued(r)

\* One refresh at a time; the run it is about is not concluded meanwhile, unless
\* it has no prompt.
RefreshInv ==
  /\ \A p, q \in Procs : p # q /\ pc[p] \in Refreshing => pc[q] \notin Refreshing
  /\ \A p \in Procs : pc[p] \in Refreshing =>
       status[target[p]] = "running" \/ turn[target[p]] = "none"
  /\ \A p \in Procs : pc[p] = "listed" => turn[target[p]] \in {"working", "ended"}
  /\ \A p \in Procs, r \in Runs : pc[p] \in Refreshing /\ turn[r] = "working" => target[p] = r

Gives(p) == pc[p] \in {"savingRestoring", "restoring", "restored"}

\* A run that has, or is about to have, the preset it asked for.
Keeps(r) ==
  turn[r] = "working" \/ pc[r] \in WithLease \cup {"reading", "read", "baseline", "savingRun", "prompting"}

\* One call at a time gives back a lease, and no run keeps a preset then.
GiveInv ==
  /\ \A p, q \in Procs : p # q /\ Gives(p) => ~Gives(q)
  /\ \A p \in Procs : Gives(p) => Unreleased(leases[held[p]])
  /\ \A p \in Procs, r \in Runs : Gives(p) =>
       /\ ~Keeps(r)
       /\ p # r => ~(turn[r] = "rejected" /\ ~Resting(r))
  /\ \A p, q \in Procs : pc[p] \in Refreshing /\ Gives(q) => turn[target[p]] = "none"

PresetInv ==
  /\ \A r \in Runs : turn[r] = "working" => preset = Grant[r]
  /\ \A r \in Runs : pc[r] \in {"savingAcquired", "baseline", "savingRun", "prompting"} =>
       preset = Grant[r]
  /\ \A r \in Runs : pc[r] = "read" => preset = seen[r]

SerialInv == SessionInv /\ RefreshInv /\ GiveInv /\ PresetInv

\* A step that keeps its run running leaves every waiting copy in order.
LEMMA SerialFlow ==
  ASSUME LeaseInv, SessionInv, NEW p \in Procs, NEW q, Written(p, q), Moves(p, q), MemoryOK
  PROVE  /\ AllStatuses' \subseteq AllStatuses \cup {status'}
         /\ \A r \in Runs : r # p /\ pc[r] = "savingRun" /\ status'[r] = "running" => RunQueued(r)'
<1>1. AllStatuses' \subseteq AllStatuses \cup {status'} BY QueueStep
<1>2. ASSUME NEW r \in Runs, r # p, pc[r] = "savingRun", status'[r] = "running"
      PROVE  RunQueued(r)'
  <2>1. RunQueued(r) BY <1>2 DEF SessionInv
  <2>2. PICK k \in {0, 1} : \A n \in 1..Len(queue') :
           \/ n = Len(queue') /\ queue'[n].by = p /\ queue'[n].leases = leases' /\ queue'[n].status = status'
           \/ n + k \in 1..Len(queue) /\ queue'[n] = queue[n + k]
    BY QueueShape
  <2>3. ASSUME NEW n \in 1..Len(queue'), queue'[n].by = r, NEW m \in n..Len(queue')
        PROVE  queue'[m].status[r] = "running"
    <3>1. n + k \in 1..Len(queue) /\ queue[n + k].by = r BY <2>2, <2>3, <1>2
    <3>2. queue' \in Seq(Copies) BY QueueStep DEF QueueInv
    <3>3. m \in 1..Len(queue') /\ m + k >= n + k BY <3>2, LenProperties
    <3>4. CASE queue'[m].status = status' BY <3>4, <1>2
    <3>5. CASE m + k \in 1..Len(queue) /\ queue'[m] = queue[m + k]
      <4>1. m + k \in (n + k)..Len(queue) BY <3>3, <3>5
      <4>2. QED BY <3>1, <3>5, <4>1, <2>1 DEF RunQueued
    <3>6. QED BY <2>2, <3>3, <3>4, <3>5
  <2>4. QED BY <2>3 DEF RunQueued
<1>3. QED BY <1>1, <1>2

\* Only p moves, and the runs, their turns and the session stay as they are.
Still(p, point) ==
  /\ pc'[p] = point /\ \A x \in Procs : x # p => pc'[x] = pc[x]
  /\ status' = status /\ turn' = turn /\ active' = active /\ target' = target
  /\ AllStatuses' \subseteq AllStatuses
  /\ \A r \in Runs : r # p /\ pc[r] = "savingRun" => RunQueued(r)'

\* The places p may go to in such a step, and what it needs there.
Allowed(p, point) ==
  /\ point \notin {"listing", "savingRun", "savingRestoring"}
  /\ point = "listed" => pc[p] = "listing" /\ turn[target[p]] \in {"working", "ended"}
  /\ point = "history" => pc[p] \in {"listing", "listed"}
  /\ point \in {"restoring", "restored"} => Gives(p)
  /\ p \in Runs => ~Resting(p) /\ (Begun(p)' <=> Begun(p)) /\ point # "idle"
  /\ p \in Runs /\ Keeps(p)' => Keeps(p) \/ \A x \in Procs : ~Gives(x)
  /\ point = "prompting" => pc[p] = "savingRun" /\ \A l \in AllStatuses' : l[p] = "running"
  /\ \A x \in Procs : Gives(x) /\ (x # p \/ point \in {"restoring", "restored"}) =>
       held'[x] = held[x] /\ Unreleased(leases'[held[x]])

\* Such a step keeps the session, the refreshes and the restores in order.
LEMMA StillSerial ==
  ASSUME LeaseInv, SerialInv, NEW p \in Procs, NEW point, Still(p, point), Allowed(p, point)
  PROVE  SessionInv' /\ RefreshInv' /\ GiveInv'
<1> USE PermissionLeasesAssumption
<1>1. /\ pc'[p] = point /\ \A x \in Procs : x # p => pc'[x] = pc[x]
      /\ status' = status /\ turn' = turn /\ active' = active /\ target' = target
      /\ AllStatuses' \subseteq AllStatuses
  BY DEF Still
<1>2. /\ point \notin {"listing", "savingRun", "savingRestoring"}
      /\ p \in Runs => point # "idle" /\ pc[p] \notin {"idle", "done"}
  BY DEF Allowed, Resting
<1>3. SessionInv'
  <2>1. \A r \in Runs : Begun(r)' <=> Begun(r) BY <1>1 DEF Begun, Allowed, Procs
  <2>2. \A r \in Runs : Resting(r) => Resting(r)'
    BY <1>1, <1>2 DEF Resting, Procs
  <2>3. \A r \in Runs : active' = r <=> status'[r] = "running" \/ Begun(r)'
    BY <1>1, <2>1 DEF SerialInv, SessionInv
  <2>4. \A r, s \in Runs : r # s /\ ~Resting(s)' => status'[r] # "running"
    BY <1>1, <2>2 DEF SerialInv, SessionInv
  <2>5. /\ \A l \in AllStatuses' : \A r, s \in Runs : l[r] = "running" /\ l[s] = "running" => r = s
        /\ \A r \in Runs : turn'[r] = "working" => \A l \in AllStatuses' : l[r] = "running"
        /\ \A r \in Runs : turn'[r] = "rejected" /\ ~Resting(r)' => status'[r] = "over"
    BY <1>1, <2>2 DEF SerialInv, SessionInv
  <2>6. ASSUME NEW r \in Runs, turn'[r] # "none", pc'[r] \in BeforeRun \cup {"savingRun", "prompting"}
        PROVE  FALSE
    <3>1. pc[r] \notin BeforeRun \cup {"savingRun", "prompting"}
      BY <1>1, <2>6 DEF SerialInv, SessionInv
    <3>2. r = p BY <1>1, <2>6, <3>1 DEF Procs
    <3>3. ~Begun(r)' BY <3>1, <2>1 DEF Begun
    <3>4. point = "prompting" BY <3>2, <3>3, <1>1, <1>2, <2>6 DEF Begun
    <3>5. QED BY <3>1, <3>2, <3>4 DEF Allowed
  <2>7. \A r \in Runs : pc'[r] = "prompting" => \A l \in AllStatuses' : l[r] = "running"
    BY <1>1 DEF Allowed, SerialInv, SessionInv, Procs
  <2>8. \A r \in Runs : pc'[r] = "savingRun" => status'[r] = "running" /\ RunQueued(r)'
    BY <1>1, <1>2 DEF Still, SerialInv, SessionInv, Procs
  <2>9. QED BY <2>3, <2>4, <2>5, <2>6, <2>7, <2>8 DEF SessionInv
<1>4. RefreshInv'
  <2>1. \A x \in Procs : pc'[x] \in Refreshing => pc[x] \in Refreshing
    BY <1>1, <1>2 DEF Allowed, Refreshing
  <2>2. \A x \in Procs : pc'[x] = "listed" => turn'[target'[x]] \in {"working", "ended"}
    BY <1>1 DEF Allowed, SerialInv, RefreshInv
  <2>3. QED BY <1>1, <2>1, <2>2 DEF SerialInv, RefreshInv
<1>5. GiveInv'
  <2>1. \A x \in Procs : Gives(x)' =>
          /\ Gives(x) /\ held'[x] = held[x] /\ Unreleased(leases'[held[x]])
    BY <1>1, <1>2 DEF Allowed, Gives
  <2>2. \A r \in Runs : Keeps(r)' => Keeps(r) \/ \A x \in Procs : ~Gives(x)
    BY <1>1 DEF Allowed, Keeps, Procs
  <2>3. \A r \in Runs : Resting(r) => Resting(r)'
    BY <1>1, <1>2 DEF Resting, Procs
  <2>4. \A x \in Procs : pc'[x] \in Refreshing => pc[x] \in Refreshing
    BY <1>1, <1>2 DEF Allowed, Refreshing
  <2>5. \A x, y \in Procs : x # y /\ Gives(x)' => ~Gives(y)'
    BY <2>1 DEF SerialInv, GiveInv
  <2>6. \A x \in Procs : Gives(x)' => Unreleased(leases'[held'[x]])
    BY <2>1
  <2>7. \A x \in Procs, r \in Runs : Gives(x)' =>
          ~Keeps(r)' /\ (x # r => ~(turn'[r] = "rejected" /\ ~Resting(r)'))
    BY <1>1, <2>1, <2>2, <2>3 DEF SerialInv, GiveInv
  <2>8. \A x, y \in Procs : pc'[x] \in Refreshing /\ Gives(y)' => turn'[target'[x]] = "none"
    BY <1>1, <2>1, <2>4 DEF SerialInv, GiveInv
  <2>9. QED BY <2>5, <2>6, <2>7, <2>8 DEF GiveInv, Unreleased
<1>6. QED BY <1>3, <1>4, <1>5

\* When p restores, no run is running and nobody else keeps or gives back a preset.
Clear(p) ==
  /\ \A r \in Runs : status'[r] # "running" /\ turn'[r] # "working"
  /\ active' = None /\ preset' = preset /\ target' = target
  /\ \A x \in Procs : x # p => ~Gives(x)
  /\ \A x \in Procs : x # p /\ pc[x] \in Refreshing =>
       turn'[target[x]] = "none" /\ turn[target[x]] = "none"
  /\ \A r \in Runs : r # p =>
       /\ ~Begun(r) /\ pc[r] \notin {"savingRun", "prompting"}
       /\ turn'[r] = turn[r] /\ (turn[r] = "rejected" => Resting(r))
  /\ p \in Runs => ~Resting(p) /\ (turn'[p] = "rejected" => status'[p] = "over")

\* restoreSession(), when nobody needs the preset that is in force.
LEMMA RestoreSerial ==
  ASSUME LeaseInv, SerialInv, NEW p \in Procs, NEW owner, NEW then \in {"end", "save"}, NEW q,
         Restore(p, owner, then, q), Written(p, q), Clear(p), status' \in [Runs -> Statuses]
  PROVE  SerialInv'
<1> USE PermissionLeasesAssumption
<1>1. /\ Moves(p, q) /\ MemoryOK
      /\ \/ leases' = leases /\ held' = held /\ Ended(p)
         \/ \E h \in Runs : Takes(p, owner, h)
  BY RestoreIs
<1>2. AllStatuses' \subseteq AllStatuses \cup {status'} BY <1>1, SerialFlow DEF SerialInv
<1>3. \A x \in Procs : x # p => pc'[x] = pc[x] /\ held'[x] = held[x]
  BY <1>1 DEF Ended, Takes, LeaseInv, TypeOK
<1>4. /\ pc'[p] \in {"idle", "done", "savingFinal", "savingRestoring"}
      /\ p \in Runs => pc'[p] # "idle"
      /\ pc'[p] = "savingRestoring" => Unreleased(leases'[held'[p]])
  <2>1. CASE Ended(p) BY <2>1 DEF Ended, LeaseInv, TypeOK, Procs
  <2>2. ASSUME NEW h \in Runs, Takes(p, owner, h)
        PROVE  pc'[p] = "savingRestoring" /\ Unreleased(leases'[held'[p]])
    BY <2>2 DEF Takes, LeaseInv, TypeOK, Lease, Unreleased
  <2>3. QED BY <1>1, <2>1, <2>2
<1>5. /\ \A r \in Runs : status'[r] # "running" /\ turn'[r] # "working"
      /\ active' = None /\ preset' = preset /\ target' = target
  BY DEF Clear
<1>6. \A r \in Runs : ~Begun(r)' /\ pc'[r] \notin {"savingRun", "prompting"} /\ ~Keeps(r)'
  <2>1. /\ p \in Runs => ~Begun(p)' /\ pc'[p] \notin {"savingRun", "prompting"}
        /\ \A r \in Runs : r # p => ~Begun(r)' /\ pc'[r] \notin {"savingRun", "prompting"}
    BY <1>3, <1>4 DEF Clear, Begun, BeforeRun, BeforeLease, WithLease, Procs
  <2>2. \A r \in Runs : Keeps(r)' => turn'[r] = "working" \/ Begun(r)' \/ pc'[r] \in {"savingRun", "prompting"}
    BY DEF Keeps, Begun, BeforeRun, BeforeLease, WithLease
  <2>3. QED BY <1>5, <2>1, <2>2
<1>7. SessionInv'
  <2>1. \A l \in AllStatuses' : \A r, s \in Runs : l[r] = "running" /\ l[s] = "running" => r = s
    BY <1>2, <1>5 DEF SerialInv, SessionInv
  <2>2. ASSUME NEW r \in Runs, turn'[r] # "none", pc'[r] \in BeforeRun PROVE FALSE
    <3>1. r # p BY <1>4, <2>2 DEF BeforeRun, BeforeLease, WithLease
    <3>2. turn[r] # "none" /\ pc[r] \in BeforeRun BY <1>3, <2>2, <3>1 DEF Clear, Procs
    <3>3. QED BY <3>2 DEF SerialInv, SessionInv
  <2>3. \A r \in Runs : turn'[r] = "rejected" /\ ~Resting(r)' => status'[r] = "over"
    BY <1>3 DEF Clear, Resting, Procs
  <2>4. QED BY <1>5, <1>6, <2>1, <2>2, <2>3 DEF SessionInv
<1>8. RefreshInv'
  <2>1. \A x \in Procs : pc'[x] \in Refreshing => x # p /\ pc[x] \in Refreshing
    BY <1>3, <1>4 DEF Refreshing
  <2>2. \A x \in Procs : pc'[x] # "listed"
    BY <1>3, <1>4 DEF Clear, SerialInv, RefreshInv, Refreshing
  <2>3. QED BY <1>5, <2>1, <2>2 DEF Clear, SerialInv, RefreshInv
<1>9. GiveInv'
  <2>1. \A x \in Procs : Gives(x)' => x = p /\ pc'[p] = "savingRestoring"
    BY <1>3, <1>4 DEF Clear, Gives
  <2>2. \A r \in Runs : p # r => ~(turn'[r] = "rejected" /\ ~Resting(r)')
    BY <1>3 DEF Clear, Resting, Procs
  <2>3. \A x \in Procs : pc'[x] \in Refreshing => turn'[target'[x]] = "none"
    BY <1>3, <1>4 DEF Clear, Refreshing
  <2>4. QED BY <1>4, <1>6, <2>1, <2>2, <2>3 DEF GiveInv, Unreleased
<1>10. PresetInv'
  <2>1. \A r \in Runs : pc'[r] \notin {"savingAcquired", "baseline", "savingRun", "prompting", "read"}
    BY <1>6 DEF Keeps, WithLease
  <2>2. QED BY <1>5, <2>1 DEF PresetInv
<1>11. QED BY <1>7, <1>8, <1>9, <1>10 DEF SerialInv

\* A step that writes what it must, and moves nothing but its call.
LEMMA StillIs ==
  ASSUME LeaseInv, SerialInv, NEW p \in Procs, NEW point, NEW q,
         Written(p, q), Moves(p, q), MemoryOK, pc' = [pc EXCEPT ![p] = point],
         status' = status, turn' = turn, active' = active, target' = target
  PROVE  Still(p, point)
<1>1. /\ AllStatuses' \subseteq AllStatuses \cup {status'}
      /\ \A r \in Runs : r # p /\ pc[r] = "savingRun" /\ status'[r] = "running" => RunQueued(r)'
  BY SerialFlow DEF SerialInv
<1>2. status \in AllStatuses BY DEF AllStatuses
<1>3. \A r \in Runs : r # p /\ pc[r] = "savingRun" => RunQueued(r)'
  BY <1>1 DEF SerialInv, SessionInv
<1>4. QED BY <1>1, <1>2, <1>3 DEF Still, LeaseInv, TypeOK

\* Such a step keeps the preset that is in force for a run.
LEMMA PresetStill ==
  ASSUME SerialInv, NEW p \in Procs, NEW point, Still(p, point), preset' = preset,
         \A x \in Procs : x # p => seen'[x] = seen[x],
         p \in Runs /\ point \in {"savingAcquired", "baseline", "savingRun", "prompting"} => preset = Grant[p],
         p \in Runs /\ point = "read" => seen'[p] = preset
  PROVE  PresetInv'
BY DEF SerialInv, PresetInv, Still, Procs

\* A start asks for the preset, and prepares its lease.
LEMMA StartMovesSerial ==
  ASSUME LeaseInv, SerialInv, NEW r \in Runs,
         \/ Check(r) /\ ActiveLease = None
         \/ HostReads(r) \/ Prepare(r)
  PROVE  SerialInv'
<1> USE PermissionLeasesAssumption
<1>0. r \in Procs BY DEF Procs
<1>1. CASE Check(r) /\ ActiveLease = None
  <2>1. /\ pc[r] = "checking" /\ Goto(r, "reading") /\ queue' = queue /\ file' = file
        /\ leases' = leases /\ status' = status /\ active' = active /\ turn' = turn /\ target' = target
        /\ preset' = preset /\ held' = held /\ seen' = seen
    BY <1>1 DEF Check, host
  <2>2. Written(r, queue) /\ Moves(r, queue) /\ MemoryOK
    BY <1>0, <2>1, GotoStep DEF Points, Saving, LeaseInv, TypeOK
  <2>3. Still(r, "reading") BY <1>0, <2>1, <2>2, StillIs DEF Goto
  <2>4. \A x \in Procs : ~Gives(x)
    <3>1. \A x \in Runs : ~Unreleased(leases[x]) BY <1>1, ActiveLeaseIs
    <3>2. \A x \in Procs : Gives(x) => held[x] \in Runs
      BY DEF LeaseInv, CallsInv, Gives, Restoring
    <3>3. QED BY <3>1, <3>2 DEF SerialInv, GiveInv
  <2>5. Allowed(r, "reading")
    BY <2>1, <2>3, <2>4 DEF Allowed, Still, Begun, Resting, BeforeRun, BeforeLease
  <2>6. PresetInv' BY <1>0, <2>1, <2>3, PresetStill
  <2>7. QED BY <1>0, <2>3, <2>5, <2>6, StillSerial DEF SerialInv
<1>2. CASE HostReads(r)
  <2>1. /\ pc[r] = "reading" /\ Goto(r, "read") /\ queue' = queue /\ file' = file
        /\ leases' = leases /\ status' = status /\ active' = active /\ turn' = turn /\ target' = target
        /\ preset' = preset /\ held' = held /\ seen' = [seen EXCEPT ![r] = preset]
    BY <1>2 DEF HostReads, host, memory, disk
  <2>2. Written(r, queue) /\ Moves(r, queue) /\ MemoryOK
    BY <1>0, <2>1, GotoStep DEF Points, Saving, LeaseInv, TypeOK
  <2>3. Still(r, "read") BY <1>0, <2>1, <2>2, StillIs DEF Goto
  <2>4. Allowed(r, "read")
    BY <2>1, <2>3 DEF Allowed, Still, Begun, Keeps, Resting, BeforeRun, BeforeLease, SerialInv, GiveInv
  <2>5. seen'[r] = preset /\ \A x \in Procs : x # r => seen'[x] = seen[x]
    BY <1>0, <2>1 DEF LeaseInv, TypeOK
  <2>6. PresetInv' BY <1>0, <2>1, <2>3, <2>5, PresetStill
  <2>7. QED BY <1>0, <2>3, <2>4, <2>6, StillSerial DEF SerialInv
<1>3. CASE Prepare(r) /\ seen[r] = Grant[r]
  <2>1. /\ pc[r] = "read" /\ Goto(r, "baseline") /\ queue' = queue /\ file' = file
        /\ leases' = leases /\ status' = status /\ active' = active /\ turn' = turn /\ target' = target
        /\ preset' = preset /\ held' = held /\ seen' = seen
    BY <1>3 DEF Prepare, host
  <2>2. Written(r, queue) /\ Moves(r, queue) /\ MemoryOK
    BY <1>0, <2>1, GotoStep DEF Points, Saving, LeaseInv, TypeOK
  <2>3. Still(r, "baseline") BY <1>0, <2>1, <2>2, StillIs DEF Goto
  <2>4. Allowed(r, "baseline")
    BY <2>1, <2>3 DEF Allowed, Still, Begun, Keeps, Resting, BeforeRun, BeforeLease, SerialInv, GiveInv
  <2>5. preset = Grant[r] BY <1>3, <2>1 DEF SerialInv, PresetInv
  <2>6. PresetInv' BY <1>0, <2>1, <2>3, <2>5, PresetStill
  <2>7. QED BY <1>0, <2>3, <2>4, <2>6, StillSerial DEF SerialInv
<1>4. CASE Prepare(r) /\ seen[r] # Grant[r]
  <2>1. /\ pc[r] = "read" /\ Save(r, "savingPrepared", queue) /\ file' = file
        /\ leases' = [leases EXCEPT ![r] = [prev |-> seen[r], state |-> "prepared"]]
        /\ status' = status /\ active' = active /\ turn' = turn /\ target' = target
        /\ preset' = preset /\ seen' = seen
    BY <1>4 DEF Prepare, PrepareLease, host
  <2>2. Moves(r, queue) /\ pc' = [pc EXCEPT ![r] = "savingPrepared"] BY <2>1, SaveStep DEF Saving
  <2>3. Written(r, queue) /\ MemoryOK
    BY <1>0, <2>1 DEF Written, Saving, MemoryOK, LeaseInv, TypeOK, Lease, LeaseStates
  <2>4. Still(r, "savingPrepared") BY <1>0, <2>1, <2>2, <2>3, StillIs
  <2>5. \A x \in Procs : ~Gives(x) BY <2>1 DEF SerialInv, GiveInv, Keeps
  <2>6. Allowed(r, "savingPrepared")
    BY <2>1, <2>4, <2>5 DEF Allowed, Still, Begun, Resting, BeforeRun, BeforeLease, WithLease
  <2>7. PresetInv' BY <1>0, <2>1, <2>4, PresetStill
  <2>8. QED BY <1>0, <2>4, <2>6, <2>7, StillSerial DEF SerialInv
<1>5. QED BY <1>1, <1>2, <1>3, <1>4

\* No two starts are under way, and a start that has begun has the session.
LEMMA BegunIs ==
  ASSUME LeaseInv, SerialInv, NEW r \in Runs, Begun(r)
  PROVE  /\ status[r] = "none" /\ turn[r] = "none" /\ active = r
         /\ \A s \in Runs : status[s] # "running" /\ turn[s] # "working"
         /\ \A s \in Runs : s # r => Resting(s)
<1> USE PermissionLeasesAssumption
<1>1. status \in AllStatuses BY DEF AllStatuses
<1>2. ~Resting(r) /\ pc[r] \in BeforeRun BY DEF Begun, Resting, BeforeRun, BeforeLease, WithLease
<1>3. status[r] = "none" BY <1>2, WhoIs
<1>4. active = r BY DEF SerialInv, SessionInv
<1>5. \A s \in Runs : status[s] # "running" BY <1>3, <1>4 DEF SerialInv, SessionInv
<1>6. QED BY <1>1, <1>2, <1>3, <1>4, <1>5 DEF SerialInv, SessionInv, LeaseInv, CallsInv

\* A start takes the session, which nobody has.
LEMMA BeginSerial ==
  ASSUME LeaseInv, SerialInv, NEW r \in Runs, Begin(r)
  PROVE  SerialInv'
<1> USE PermissionLeasesAssumption
<1>0. r \in Procs BY DEF Procs
<1>1. /\ pc[r] = "idle" /\ active = None /\ active' = r
      /\ pc'[r] = "checking" /\ \A x \in Procs : x # r => pc'[x] = pc[x]
      /\ \A x \in Runs : x # r => Resting(x)
      /\ queue' = queue /\ file' = file /\ status' = status /\ turn' = turn /\ target' = target
      /\ leases' = leases /\ preset' = preset /\ held' = held /\ seen' = seen
  BY <1>0 DEF Begin, Goto, host, disk, LeaseInv, TypeOK
<1>2. AllStatuses' = AllStatuses BY <1>1 DEF AllStatuses
<1>3. \A x \in Runs : status[x] # "running" /\ ~Begun(x)
  BY <1>1 DEF SerialInv, SessionInv
<1>4. turn[r] = "none" BY <1>1 DEF SerialInv, SessionInv, BeforeRun, BeforeLease
<1>5. SessionInv'
  <2>1. Begun(r)' /\ \A x \in Runs : x # r => ~Begun(x)'
    BY <1>1, <1>3 DEF Begun, BeforeRun, BeforeLease, Procs
  <2>2. \A x \in Runs : x # r => pc'[x] \notin {"savingRun", "prompting"} /\ Resting(x)'
    BY <1>1 DEF Resting, Procs
  <2>3. \A x \in Runs : turn'[x] # "none" => x # r /\ pc'[x] = pc[x] BY <1>1, <1>4 DEF Procs
  <2>4. QED
    BY <1>1, <1>2, <1>3, <1>4, <2>1, <2>2, <2>3 DEF SerialInv, SessionInv
<1>6. RefreshInv'
  <2>1. \A x \in Procs : pc'[x] \in Refreshing => x # r /\ pc'[x] = pc[x] BY <1>1 DEF Refreshing
  <2>2. \A x \in Procs : pc'[x] = "listed" => pc[x] = "listed" BY <1>1
  <2>3. QED BY <1>1, <2>1, <2>2 DEF SerialInv, RefreshInv
<1>7. GiveInv'
  <2>1. \A x \in Procs : Gives(x)' => Gives(x) BY <1>1 DEF Gives
  <2>2. \A x \in Runs : Keeps(x)' => Keeps(x) BY <1>1 DEF Keeps, WithLease, Procs
  <2>3. \A x \in Runs : turn'[x] = "rejected" /\ ~Resting(x)' => ~Resting(x)
    BY <1>1, <1>4 DEF Resting, Procs
  <2>4. \A x \in Procs : pc'[x] \in Refreshing => pc[x] \in Refreshing BY <1>1 DEF Refreshing
  <2>5. QED BY <1>1, <2>1, <2>2, <2>3, <2>4 DEF SerialInv, GiveInv, Unreleased
<1>8. PresetInv' BY <1>1 DEF SerialInv, PresetInv, Procs
<1>9. QED BY <1>5, <1>6, <1>7, <1>8 DEF SerialInv

\* The run exists, and a copy that says so joins the queue.
LEMMA BaselineSerial ==
  ASSUME LeaseInv, SerialInv, NEW r \in Runs, Baseline(r)
  PROVE  SerialInv'
<1> USE PermissionLeasesAssumption
<1>0. r \in Procs BY DEF Procs
<1>1. /\ pc[r] = "baseline" /\ Save(r, "savingRun", queue) /\ file' = file
      /\ status' = [status EXCEPT ![r] = "running"]
      /\ leases' = leases /\ active' = active /\ turn' = turn /\ target' = target
      /\ preset' = preset /\ held' = held /\ seen' = seen
  BY DEF Baseline, host
<1>2. /\ status' \in [Runs -> Statuses] /\ status'[r] = "running"
      /\ \A x \in Runs : x # r => status'[x] = status[x]
  BY <1>1 DEF LeaseInv, TypeOK, Statuses
<1>3. Moves(r, queue) /\ pc' = [pc EXCEPT ![r] = "savingRun"] BY <1>1, SaveStep DEF Saving
<1>4. pc'[r] = "savingRun" /\ \A x \in Procs : x # r => pc'[x] = pc[x]
  BY <1>0, <1>3 DEF LeaseInv, TypeOK
<1>5. Written(r, queue) /\ MemoryOK BY <1>1, <1>2 DEF Written, Saving, MemoryOK, LeaseInv, TypeOK
<1>6. AllStatuses' \subseteq AllStatuses \cup {status'} BY <1>0, <1>3, <1>5, SerialFlow DEF SerialInv
<1>7. Begun(r) BY <1>1 DEF Begun, BeforeRun, BeforeLease
<1>8. /\ turn[r] = "none" /\ active = r
      /\ \A x \in Runs : status[x] # "running" /\ turn[x] # "working"
      /\ \A x \in Runs : x # r => Resting(x)
  BY <1>7, BegunIs
<1>9. RunQueued(r)'
  <2>1. ASSUME NEW n \in 1..Len(queue'), queue'[n].by = r, NEW m \in n..Len(queue')
        PROVE  queue'[m].status[r] = "running"
    <3>1. PICK k \in {0, 1} : \A i \in 1..Len(queue') :
             \/ /\ i = Len(queue') /\ queue'[i].by = r
                /\ queue'[i].leases = leases' /\ queue'[i].status = status'
             \/ i + k \in 1..Len(queue) /\ queue'[i] = queue[i + k]
      BY <1>0, <1>3, <1>5, QueueShape
    <3>2. \A i \in 1..Len(queue) : queue[i].by # r BY <1>1 DEF LeaseInv, QueueInv, Saving
    <3>3. n = Len(queue') /\ queue'[n].status = status' BY <2>1, <3>1, <3>2
    <3>4. m = n BY <3>3
    <3>5. QED BY <1>2, <3>3, <3>4
  <2>2. QED BY <2>1 DEF RunQueued
<1>10. SessionInv'
  <2>1. \A x \in Runs : ~Begun(x)'
    BY <1>4, <1>8 DEF Begun, Resting, BeforeRun, BeforeLease, WithLease, Procs
  <2>2. \A x \in Runs : x # r => pc'[x] \notin {"savingRun", "prompting"} /\ Resting(x)'
    BY <1>4, <1>8 DEF Resting, Procs
  <2>3. \A x \in Runs : turn'[x] # "none" => x # r /\ pc'[x] = pc[x] BY <1>1, <1>4, <1>8 DEF Procs
  <2>4. \A l \in AllStatuses' : \A x, y \in Runs : l[x] = "running" /\ l[y] = "running" => x = y
    BY <1>2, <1>6, <1>8 DEF SerialInv, SessionInv
  <2>5. QED
    BY <1>1, <1>2, <1>4, <1>8, <1>9, <2>1, <2>2, <2>3, <2>4 DEF SerialInv, SessionInv
<1>11. RefreshInv'
  <2>1. \A x \in Procs : pc'[x] \in Refreshing => x # r /\ pc'[x] = pc[x] BY <1>4 DEF Refreshing
  <2>2. \A x \in Procs : pc'[x] = "listed" => pc[x] = "listed" BY <1>4
  <2>3. \A x \in Procs : pc'[x] \in Refreshing => target[x] \in Runs
    BY <2>1 DEF LeaseInv, CallsInv
  <2>4. \A x \in Runs : status[x] # "running" BY <1>8
  <2>5. QED BY <1>1, <2>1, <2>2, <2>3, <2>4 DEF SerialInv, RefreshInv
<1>12. GiveInv'
  <2>1. \A x \in Procs : ~Gives(x)' BY <1>1, <1>4 DEF Gives, SerialInv, GiveInv, Keeps
  <2>2. QED BY <2>1 DEF GiveInv
<1>13. PresetInv' BY <1>1, <1>4 DEF SerialInv, PresetInv, Procs
<1>14. QED BY <1>10, <1>11, <1>12, <1>13 DEF SerialInv

\* The prompt is sent while nobody refreshes or restores.
LEMMA SendPromptSerial ==
  ASSUME LeaseInv, SerialInv, ~Overlap, NEW r \in Runs, SendPrompt(r)
  PROVE  SerialInv'
<1> USE PermissionLeasesAssumption
<1>0. r \in Procs BY DEF Procs
<1>1. /\ pc[r] = "prompting" /\ Alone(r)
      /\ pc'[r] = "listing" /\ \A x \in Procs : x # r => pc'[x] = pc[x]
      /\ turn'[r] \in {"working", "lost"} /\ \A x \in Runs : x # r => turn'[x] = turn[x]
      /\ target'[r] = r /\ \A x \in Procs : x # r => target'[x] = target[x]
      /\ queue' = queue /\ file' = file /\ leases' = leases /\ status' = status /\ active' = active
      /\ preset' = preset /\ held' = held /\ seen' = seen
  BY <1>0 DEF SendPrompt, memory, disk, LeaseInv, TypeOK, Goto
<1>2. AllStatuses' = AllStatuses /\ status \in AllStatuses BY <1>1 DEF AllStatuses
<1>3. /\ \A x \in Runs : x # r => Resting(x)
      /\ \A l \in AllStatuses : l[r] = "running"
  BY <1>1 DEF LeaseInv, CallsInv, SerialInv, SessionInv, Resting
<1>4. SessionInv'
  <2>1. \A x \in Runs : Begun(x)' <=> Begun(x)
    BY <1>0, <1>1 DEF Begun, BeforeRun, BeforeLease, WithLease, Procs
  <2>2. \A x \in Runs : x # r => pc'[x] \notin {"savingRun", "prompting"} /\ Resting(x)'
    BY <1>1, <1>3 DEF Resting, Procs
  <2>3. pc'[r] \notin BeforeRun \cup {"savingRun", "prompting"}
    BY <1>1 DEF BeforeRun, BeforeLease, WithLease
  <2>4. \A x \in Runs : x # r => status[x] # "running"
    BY <1>2, <1>3 DEF SerialInv, SessionInv
  <2>5. \A x \in Runs : turn'[x] # "none" => pc'[x] \notin BeforeRun \cup {"savingRun", "prompting"}
    BY <1>1, <2>2, <2>3 DEF SerialInv, SessionInv, Procs
  <2>6. QED
    BY <1>1, <1>2, <1>3, <2>1, <2>2, <2>3, <2>4, <2>5 DEF SerialInv, SessionInv
<1>5. RefreshInv'
  <2>1. \A x \in Procs : pc'[x] \in Refreshing => x = r BY <1>1 DEF Alone
  <2>2. ASSUME NEW x \in Runs, x # r PROVE turn[x] # "working"
    <3>1. status[x] # "running" BY <1>2, <1>3, <2>2 DEF SerialInv, SessionInv
    <3>2. QED BY <1>2, <3>1 DEF SerialInv, SessionInv
  <2>3. /\ \A p, s \in Procs : p # s /\ pc'[p] \in Refreshing => pc'[s] \notin Refreshing
        /\ \A p \in Procs : pc'[p] \in Refreshing => status'[target'[p]] = "running"
        /\ \A p \in Procs : pc'[p] # "listed"
    BY <1>1, <1>2, <1>3, <2>1 DEF Refreshing
  <2>4. \A p \in Procs, s \in Runs : pc'[p] \in Refreshing /\ turn'[s] = "working" => target'[p] = s
    BY <1>1, <2>1, <2>2
  <2>5. QED BY <2>3, <2>4 DEF RefreshInv
<1>6. GiveInv'
  <2>1. \A x \in Procs : ~Gives(x)' BY <1>1 DEF Gives, SerialInv, GiveInv, Keeps
  <2>2. QED BY <2>1 DEF GiveInv
<1>7. PresetInv' BY <1>1 DEF SerialInv, PresetInv, Procs
<1>8. QED BY <1>4, <1>5, <1>6, <1>7 DEF SerialInv

\* A turn ends.
LEMMA TurnEndsSerial ==
  ASSUME LeaseInv, SerialInv, NEW r \in Runs, TurnEnds(r)
  PROVE  SerialInv'
<1>1. /\ turn[r] = "working" /\ turn'[r] = "ended" /\ \A x \in Runs : x # r => turn'[x] = turn[x]
      /\ UNCHANGED <<preset, memory, disk, calls>>
  BY DEF TurnEnds, LeaseInv, TypeOK
<1>2. AllStatuses' = AllStatuses BY <1>1 DEF AllStatuses, memory, disk
<1>3. SessionInv'
  BY <1>1, <1>2 DEF SerialInv, SessionInv, Begun, Resting, RunQueued, memory, disk, calls
<1>4. RefreshInv'
  <2>1. \A x \in Procs : pc'[x] \in Refreshing => target[x] \in Runs
    BY <1>1 DEF LeaseInv, CallsInv, calls
  <2>2. \A x \in Procs : pc'[x] = "listed" => pc[x] \in Refreshing
    BY <1>1 DEF Refreshing, calls
  <2>3. QED BY <1>1, <2>1, <2>2 DEF LeaseInv, CallsInv, SerialInv, RefreshInv, memory, calls
<1>5. GiveInv'
  <2>1. \A x \in Runs : Keeps(x)' => Keeps(x) BY <1>1 DEF Keeps, calls
  <2>2. \A x \in Procs : pc'[x] \in Refreshing => target[x] \in Runs
    BY <1>1 DEF LeaseInv, CallsInv, calls
  <2>3. QED BY <1>1, <2>1, <2>2 DEF SerialInv, GiveInv, Gives, Unreleased, Resting, memory, calls
<1>6. PresetInv' BY <1>1 DEF SerialInv, PresetInv, calls
<1>7. QED BY <1>3, <1>4, <1>5, <1>6 DEF SerialInv

\* A start that has no lease gives nothing back.
LEMMA SetUpSerial ==
  ASSUME LeaseInv, SerialInv, NEW r \in Runs, SetUpFails(r) \/ (Check(r) /\ ActiveLease # None)
  PROVE  SerialInv'
<1> USE PermissionLeasesAssumption
<1>0. r \in Procs BY DEF Procs
<1>1. /\ pc[r] \in {"checking", "reading"} /\ Catch(r, queue) /\ file' = file
      /\ turn' = turn /\ target' = target /\ preset' = preset /\ seen' = seen
  BY DEF SetUpFails, Check, host
<1>2. Begun(r) /\ leases[r].state = "none"
  <2>1. leases \in AllLeases BY DEF AllLeases
  <2>2. QED BY <1>1, <2>1 DEF Begun, LeaseInv, StartsInv, BeforeRun, BeforeLease
<1>3. /\ status[r] = "none" /\ turn[r] = "none"
      /\ \A s \in Runs : status[s] # "running" /\ turn[s] # "working"
      /\ \A s \in Runs : s # r => Resting(s)
  BY <1>2, BegunIs
<1>4. status' = status /\ active' = None /\ Restore(r, r, "end", queue)
  BY <1>1, <1>3 DEF Catch
<1>5. Written(r, queue) /\ status' \in [Runs -> Statuses]
  BY <1>1, <1>4 DEF Written, Saving, LeaseInv, TypeOK
<1>6. /\ Moves(r, queue) /\ MemoryOK /\ leases' = leases /\ held' = held /\ Ended(r)
  <2>1. /\ Moves(r, queue) /\ MemoryOK
        /\ \/ leases' = leases /\ held' = held /\ Ended(r)
           \/ \E h \in Runs : Takes(r, r, h)
    BY <1>0, <1>4, <1>5, RestoreIs
  <2>2. \A h \in Runs : ~Takes(r, r, h) BY <1>2 DEF Takes, Unreleased
  <2>3. QED BY <2>1, <2>2
<1>7. /\ pc'[r] \in {"done", "savingFinal"}
      /\ \A x \in Procs : x # r => pc'[x] = pc[x]
  BY <1>0, <1>6 DEF Ended, LeaseInv, TypeOK
<1>8. AllStatuses' \subseteq AllStatuses
  <2>1. AllStatuses' \subseteq AllStatuses \cup {status'}
    BY <1>0, <1>5, <1>6, SerialFlow DEF SerialInv
  <2>2. QED BY <1>4, <2>1 DEF AllStatuses
<1>9. SessionInv'
  <2>1. \A x \in Runs : ~Begun(x)' /\ pc'[x] \notin {"savingRun", "prompting"}
    BY <1>3, <1>7 DEF Begun, Resting, BeforeRun, BeforeLease, WithLease, Procs
  <2>2. \A x \in Runs : turn'[x] # "none" => x # r /\ pc'[x] = pc[x] BY <1>1, <1>3, <1>7 DEF Procs
  <2>3. \A x \in Runs : turn'[x] = "rejected" => Resting(x)' BY <1>3, <2>2 DEF Resting
  <2>4. QED BY <1>1, <1>3, <1>4, <1>8, <2>1, <2>2, <2>3 DEF SerialInv, SessionInv
<1>10. RefreshInv'
  <2>1. \A x \in Procs : pc'[x] \in Refreshing => x # r /\ pc'[x] = pc[x] BY <1>7 DEF Refreshing
  <2>2. \A x \in Procs : pc'[x] = "listed" => pc[x] = "listed" BY <1>7
  <2>3. QED BY <1>1, <1>4, <2>1, <2>2 DEF SerialInv, RefreshInv
<1>11. GiveInv'
  <2>1. \A x \in Procs : Gives(x)' => Gives(x) BY <1>7 DEF Gives
  <2>2. \A x \in Runs : Keeps(x)' => Keeps(x) BY <1>1, <1>7 DEF Keeps, WithLease, Procs
  <2>3. \A x \in Runs : turn'[x] = "rejected" /\ ~Resting(x)' => ~Resting(x)
    BY <1>1, <1>3, <1>7 DEF Resting, Procs
  <2>4. \A x \in Procs : pc'[x] \in Refreshing => pc[x] \in Refreshing BY <1>7 DEF Refreshing
  <2>5. QED BY <1>1, <1>6, <2>1, <2>2, <2>3, <2>4 DEF SerialInv, GiveInv, Unreleased
<1>12. PresetInv' BY <1>1, <1>7 DEF SerialInv, PresetInv, Procs
<1>13. QED BY <1>9, <1>10, <1>11, <1>12 DEF SerialInv

\* startRun's catch block, with a lease or after a rejection.
LEMMA CatchSerial ==
  ASSUME LeaseInv, SerialInv, NEW r \in Runs, NEW q, Catch(r, q), Written(r, q),
         pc[r] \in WithLease \cup {"baseline"} \/ (turn[r] = "rejected" /\ ~Resting(r)),
         turn' = turn, target' = target, preset' = preset
  PROVE  SerialInv'
<1> USE PermissionLeasesAssumption
<1>0. r \in Procs BY DEF Procs
<1>1. status' = status /\ Restore(r, r, "end", q) /\ status' \in [Runs -> Statuses]
  BY DEF Catch, LeaseInv, TypeOK
<1>2. CASE pc[r] \in WithLease \cup {"baseline"}
  <2>1. Begun(r) /\ ~Resting(r) /\ Keeps(r) BY <1>2 DEF Begun, Resting, Keeps, BeforeRun, BeforeLease, WithLease
  <2>2. /\ status[r] = "none" /\ turn[r] = "none"
        /\ \A s \in Runs : status[s] # "running" /\ turn[s] # "working"
        /\ \A s \in Runs : s # r => Resting(s)
    BY <2>1, BegunIs
  <2>3. active' = None BY <2>2 DEF Catch
  <2>4. \A x \in Procs : ~Gives(x) BY <2>1 DEF SerialInv, GiveInv
  <2>5. \A x \in Procs : x # r /\ pc[x] \in Refreshing => turn[target[x]] = "none"
    BY <2>2 DEF SerialInv, RefreshInv, LeaseInv, CallsInv
  <2>6. \A s \in Runs : s # r => ~Begun(s) /\ pc[s] \notin {"savingRun", "prompting"}
    BY <2>2 DEF Begun, Resting, BeforeRun, BeforeLease, WithLease
  <2>7. Clear(r) BY <1>1, <2>1, <2>2, <2>3, <2>4, <2>5, <2>6 DEF Clear
  <2>8. QED BY <1>0, <1>1, <2>7, RestoreSerial
<1>3. CASE turn[r] = "rejected" /\ ~Resting(r)
  <2>1. status[r] = "over" /\ ~Begun(r) BY <1>3 DEF SerialInv, SessionInv, Begun
  <2>2. \A s \in Runs : s # r => Resting(s) /\ status[s] # "running"
    BY <1>3 DEF SerialInv, SessionInv, LeaseInv, CallsInv
  <2>3. \A s \in Runs : ~Begun(s) /\ status[s] # "running" /\ (s # r => pc[s] \notin {"savingRun", "prompting"})
    BY <2>1, <2>2 DEF Begun, Resting, BeforeRun, BeforeLease, WithLease
  <2>4. active = None BY <2>3 DEF SerialInv, SessionInv, LeaseInv, TypeOK
  <2>5. status \in AllStatuses BY DEF AllStatuses
  <2>6. \A s \in Runs : turn[s] # "working" BY <2>3, <2>5 DEF SerialInv, SessionInv
  <2>7. \A x \in Procs : x # r => ~Gives(x) BY <1>3 DEF SerialInv, GiveInv
  <2>8. \A x \in Procs : x # r /\ pc[x] \in Refreshing => turn[target[x]] = "none"
    BY <2>3 DEF SerialInv, RefreshInv, LeaseInv, CallsInv
  <2>9. active' = None BY <2>1, <2>4 DEF Catch
  <2>10. Clear(r) BY <1>1, <1>3, <2>1, <2>2, <2>3, <2>6, <2>7, <2>8, <2>9 DEF Clear
  <2>11. QED BY <1>0, <1>1, <2>10, RestoreSerial
<1>4. QED BY <1>2, <1>3

\* A run that is running has the session, and all other calls of runs rest.
LEMMA RunningIs ==
  ASSUME LeaseInv, SerialInv, NEW r \in Runs, status[r] = "running"
  PROVE  /\ active = r /\ ~Begun(r)
         /\ \A s \in Runs : s # r =>
              /\ Resting(s) /\ ~Begun(s) /\ status[s] # "running" /\ turn[s] # "working"
              /\ pc[s] \notin {"savingRun", "prompting"}
<1>1. active = r BY DEF SerialInv, SessionInv
<1>2. status \in AllStatuses BY DEF AllStatuses
<1>3. ~Begun(r) BY WhoIs DEF Begun
<1>4. ASSUME NEW s \in Runs, s # r
      PROVE  /\ Resting(s) /\ ~Begun(s) /\ status[s] # "running" /\ turn[s] # "working"
             /\ pc[s] \notin {"savingRun", "prompting"}
  <2>1. Resting(s) BY <1>4 DEF SerialInv, SessionInv
  <2>2. ~Begun(s) /\ status[s] # "running" BY <1>1, <1>4 DEF SerialInv, SessionInv
  <2>3. turn[s] # "working" BY <1>2, <2>2 DEF SerialInv, SessionInv
  <2>4. QED BY <2>1, <2>2, <2>3 DEF Resting
<1>5. QED BY <1>1, <1>3, <1>4

\* RunReconciler.finalize() frees the session, and may take the lease back at once.
LEMMA FinalizeSerial ==
  ASSUME LeaseInv, SerialInv, NEW p \in Procs, NEW r \in Runs, NEW q,
         Finalize(p, r, q), Written(p, q), status[r] = "running",
         p \in Runs => ~Resting(p),
         target' = target, preset' = preset,
         \A s \in Runs : s # r => turn'[s] = turn[s],
         turn'[r] # "working",
         p # r => turn'[r] = turn[r] /\ turn[r] \in {"ended", "lost"},
         \A x \in Procs : x # p => ~Gives(x),
         \A x \in Procs : x # p /\ pc[x] \in Refreshing => turn'[target[x]] = "none" /\ turn[target[x]] = "none"
  PROVE  SerialInv'
<1> USE PermissionLeasesAssumption
<1>1. /\ active = r /\ ~Begun(r)
      /\ \A s \in Runs : s # r =>
           /\ Resting(s) /\ ~Begun(s) /\ status[s] # "running" /\ turn[s] # "working"
           /\ pc[s] \notin {"savingRun", "prompting"}
  BY RunningIs
<1>2. /\ status' = [status EXCEPT ![r] = "over"] /\ active' = None /\ Restore(p, r, "save", q)
  BY DEF Finalize, FreeSession
<1>3. /\ status' \in [Runs -> Statuses] /\ status'[r] = "over"
      /\ \A s \in Runs : s # r => status'[s] = status[s]
  BY <1>2 DEF LeaseInv, TypeOK, Statuses
<1>4. p \in Runs => p = r BY <1>1
<1>5. p # r => pc[r] \notin {"savingRun", "prompting"}
  BY DEF SerialInv, SessionInv
<1>6. \A s \in Runs : status'[s] # "running" /\ turn'[s] # "working"
  BY <1>1, <1>3
<1>7. \A s \in Runs : s # p =>
        /\ ~Begun(s) /\ pc[s] \notin {"savingRun", "prompting"}
        /\ turn'[s] = turn[s] /\ (turn[s] = "rejected" => Resting(s))
  BY <1>1, <1>5
<1>8. Clear(p) BY <1>2, <1>3, <1>4, <1>6, <1>7 DEF Clear
<1>9. QED BY <1>2, <1>3, <1>8, RestoreSerial

\* The Host rejects the prompt.
LEMMA RejectedSerial ==
  ASSUME LeaseInv, SerialInv, ~Overlap, NEW r \in Runs, PromptRejected(r)
  PROVE  SerialInv'
<1>0. r \in Procs BY DEF Procs
<1>1. /\ pc[r] = "prompting" /\ Alone(r) /\ turn' = [turn EXCEPT ![r] = "rejected"]
      /\ Finalize(r, r, queue) /\ preset' = preset /\ file' = file /\ target' = target
  BY DEF PromptRejected
<1>2. /\ turn'[r] = "rejected" /\ \A s \in Runs : s # r => turn'[s] = turn[s]
  BY <1>1 DEF LeaseInv, TypeOK
<1>3. status[r] = "running" /\ ~Resting(r)
  <2>1. status \in AllStatuses BY DEF AllStatuses
  <2>2. QED BY <1>1, <2>1 DEF SerialInv, SessionInv, Resting
<1>4. \A x \in Procs : x # r => ~Gives(x) /\ pc[x] \notin Refreshing
  BY <1>1 DEF Alone, Gives, Restoring
<1>5. Written(r, queue) BY <1>1 DEF Written, Saving
<1>6. QED BY <1>0, <1>1, <1>2, <1>3, <1>4, <1>5, FinalizeSerial

\* The history shows that the run is over.
LEMMA ConcludedSerial ==
  ASSUME LeaseInv, SerialInv, NEW p \in Procs, ReadHistory(p), Concluded(target[p])
  PROVE  SerialInv'
<1>1. /\ pc[p] = "history" /\ Finalize(p, target[p], queue)
      /\ turn' = turn /\ preset' = preset /\ file' = file /\ target' = target
  BY DEF ReadHistory, host
<1>2. pc[p] \in Refreshing BY <1>1 DEF Refreshing
<1>3. target[p] \in Runs /\ turn[target[p]] \in {"ended", "lost"}
  BY <1>2 DEF LeaseInv, CallsInv, Concluded
<1>4. status[target[p]] = "running" BY <1>2, <1>3 DEF SerialInv, RefreshInv
<1>5. \A x \in Procs : ~Gives(x) BY <1>2, <1>3 DEF SerialInv, GiveInv
<1>6. \A x \in Procs : x # p => pc[x] \notin Refreshing BY <1>2 DEF SerialInv, RefreshInv
<1>7. Written(p, queue) /\ ~Resting(p) BY <1>1 DEF Written, Saving, Resting
<1>8. QED BY <1>1, <1>3, <1>4, <1>5, <1>6, <1>7, FinalizeSerial

\* The run could not be saved: it is concluded before its prompt is sent.
LEMMA UnsavedSerial ==
  ASSUME LeaseInv, SerialInv, NEW p \in Runs, NEW q, pc[p] = "savingRun", Finalize(p, p, q), Written(p, q),
         turn' = turn, target' = target, preset' = preset
  PROVE  SerialInv'
<1>0. p \in Procs BY DEF Procs
<1>1. status[p] = "running" /\ turn[p] = "none" /\ ~Resting(p) BY DEF SerialInv, SessionInv, Resting
<1>2. \A s \in Runs : s # p => status[s] # "running" BY <1>1, RunningIs
<1>3. \A x \in Procs : ~Gives(x) BY DEF SerialInv, GiveInv, Keeps
<1>4. \A x \in Procs : pc[x] \in Refreshing => target[x] \in Runs /\ turn[target[x]] = "none"
  BY <1>1, <1>2 DEF SerialInv, RefreshInv, LeaseInv, CallsInv
<1>5. QED BY <1>0, <1>1, <1>3, <1>4, FinalizeSerial

\* A poll begins while nobody else refreshes or restores.
LEMMA PollSerial ==
  ASSUME LeaseInv, SerialInv, ~Overlap, NEW c \in Callers, NEW r \in Runs, Poll(c, r)
  PROVE  SerialInv'
<1> USE PermissionLeasesAssumption
<1>0. c \in Procs /\ c \notin Runs BY DEF Procs
<1>1. /\ pc[c] = "idle" /\ Alone(c) /\ status[r] = "running"
      /\ pc'[c] = "listing" /\ \A x \in Procs : x # c => pc'[x] = pc[x]
      /\ target'[c] = r /\ \A x \in Procs : x # c => target'[x] = target[x]
      /\ turn' = turn /\ queue' = queue /\ file' = file /\ leases' = leases /\ status' = status
      /\ active' = active /\ preset' = preset /\ held' = held /\ seen' = seen
  BY <1>0 DEF Poll, host, memory, disk, LeaseInv, TypeOK, Goto
<1>2. AllStatuses' = AllStatuses BY <1>1 DEF AllStatuses
<1>3. \A x \in Runs : pc'[x] = pc[x] BY <1>0, <1>1 DEF Procs
<1>4. SessionInv'
  <2>1. \A x \in Runs : (Begun(x)' <=> Begun(x)) /\ (Resting(x)' <=> Resting(x)) /\ (RunQueued(x)' <=> RunQueued(x))
    BY <1>1, <1>3 DEF Begun, Resting, RunQueued
  <2>2. QED BY <1>1, <1>2, <1>3, <2>1 DEF SerialInv, SessionInv
<1>5. RefreshInv'
  <2>1. \A x \in Procs : pc'[x] \in Refreshing => x = c BY <1>1 DEF Alone
  <2>2. \A x \in Runs : x # r => turn[x] # "working" BY <1>1, RunningIs
  <2>3. \A x \in Procs : pc'[x] # "listed" BY <1>1, <2>1 DEF Refreshing
  <2>4. QED BY <1>1, <2>1, <2>2, <2>3 DEF RefreshInv
<1>6. GiveInv'
  <2>1. \A x \in Procs : ~Gives(x)' BY <1>1 DEF Gives, Alone, Restoring
  <2>2. QED BY <2>1 DEF GiveInv
<1>7. PresetInv' BY <1>1, <1>3 DEF SerialInv, PresetInv
<1>8. QED BY <1>4, <1>5, <1>6, <1>7 DEF SerialInv

\* A refresh goes on, and the session is its run's already.
LEMMA RefreshSerial ==
  ASSUME LeaseInv, SerialInv, NEW p \in Procs,
         \/ HostLists(p) \/ ListedRunning(p) \/ RefreshFails(p)
         \/ ReadHistory(p) /\ ~Concluded(target[p])
  PROVE  SerialInv'
<1> USE PermissionLeasesAssumption
<1>1. /\ pc[p] \in {"listing", "listed", "history"}
      /\ status' = status /\ turn' = turn /\ target' = target /\ leases' = leases
      /\ preset' = preset /\ held' = held /\ seen' = seen
  BY DEF HostLists, ListedRunning, RefreshFails, ReadHistory, host, memory
<1>2. pc[p] \in Refreshing /\ ~Resting(p) /\ ~Begun(p)
  BY <1>1 DEF Refreshing, Resting, Begun, BeforeRun, BeforeLease, WithLease
<1>3. target[p] \in Runs BY <1>2 DEF LeaseInv, CallsInv
<1>4. active' = active
  <2>1. CASE ListedRunning(p)
    <3>1. active' = target[p] /\ turn[target[p]] # "none"
      BY <2>1 DEF ListedRunning, SerialInv, RefreshInv
    <3>2. status[target[p]] = "running" BY <1>2, <3>1 DEF SerialInv, RefreshInv
    <3>3. QED BY <1>3, <3>1, <3>2, RunningIs
  <2>2. QED BY <2>1 DEF HostLists, RefreshFails, ReadHistory, memory
<1>5. \E point \in {"listed", "history", "savingFinal", "done", "idle"} :
        /\ Moves(p, queue) /\ pc' = [pc EXCEPT ![p] = point]
        /\ point = "listed" => pc[p] = "listing" /\ Running
        /\ point = "history" => pc[p] \in {"listing", "listed"}
        /\ point = "idle" => p \notin Runs
  <2>1. CASE HostLists(p)
    <3> DEFINE point == IF Running THEN "listed" ELSE "history"
    <3>1. Goto(p, point) /\ queue' = queue /\ pc[p] = "listing" BY <2>1 DEF HostLists, disk
    <3>2. Moves(p, queue) /\ pc' = [pc EXCEPT ![p] = point]
      BY <3>1 DEF Moves, Goto, Points, Refreshing
    <3>3. QED BY <3>1, <3>2
  <2>2. CASE ListedRunning(p)
    <3>1. Goto(p, "history") /\ queue' = queue /\ pc[p] = "listed" BY <2>2 DEF ListedRunning, disk
    <3>2. Moves(p, queue) /\ pc' = [pc EXCEPT ![p] = "history"]
      BY <3>1 DEF Moves, Goto, Points, Refreshing
    <3>3. QED BY <3>1, <3>2
  <2>3. CASE RefreshFails(p)
    <3> DEFINE point == IF p \in Runs THEN "done" ELSE "idle"
    <3>1. Continue(p, point, queue) BY <2>3 DEF RefreshFails, Rest
    <3>2. Moves(p, queue) /\ pc' = [pc EXCEPT ![p] = point] BY <3>1, ContinueStep DEF Points
    <3>3. QED BY <3>2
  <2>4. CASE ReadHistory(p) /\ ~Concluded(target[p])
    <3>1. Save(p, "savingFinal", queue) BY <2>4 DEF ReadHistory
    <3>2. QED BY <3>1, SaveStep DEF Saving
  <2>5. QED BY <2>1, <2>2, <2>3, <2>4
<1>6. PICK point \in {"listed", "history", "savingFinal", "done", "idle"} :
        /\ Moves(p, queue) /\ pc' = [pc EXCEPT ![p] = point]
        /\ point = "listed" => pc[p] = "listing" /\ Running
        /\ point = "history" => pc[p] \in {"listing", "listed"}
        /\ point = "idle" => p \notin Runs
  BY <1>5
<1>7. Written(p, queue) /\ MemoryOK
  BY <1>1 DEF HostLists, ListedRunning, RefreshFails, ReadHistory, disk, Written, Saving, MemoryOK, LeaseInv, TypeOK
<1>8. Still(p, point) BY <1>1, <1>4, <1>6, <1>7, StillIs
<1>9. Allowed(p, point)
  <2>1. Running => turn[target[p]] = "working" BY <1>2 DEF Running, SerialInv, RefreshInv
  <2>2. p \in Runs => ~Begun(p)' BY <1>6, <1>8 DEF Still, Begun, BeforeRun, BeforeLease, WithLease
  <2>3. p \in Runs => (Keeps(p)' => Keeps(p)) BY <1>1, <1>6, <1>8 DEF Still, Keeps, WithLease
  <2>4. \A x \in Procs : Gives(x) => held'[x] = held[x] /\ Unreleased(leases'[held[x]])
    BY <1>1 DEF SerialInv, GiveInv
  <2>5. QED BY <1>2, <1>6, <2>1, <2>2, <2>3, <2>4 DEF Allowed
<1>10. PresetInv' BY <1>1, <1>6, <1>8, PresetStill
<1>11. QED BY <1>8, <1>9, <1>10, StillSerial DEF SerialInv

\* reconcile_permissions, when no other call is under way and no run is at work.
LEMMA ReconcileSerial ==
  ASSUME LeaseInv, SerialInv, ~AtWork, NEW c \in Callers, ReconcilePermissions(c)
  PROVE  SerialInv'
<1> USE PermissionLeasesAssumption
<1>0. c \in Procs /\ c \notin Runs BY DEF Procs
<1>1. /\ pc[c] = "idle" /\ Quiet(c) /\ Restore(c, None, "end", queue)
      /\ preset' = preset /\ turn' = turn /\ status' = status /\ active' = active
      /\ file' = file /\ target' = target /\ seen' = seen
  BY DEF ReconcilePermissions, host
<1>2. Written(c, queue) /\ status' \in [Runs -> Statuses]
  BY <1>1 DEF Written, Saving, LeaseInv, TypeOK
<1>3. /\ Moves(c, queue) /\ MemoryOK
      /\ \/ leases' = leases /\ held' = held /\ Ended(c)
         \/ \E h \in Runs : Takes(c, None, h)
  BY <1>0, <1>1, <1>2, RestoreIs
<1>4. /\ \A x \in Procs : x # c => pc'[x] = pc[x] /\ held'[x] = held[x] /\ Resting(x)
      /\ \A r \in Runs : turn[r] # "working" /\ Resting(r) /\ pc'[r] = pc[r]
  BY <1>0, <1>1, <1>3 DEF Ended, Takes, Quiet, LeaseInv, TypeOK, Procs
<1>5. /\ pc'[c] \in {"idle", "done", "savingFinal", "savingRestoring"}
      /\ pc'[c] = "savingRestoring" => Unreleased(leases'[held'[c]])
  <2>1. CASE Ended(c) BY <1>0, <2>1 DEF Ended, LeaseInv, TypeOK
  <2>2. ASSUME NEW h \in Runs, Takes(c, None, h)
        PROVE  pc'[c] = "savingRestoring" /\ Unreleased(leases'[held'[c]])
    BY <1>0, <2>2 DEF Takes, LeaseInv, TypeOK, Lease, Unreleased
  <2>3. QED BY <1>3, <2>1, <2>2
<1>6. AllStatuses' \subseteq AllStatuses
  <2>1. AllStatuses' \subseteq AllStatuses \cup {status'} BY <1>0, <1>2, <1>3, SerialFlow DEF SerialInv
  <2>2. status \in AllStatuses BY DEF AllStatuses
  <2>3. QED BY <1>1, <2>1, <2>2
<1>7. \A r \in Runs : pc[r] \in {"idle", "done"} BY <1>4 DEF Resting
<1>8. SessionInv'
  <2>1. \A r \in Runs : (Begun(r)' <=> Begun(r)) /\ Resting(r)' BY <1>4 DEF Begun, Resting
  <2>2. \A r \in Runs : turn'[r] # "none" => pc'[r] \notin BeforeRun \cup {"savingRun", "prompting"}
    BY <1>1, <1>4 DEF SerialInv, SessionInv
  <2>3. \A r \in Runs : pc'[r] \notin {"savingRun", "prompting"} BY <1>4, <1>7
  <2>4. \A l \in AllStatuses' : \A r, s \in Runs : l[r] = "running" /\ l[s] = "running" => r = s
    BY <1>6 DEF SerialInv, SessionInv
  <2>5. QED BY <1>1, <1>4, <2>1, <2>2, <2>3, <2>4 DEF SerialInv, SessionInv
<1>9. RefreshInv'
  <2>1. \A x \in Procs : pc'[x] \notin Refreshing BY <1>4, <1>5 DEF Resting, Refreshing
  <2>2. \A x \in Procs : pc'[x] # "listed" BY <2>1 DEF Refreshing
  <2>3. QED BY <2>1, <2>2 DEF RefreshInv
<1>10. GiveInv'
  <2>1. \A x \in Procs : Gives(x)' => x = c /\ pc'[c] = "savingRestoring"
    BY <1>4, <1>5 DEF Gives, Resting
  <2>2. \A r \in Runs : ~Keeps(r)' /\ Resting(r)' BY <1>1, <1>4, <1>7 DEF Keeps, WithLease, Resting
  <2>3. \A x \in Procs : pc'[x] \notin Refreshing BY <1>4, <1>5 DEF Resting, Refreshing
  <2>4. QED BY <1>5, <2>1, <2>2, <2>3 DEF GiveInv, Unreleased
<1>11. PresetInv'
  <2>1. \A r \in Runs : pc'[r] \notin {"savingAcquired", "baseline", "savingRun", "prompting", "read"}
    BY <1>4, <1>7
  <2>2. QED BY <1>1, <1>4, <2>1 DEF PresetInv
<1>12. QED BY <1>8, <1>9, <1>10, <1>11 DEF SerialInv

\* The Host changes the preset: nobody needs the one that was in force.
LEMMA SelectSerial ==
  ASSUME LeaseInv, SerialInv, NEW p \in Procs, HostSelects(p)
  PROVE  SerialInv'
<1> USE PermissionLeasesAssumption
<1> DEFINE point == IF pc[p] = "granting" THEN "granted" ELSE "restored"
<1>1. /\ pc[p] \in {"granting", "restoring"} /\ preset' = Wanted(p) /\ Goto(p, point)
      /\ queue' = queue /\ file' = file /\ leases' = leases /\ status' = status /\ active' = active
      /\ turn' = turn /\ held' = held /\ target' = target /\ seen' = seen
  BY DEF HostSelects, memory, disk
<1>2. /\ point \in {"granted", "restored"} /\ (pc[p] = "granting" <=> point = "granted")
      /\ (pc[p] = "restoring" <=> point = "restored")
  BY <1>1
<1> HIDE DEF point
<1>3. Written(p, queue) /\ Moves(p, queue) /\ MemoryOK
  BY <1>1, <1>2, GotoStep DEF Points, Restoring, Saving, LeaseInv, TypeOK
<1>4. Still(p, point) BY <1>1, <1>3, StillIs DEF Goto
<1>5. Allowed(p, point)
  <2>1. p \in Runs => (Begun(p)' <=> Begun(p)) /\ (Keeps(p)' => Keeps(p))
    BY <1>1, <1>2, <1>4 DEF Still, Begun, Keeps, BeforeRun, BeforeLease, WithLease
  <2>2. point = "restored" => Gives(p) BY <1>2 DEF Gives
  <2>3. \A x \in Procs : Gives(x) => held'[x] = held[x] /\ Unreleased(leases'[held[x]])
    BY <1>1 DEF SerialInv, GiveInv
  <2>4. QED BY <1>1, <1>2, <2>1, <2>2, <2>3 DEF Allowed, Resting
<1>6. PresetInv'
  <2>1. ASSUME NEW r \in Runs
        PROVE  /\ turn[r] # "working"
               /\ pc'[r] \notin {"savingAcquired", "baseline", "savingRun", "prompting", "read"}
    <3>1. CASE pc[p] = "granting"
      <4>1. p \in Runs /\ Begun(p) BY <3>1, WhoIs DEF Begun, BeforeRun, WithLease
      <4>2. /\ \A s \in Runs : turn[s] # "working"
            /\ \A s \in Runs : s # p => Resting(s)
        BY <4>1, BegunIs
      <4>3. QED BY <1>2, <1>4, <4>2 DEF Still, Resting, Procs
    <3>2. CASE pc[p] = "restoring"
      <4>1. ~Keeps(r) BY <3>2 DEF SerialInv, GiveInv, Gives
      <4>2. QED BY <1>2, <1>4, <4>1 DEF Still, Keeps, WithLease, Procs
    <3>3. QED BY <1>1, <3>1, <3>2
  <2>2. QED BY <1>1, <2>1 DEF PresetInv
<1>7. QED BY <1>4, <1>5, <1>6, StillSerial DEF SerialInv

\* What a step leaves alone that marks a lease, or that only moves a call.
SameFrame ==
  /\ status' = status /\ turn' = turn /\ active' = active /\ target' = target
  /\ preset' = preset /\ held' = held /\ seen' = seen

\* A lease is marked, and released only by the call that gives it back.
LEMMA MarkSerial ==
  ASSUME LeaseInv, SerialInv, NEW p \in Procs, NEW q, NEW state \in LeaseStates, NEW point,
         SetLease(held[p], state), Save(p, point, q), Written(p, q), SameFrame,
         \/ /\ pc[p] \in WithLease /\ point \in {"savingAcquired", "savingRefusal"}
            /\ point = "savingAcquired" => preset = Grant[p]
         \/ pc[p] \in Restoring /\ point \in {"savingReleased", "savingAttention"},
         state \notin {"none", "released"} \/ \A x \in Procs : x # p => ~Gives(x)
  PROVE  SerialInv'
<1> USE PermissionLeasesAssumption
<1>1. held[p] \in Runs
  BY WhoIs DEF LeaseInv, CallsInv
<1>2. /\ leases' \in [Runs -> Lease]
      /\ \A r \in Runs : r # held[p] => leases'[r] = leases[r]
      /\ leases'[held[p]].state = state
  BY <1>1, SetLeaseIs
<1>3. Moves(p, q) /\ pc' = [pc EXCEPT ![p] = point] BY SaveStep DEF Saving
<1>4. MemoryOK BY <1>2 DEF MemoryOK, SameFrame, LeaseInv, TypeOK
<1>5. Still(p, point) BY <1>3, <1>4, StillIs DEF SameFrame
<1>6. Allowed(p, point)
  <2>1. CASE pc[p] \in WithLease /\ point \in {"savingAcquired", "savingRefusal"}
    <3>1. p \in Runs /\ Keeps(p) BY <2>1, WhoIs DEF Keeps
    <3>2. \A x \in Procs : ~Gives(x) BY <3>1 DEF SerialInv, GiveInv
    <3>3. Begun(p) /\ Begun(p)' /\ ~Resting(p)
      BY <2>1, <1>5 DEF Still, Begun, Resting, BeforeRun, BeforeLease, WithLease
    <3>4. QED BY <2>1, <3>1, <3>2, <3>3 DEF Allowed
  <2>2. CASE pc[p] \in Restoring /\ point \in {"savingReleased", "savingAttention"}
    <3>1. p \in Runs => ~Resting(p) /\ ~Begun(p) /\ ~Begun(p)' /\ (Keeps(p)' => Keeps(p))
      BY <2>2, <1>5, <1>3 DEF SameFrame, Still, Begun, Resting, Keeps, Restoring, BeforeRun, BeforeLease, WithLease
    <3>2. ASSUME NEW x \in Procs, Gives(x), x # p
          PROVE  held'[x] = held[x] /\ Unreleased(leases'[held[x]])
      <4>1. state \notin {"none", "released"} /\ Unreleased(leases[held[x]]) /\ held[x] \in Runs
        BY <3>2 DEF SerialInv, GiveInv, Gives, LeaseInv, CallsInv, Restoring
      <4>2. QED BY <1>2, <4>1 DEF SameFrame, Unreleased
    <3>3. QED BY <2>2, <3>1, <3>2 DEF Allowed
  <2>3. QED BY <2>1, <2>2
<1>7. PresetInv' BY <1>5, PresetStill DEF SameFrame
<1>8. QED BY <1>5, <1>6, <1>7, StillSerial DEF SerialInv

\* The Host confirms, or does not.
LEMMA AnswerSerial ==
  ASSUME LeaseInv, SerialInv, NEW p \in Procs, Confirmed(p) \/ SelectFails(p)
  PROVE  SerialInv'
<1>1. /\ pc[p] \in {"granting", "restoring", "granted", "restored"} /\ SameFrame /\ Written(p, queue)
  BY DEF Confirmed, SelectFails, Attention, SameFrame, Written, Saving, host
<1>2. CASE Confirmed(p) /\ pc[p] = "granted"
  <2>1. SetLease(held[p], "acquired") /\ Save(p, "savingAcquired", queue) /\ preset = Wanted(p)
    BY <1>2 DEF Confirmed
  <2>2. preset = Grant[p] /\ pc[p] \in WithLease /\ "acquired" \in LeaseStates
    BY <1>2, <2>1, WantedIs DEF WithLease, LeaseStates
  <2>3. QED BY <1>1, <2>1, <2>2, MarkSerial
<1>3. CASE Confirmed(p) /\ pc[p] = "restored"
  <2>1. SetLease(held[p], "released") /\ Save(p, "savingReleased", queue)
    BY <1>3 DEF Confirmed
  <2>2. pc[p] \in Restoring /\ "released" \in LeaseStates BY <1>3 DEF Restoring, LeaseStates
  <2>3. \A x \in Procs : x # p => ~Gives(x) BY <1>3 DEF SerialInv, GiveInv, Gives
  <2>4. QED BY <1>1, <2>1, <2>2, <2>3, MarkSerial
<1>4. CASE SelectFails(p)
  <2>1. /\ SetLease(held[p], "needs_attention") /\ "needs_attention" \in LeaseStates
        /\ Save(p, IF pc[p] \in {"granting", "granted"} THEN "savingRefusal" ELSE "savingAttention", queue)
    BY <1>4 DEF SelectFails, Attention, LeaseStates
  <2>2. CASE pc[p] \in {"granting", "granted"}
    <3>1. pc[p] \in WithLease /\ Save(p, "savingRefusal", queue) BY <2>1, <2>2 DEF WithLease
    <3>2. QED BY <1>1, <2>1, <3>1, MarkSerial
  <2>3. CASE pc[p] \in {"restoring", "restored"}
    <3>1. pc[p] \in Restoring /\ Save(p, "savingAttention", queue) BY <2>1, <2>3 DEF Restoring
    <3>2. QED BY <1>1, <2>1, <3>1, MarkSerial
  <2>4. QED BY <1>1, <2>2, <2>3
<1>5. QED BY <1>1, <1>2, <1>3, <1>4 DEF Confirmed

\* A call ends, or saves the memory a last time.
LEMMA RestSerial ==
  ASSUME LeaseInv, SerialInv, NEW p \in Procs, NEW q, Written(p, q), SameFrame, leases' = leases,
         pc[p] \in {"savingRestoring", "savingReleased", "savingAttention", "savingFinal"},
         Rest(p, q) \/ Save(p, "savingFinal", q)
  PROVE  SerialInv'
<1> USE PermissionLeasesAssumption
<1>1. MemoryOK BY DEF MemoryOK, SameFrame, LeaseInv, TypeOK
<1>2. \E point \in {"idle", "done", "savingFinal"} :
        /\ Moves(p, q) /\ pc' = [pc EXCEPT ![p] = point]
        /\ point = "idle" => p \notin Runs
  <2>1. CASE Save(p, "savingFinal", q) BY <2>1, SaveStep DEF Saving
  <2>2. CASE Rest(p, q)
    <3> DEFINE point == IF p \in Runs THEN "done" ELSE "idle"
    <3>1. Continue(p, point, q) BY <2>2 DEF Rest
    <3>2. Moves(p, q) /\ pc' = [pc EXCEPT ![p] = point] BY <3>1, ContinueStep DEF Points
    <3>3. QED BY <3>2
  <2>3. QED BY <2>1, <2>2
<1>3. PICK point \in {"idle", "done", "savingFinal"} :
        /\ Moves(p, q) /\ pc' = [pc EXCEPT ![p] = point]
        /\ point = "idle" => p \notin Runs
  BY <1>2
<1>4. Still(p, point) BY <1>1, <1>3, StillIs DEF SameFrame
<1>5. Allowed(p, point)
  <2>1. p \in Runs => ~Resting(p) /\ ~Begun(p) /\ ~Begun(p)' /\ (Keeps(p)' => Keeps(p))
    BY <1>3, <1>4 DEF SameFrame, Still, Begun, Resting, Keeps, BeforeRun, BeforeLease, WithLease
  <2>2. \A x \in Procs : Gives(x) => held'[x] = held[x] /\ Unreleased(leases'[held[x]])
    BY DEF SameFrame, SerialInv, GiveInv
  <2>3. QED BY <1>3, <2>1, <2>2 DEF Allowed
<1>6. PresetInv' BY <1>4, PresetStill DEF SameFrame
<1>7. QED BY <1>4, <1>5, <1>6, StillSerial DEF SerialInv

\* The copy in which the run is running is on disk, and no later one says otherwise.
LEMMA RunIsSaved ==
  ASSUME LeaseInv, SerialInv, NEW p \in Procs, Awaited(p), pc[p] = "savingRun",
         file' = Copy, queue' = Tail(queue), status' = status
  PROVE  \A l \in AllStatuses' : l[p] = "running"
<1>1. p \in Runs BY WhoIs
<1>2. status[p] = "running" /\ RunQueued(p) BY <1>1 DEF SerialInv, SessionInv
<1>3. queue[1].by = p /\ 1 \in 1..Len(queue) /\ Head(queue) = queue[1] BY AwaitedIs
<1>4. \A m \in 1..Len(queue) : queue[m].status[p] = "running" BY <1>2, <1>3 DEF RunQueued
<1>5. \A n \in 1..Len(queue') : \E m \in 1..Len(queue) : queue'[n] = queue[m]
  <2>1. queue \in Seq(Copies) /\ queue # <<>> /\ queue' = Tail(queue)
    BY DEF LeaseInv, QueueInv, Awaited
  <2>2. /\ Len(queue') = Len(queue) - 1 /\ Len(queue) \in Nat
        /\ \A n \in 1..Len(queue') : queue'[n] = queue[n + 1]
    BY <2>1, HeadTailProperties, LenProperties
  <2>3. \A n \in 1..Len(queue') : n + 1 \in 1..Len(queue) BY <2>2
  <2>4. QED BY <2>2, <2>3
<1>6. file'.status = queue[1].status BY <1>3 DEF Copy
<1>7. QED BY <1>2, <1>3, <1>4, <1>5, <1>6 DEF AllStatuses

\* A copy is on disk, and its call goes on.
LEMMA SaveDoneSerial ==
  ASSUME LeaseInv, SerialInv, NEW p \in Procs, SaveDone(p)
  PROVE  SerialInv'
<1> USE PermissionLeasesAssumption
<1> DEFINE q == Tail(queue)
<1>1. /\ Awaited(p) /\ file' = Copy /\ Written(p, q) /\ ~Resting(p)
      /\ preset' = preset /\ turn' = turn /\ target' = target /\ seen' = seen
  BY AwaitedIs DEF SaveDone, Copy, Written, host
<1>2. ASSUME NEW point \in {"granting", "baseline", "prompting", "restoring"}, Step(p, point, q),
             point = "granting" => pc[p] = "savingPrepared",
             point = "baseline" => pc[p] = "savingAcquired",
             point = "prompting" => pc[p] = "savingRun",
             point = "restoring" => pc[p] = "savingRestoring"
      PROVE  SerialInv'
  <2>1. Continue(p, point, q) /\ leases' = leases /\ SameFrame
    BY <1>1, <1>2 DEF Step, SameFrame, SaveDone
  <2>2. Moves(p, q) /\ pc' = [pc EXCEPT ![p] = point]
    BY <2>1, ContinueStep DEF Points, Restoring
  <2>3. MemoryOK BY <2>1 DEF MemoryOK, SameFrame, LeaseInv, TypeOK
  <2>4. Still(p, point) BY <1>1, <2>1, <2>2, <2>3, StillIs DEF SameFrame
  <2>5. point = "prompting" => \A l \in AllStatuses' : l[p] = "running"
    BY <1>1, <1>2, <2>1, RunIsSaved DEF Continue, SameFrame
  <2>6. p \in Runs => (Begun(p)' <=> Begun(p)) /\ (Keeps(p)' => Keeps(p))
    BY <1>2, <2>1, <2>4 DEF SameFrame, Still, Begun, Keeps, BeforeRun, BeforeLease, WithLease
  <2>7. \A x \in Procs : Gives(x) => held'[x] = held[x] /\ Unreleased(leases'[held[x]])
    BY <2>1 DEF SameFrame, SerialInv, GiveInv
  <2>8. point \in {"restoring", "restored"} => Gives(p) BY <1>2 DEF Gives
  <2>9. Allowed(p, point) BY <1>1, <1>2, <2>5, <2>6, <2>7, <2>8 DEF Allowed
  <2>10. p \in Runs /\ point \in {"savingAcquired", "baseline", "savingRun", "prompting"} => preset = Grant[p]
    BY <1>2 DEF SerialInv, PresetInv
  <2>11. PresetInv' BY <2>1, <2>4, <2>10, PresetStill DEF SameFrame
  <2>12. QED BY <2>4, <2>9, <2>11, StillSerial DEF SerialInv
<1>3. CASE pc[p] = "savingRefusal" /\ Catch(p, q)
  <2>1. p \in Runs /\ pc[p] \in WithLease BY <1>3, WhoIs DEF WithLease
  <2>2. QED BY <1>1, <1>3, <2>1, CatchSerial
<1>4. CASE /\ UNCHANGED <<leases, status, active, held, after>>
           /\ pc[p] \in {"savingFinal", "savingReleased", "savingAttention"}
           /\ Rest(p, q) \/ Leave(p, after[p], q)
  <2>1. Rest(p, q) \/ Save(p, "savingFinal", q) BY <1>4 DEF Leave
  <2>2. SameFrame BY <1>1, <1>4 DEF SameFrame
  <2>3. QED BY <1>1, <1>4, <2>1, <2>2, RestSerial
<1>5. QED BY <1>2, <1>3, <1>4 DEF SaveDone

\* A copy is not written.
LEMMA SaveFailsSerial ==
  ASSUME LeaseInv, SerialInv, NEW p \in Procs, SaveFails(p)
  PROVE  SerialInv'
<1> USE PermissionLeasesAssumption
<1> DEFINE q == Tail(queue)
<1>1. /\ Awaited(p) /\ Written(p, q) /\ ~Resting(p)
      /\ preset' = preset /\ turn' = turn /\ target' = target /\ seen' = seen
  BY AwaitedIs DEF SaveFails, Written, host
<1>2. CASE pc[p] \in {"savingPrepared", "savingRefusal"} /\ Catch(p, q)
  <2>1. p \in Runs /\ pc[p] \in WithLease BY <1>2, WhoIs DEF WithLease
  <2>2. QED BY <1>1, <1>2, <2>1, CatchSerial
<1>3. CASE pc[p] = "savingRun" /\ Finalize(p, p, q)
  <2>1. p \in Runs BY <1>3, WhoIs
  <2>2. QED BY <1>1, <1>3, <2>1, UnsavedSerial
<1>4. CASE /\ pc[p] \in {"savingAcquired", "savingReleased"}
           /\ Attention(p, pc[p] = "savingAcquired", q) /\ UNCHANGED <<active, held, after>>
  <2>1. SetLease(held[p], "needs_attention") /\ SameFrame /\ "needs_attention" \in LeaseStates
    BY <1>1, <1>4 DEF Attention, SameFrame, LeaseStates
  <2>2. CASE pc[p] = "savingAcquired"
    <3>1. Save(p, "savingRefusal", q) /\ pc[p] \in WithLease BY <1>4, <2>2 DEF Attention, WithLease
    <3>2. QED BY <1>1, <2>1, <3>1, MarkSerial
  <2>3. CASE pc[p] = "savingReleased"
    <3>1. Save(p, "savingAttention", q) /\ pc[p] \in Restoring BY <1>4, <2>3 DEF Attention, Restoring
    <3>2. QED BY <1>1, <2>1, <3>1, MarkSerial
  <2>4. QED BY <1>4, <2>2, <2>3
<1>5. CASE p \in Runs /\ turn[p] = "rejected" /\ Catch(p, q)
  BY <1>1, <1>5, CatchSerial
<1>6. CASE /\ pc[p] \in {"savingRestoring", "savingAttention", "savingFinal"}
           /\ Rest(p, q) /\ UNCHANGED <<leases, status, active, held, after>>
  <2>1. SameFrame BY <1>1, <1>6 DEF SameFrame
  <2>2. QED BY <1>1, <1>6, <2>1, RestSerial
<1>7. QED BY <1>2, <1>3, <1>4, <1>5, <1>6 DEF SaveFails, Throw

\* After a restart no call is under way; the file says who has the session.
LEMMA RestartSerial ==
  ASSUME LeaseInv, SerialInv, Restart
  PROVE  SerialInv'
<1> USE PermissionLeasesAssumption
<1>1. /\ queue' = <<>> /\ status' = file.status /\ file'.status = file.status
      /\ preset' = preset /\ turn' = turn /\ file.status \in AllStatuses
  BY DEF Restart, host, AllStatuses, LeaseInv, TypeOK
<1>2. /\ \A p \in Procs : pc'[p] \in {"idle", "done"}
      /\ \A r \in Runs : pc'[r] = "idle" => pc[r] = "idle"
  BY DEF Restart, Procs
<1>3. AllStatuses' = {file.status}
  <2>1. 1..Len(queue') = {} BY <1>1
  <2>2. QED BY <1>1, <2>1 DEF AllStatuses
<1>4. \A r \in Runs : active' = r <=> status'[r] = "running"
  BY <1>1 DEF Restart, SerialInv, SessionInv
<1>5. \A p \in Procs : ~Gives(p)' /\ pc'[p] \notin Refreshing BY <1>2 DEF Gives, Refreshing
<1>6. SessionInv'
  <2>1. \A r \in Runs : ~Begun(r)' /\ Resting(r)' /\ pc'[r] \notin {"savingRun", "prompting"}
    BY <1>2 DEF Begun, Resting, BeforeRun, BeforeLease, WithLease, Procs
  <2>2. \A r \in Runs : pc'[r] \in BeforeRun => pc[r] \in BeforeRun
    BY <1>2 DEF BeforeRun, BeforeLease, WithLease, Procs
  <2>3. QED BY <1>1, <1>3, <1>4, <2>1, <2>2 DEF SerialInv, SessionInv
<1>7. RefreshInv'
  <2>1. \A p \in Procs : pc'[p] # "listed" BY <1>2
  <2>2. QED BY <1>5, <2>1 DEF RefreshInv
<1>8. GiveInv' BY <1>5 DEF GiveInv
<1>9. PresetInv'
  <2>1. \A r \in Runs : pc'[r] \notin {"savingAcquired", "baseline", "savingRun", "prompting", "read"}
    BY <1>2 DEF Procs
  <2>2. QED BY <1>1, <2>1 DEF SerialInv, PresetInv
<1>10. QED BY <1>6, <1>7, <1>8, <1>9 DEF SerialInv

LEMMA SerialInitially == ASSUME Init PROVE SerialInv
<1> USE PermissionLeasesAssumption
<1>1. /\ \A p \in Procs : pc[p] = "idle"
      /\ \A r \in Runs : status[r] = "none" /\ turn[r] = "none"
      /\ active = None /\ None \notin Runs
  BY DEF Init
<1>2. AllStatuses = {status}
  <2>1. 1..Len(queue) = {} BY DEF Init
  <2>2. QED BY <2>1 DEF Init, AllStatuses
<1>3. \A p \in Procs : ~Gives(p) /\ pc[p] \notin Refreshing BY <1>1 DEF Gives, Refreshing
<1>4. SessionInv
  <2>1. \A r \in Runs : ~Begun(r) /\ pc[r] \notin {"savingRun", "prompting"} BY <1>1 DEF Begun, Procs
  <2>2. QED BY <1>1, <1>2, <2>1 DEF SessionInv
<1>5. RefreshInv
  <2>1. \A p \in Procs : pc[p] # "listed" BY <1>1
  <2>2. QED BY <1>3, <2>1 DEF RefreshInv
<1>6. GiveInv BY <1>3 DEF GiveInv
<1>7. PresetInv BY <1>1 DEF PresetInv, Procs
<1>8. QED BY <1>4, <1>5, <1>6, <1>7 DEF SerialInv

LEMMA SerialInductive ==
  ASSUME ~Overlap, ~AtWork, LeaseInv, SerialInv, [Next]_vars
  PROVE  SerialInv'
<1>1. ASSUME NEW r \in Runs, StartRun(r) PROVE SerialInv'
  <2>1. CASE Check(r) BY <2>1, StartMovesSerial, SetUpSerial
  <2>2. CASE BaselineFails(r)
    <3>1. /\ pc[r] = "baseline" /\ Catch(r, queue) /\ file' = file
          /\ turn' = turn /\ preset' = preset /\ target' = target
      BY <2>2 DEF BaselineFails, host
    <3>2. Written(r, queue) BY <3>1 DEF Written, Saving
    <3>3. QED BY <3>1, <3>2, CatchSerial
  <2>3. QED
    BY <1>1, <2>1, <2>2, StartMovesSerial, SetUpSerial, BeginSerial, BaselineSerial, SendPromptSerial,
       RejectedSerial
    DEF StartRun
<1>2. ASSUME NEW r \in Runs, TurnEnds(r) PROVE SerialInv' BY <1>2, TurnEndsSerial
<1>3. ASSUME NEW c \in Callers, ReconcilePermissions(c) PROVE SerialInv' BY <1>3, ReconcileSerial
<1>4. ASSUME NEW c \in Callers, NEW r \in Runs, Poll(c, r) PROVE SerialInv' BY <1>4, PollSerial
<1>5. ASSUME NEW p \in Procs, Goes(p) \/ RefreshFails(p) \/ SaveFails(p) PROVE SerialInv'
  BY <1>5, RefreshSerial, ConcludedSerial, SelectSerial, AnswerSerial, SaveDoneSerial, SaveFailsSerial
  DEF Goes
<1>6. CASE Restart BY <1>6, RestartSerial
<1>7. CASE UNCHANGED vars
  <2>1. AllStatuses' = AllStatuses BY <1>7 DEF AllStatuses, vars, memory, disk
  <2>2. QED
    BY <1>7, <2>1 DEF SerialInv, SessionInv, RefreshInv, GiveInv, PresetInv, Begun, RunQueued, Gives, Keeps,
       Unreleased, Resting, vars, host, memory, disk, calls, bounds
<1>8. QED BY <1>1, <1>2, <1>3, <1>4, <1>5, <1>6, <1>7 DEF Next

SerialCaseInv == case = "serial" => LeaseInv /\ SerialInv

LEMMA SerialAlways == ASSUME ~Overlap, ~AtWork PROVE CasesSpec => []SerialCaseInv
<1>1. CasesInit => SerialCaseInv
  BY LeaseInitially, SerialInitially DEF CasesInit, SerialCaseInv
<1>2. SerialCaseInv /\ [CasesNext]_caseVars => SerialCaseInv'
  <2> SUFFICES ASSUME SerialCaseInv, [CasesNext]_caseVars PROVE SerialCaseInv'
    OBVIOUS
  <2>1. CASE case = "serial" /\ case' = case /\ [Next]_vars
    BY <2>1, LeaseInductive, SerialInductive DEF SerialCaseInv
  <2>2. CASE case' = case /\ case # "serial" BY <2>2 DEF SerialCaseInv
  <2>3. QED BY <2>1, <2>2 DEF CasesNext, Racing, Locking, caseVars
<1>3. QED BY <1>1, <1>2, PTL DEF CasesSpec

\* A run works under the preset it was granted until its turn ends, where calls
\* that restore follow one another.
THEOREM GrantsHold == ASSUME ~Overlap, ~AtWork PROVE CasesSpec => []GrantHolds
<1>1. SerialCaseInv => GrantHolds
  BY DEF SerialCaseInv, GrantHolds, GrantInForce, SerialInv, PresetInv
<1>2. QED BY <1>1, SerialAlways, PTL

\* No run that is over keeps the session once all calls have returned.
THEOREM SessionsAreFreed == ASSUME ~Overlap, ~AtWork PROVE CasesSpec => []SessionFreed
<1>1. ASSUME SerialCaseInv PROVE SessionFreed
  <2> SUFFICES ASSUME case = "serial", \A p \in Procs : Resting(p), active # None
               PROVE  status[active] = "running"
    BY DEF SessionFreed, SessionIsFreed
  <2>1. active \in Runs BY <1>1 DEF SerialCaseInv, LeaseInv, TypeOK
  <2>2. ~Begun(active) BY <2>1 DEF Begun, Resting, BeforeRun, BeforeLease, WithLease, Procs
  <2>3. QED BY <1>1, <2>1, <2>2 DEF SerialCaseInv, SerialInv, SessionInv
<1>2. QED BY <1>1, SerialAlways, PTL
=============================================================================
