------------------------ MODULE RunAdmissionProofs ------------------------
(***************************************************************************)
(* Proofs about RunAdmission, for any number of calls, crashes and failed  *)
(* writes: the type invariant, that one idempotency key never stands for   *)
(* two operations and, when starts follow one another, that the file knows *)
(* the run of whatever the Host was sent, that a poll can settle it, that  *)
(* no write takes an operation back before one has failed, and that the    *)
(* write path implements a start that happens once per key (StartOnce).    *)
(***************************************************************************)
EXTENDS MCAdmissionCases, TLAPS

Job == [kind: {"claim", "save"}, call: Calls, key: Keys \cup {None}, at: 0..MaxClock,
        op: [Calls -> Op \cup {NoOp}], run: [Calls -> Run \cup {NoRun}]]

\* Where a call that starts a run holds an operation, where it has not made or
\* adopted a run of its own yet, and where it holds a run.
OpPoints  == Points \ {"idle", "done", "claiming"}
Early     == {"idle", "claiming", "loading", "loaded", "setup"}
RunPoints == {"savingRun", "savingSubmit", "dispatch", "answer", "savingAck", "savingUnknown",
              "savingReject", "savingFailure", "refresh", "savingRefresh", "savingMissing"}

\* The key of an operation in the file is unique and never changes.
DiskInv ==
  /\ \A i, j \in Calls : diskOp[i] # NoOp /\ diskOp[i].key = diskOp[j].key => i = j
  /\ \A i \in Calls : diskRun[i] # NoRun => diskRun[i].id = i /\ diskOp[i] # NoOp
  /\ \A m \in Sent : diskOp[m.op] # NoOp

\* What is in memory stands for something the file knows, under the same key.
MemOK(objects, map, robjects, rmap, file) ==
  /\ \A o \in Calls : objects[o] # NoObj =>
       /\ file[objects[o].id] # NoOp /\ file[objects[o].id].key = objects[o].key
       /\ map[objects[o].id] # None
  /\ \A i \in Calls : map[i] # None => objects[map[i]] # NoObj /\ objects[map[i]].id = i
  /\ \A r \in Calls : robjects[r] # NoRun => map[robjects[r].id] # None
  /\ \A i \in Calls : rmap[i] # None => robjects[rmap[i]] # NoRun /\ robjects[rmap[i]].id = i

MemInv   == MemOK(obj, journal, robj, runs, diskOp)
IndexInv == \A k \in Keys : index[k] # None => journal[index[k]] # None

\* A write in the queue belongs to the call that awaits it, and agrees with
\* the file on the keys.
Agrees(job, file) ==
  /\ \A i \in Calls : job.op[i] # NoOp => file[i] # NoOp /\ file[i].key = job.op[i].key
  /\ \A i \in Calls : job.run[i] # NoRun => job.run[i].id = i /\ file[i] # NoOp

Awaited(job, where) ==
  /\ where[job.call] \in Waiting
  /\ job.kind = "claim" <=> where[job.call] = "claiming"
  /\ job.kind = "claim" => job.key \in Keys

QueueOK(q, where, file) ==
  /\ q \in Seq(Job)
  /\ \A n \in 1..Len(q) : Awaited(q[n], where) /\ Agrees(q[n], file)
  /\ \A n, m \in 1..Len(q) : q[n].call = q[m].call => n = m

QueueInv == QueueOK(queue, pc, diskOp)

Absent(c, q) == \A n \in 1..Len(q) : q[n].call # c

CallOK(c) ==
  /\ pc[c] \in {"idle", "claiming"} => obj[c] = NoObj /\ diskOp[c] = NoOp /\ path[c] = "fresh"
  /\ pc[c] \in Early => robj[c] = NoRun
  /\ path[c] = "poll" => pc[c] \in {"refresh", "savingRefresh", "savingMissing", "savingFinal", "done"}
  /\ pc[c] \in OpPoints /\ path[c] # "poll" => opRef[c] \in Calls /\ obj[opRef[c]] # NoObj
  /\ pc[c] \in RunPoints => runRef[c] \in Calls /\ robj[runRef[c]] # NoRun
  /\ pc[c] = "loaded" =>
       LET id == obj[opRef[c]].id IN
       /\ loaded[c].op # NoOp => loaded[c].op.key = diskOp[id].key
       /\ loaded[c].run # NoRun => loaded[c].run.id = id

CallInv == \A c \in Calls : CallOK(c)

IInv == TypeOK /\ DiskInv /\ MemInv /\ IndexInv /\ QueueInv /\ CallInv

-----------------------------------------------------------------------------
(* The write queue.                                                        *)

LEMMA QueueTail ==
  ASSUME NEW q, NEW where, NEW file, QueueOK(q, where, file), q # <<>>
  PROVE  /\ Head(q) \in Job /\ Awaited(Head(q), where) /\ Agrees(Head(q), file)
         /\ QueueOK(Tail(q), where, file) /\ Absent(Head(q).call, Tail(q))
<1>1. q \in Seq(Job) /\ Len(q) \in Nat /\ Len(q) >= 1 /\ Head(q) = q[1]
    BY DEF QueueOK
<1>2. Tail(q) \in Seq(Job) /\ Len(Tail(q)) = Len(q) - 1
    BY <1>1
<1>3. \A n \in 1..Len(Tail(q)) : Tail(q)[n] = q[n + 1] /\ n + 1 \in 1..Len(q)
    BY <1>1, <1>2
<1>4. Head(q) \in Job /\ Awaited(Head(q), where) /\ Agrees(Head(q), file)
    BY <1>1 DEF QueueOK
<1>5. QueueOK(Tail(q), where, file)
    BY <1>1, <1>2, <1>3 DEF QueueOK
<1>6. Absent(Head(q).call, Tail(q))
    BY <1>1, <1>2, <1>3 DEF QueueOK, Absent
<1> QED
    BY <1>4, <1>5, <1>6

LEMMA QueueMove ==
  ASSUME NEW q, NEW where \in [Calls -> Points], NEW file, QueueOK(q, where, file),
         NEW c \in Calls, Absent(c, q), NEW p
  PROVE  QueueOK(q, [where EXCEPT ![c] = p], file)
<1>0. \A n \in 1..Len(q) : q[n] \in Job
    BY DEF QueueOK
<1>1. \A n \in 1..Len(q) : q[n].call \in Calls /\ q[n].call # c
    BY <1>0 DEF Absent, Job
<1>2. \A d \in Calls : d # c => [where EXCEPT ![c] = p][d] = where[d]
    OBVIOUS
<1>3. \A n \in 1..Len(q) : Awaited(q[n], [where EXCEPT ![c] = p])
    BY <1>1, <1>2 DEF QueueOK, Awaited
<1> QED
    BY <1>3 DEF QueueOK

LEMMA QueueAppend ==
  ASSUME NEW q, NEW where, NEW file, QueueOK(q, where, file),
         NEW job \in Job, Awaited(job, where), Agrees(job, file), Absent(job.call, q)
  PROVE  QueueOK(Append(q, job), where, file)
<1>1. /\ Append(q, job) \in Seq(Job) /\ Len(q) \in Nat /\ Len(Append(q, job)) = Len(q) + 1
      /\ \A n \in 1..Len(q) : Append(q, job)[n] = q[n]
      /\ Append(q, job)[Len(q) + 1] = job
    BY DEF QueueOK
<1> QED
    BY <1>1 DEF QueueOK, Absent

LEMMA QueueAbsent ==
  ASSUME NEW q, NEW where, NEW file, QueueOK(q, where, file), NEW c \in Calls, where[c] \notin Waiting
  PROVE  Absent(c, q)
BY DEF QueueOK, Absent, Awaited

LEMMA QueueFile ==
  ASSUME NEW q, NEW where, NEW file, NEW file2, QueueOK(q, where, file),
         \A i \in Calls : file[i] # NoOp => file2[i] # NoOp /\ file2[i].key = file[i].key
  PROVE  QueueOK(q, where, file2)
BY DEF QueueOK, Agrees

\* persistState() writes what the memory holds, so it agrees with the file.
LEMMA SnapshotAgrees ==
  ASSUME NEW O \in [Calls -> OpObj \cup {NoObj}], NEW J \in [Calls -> Calls \cup {None}],
         NEW R \in [Calls -> Run \cup {NoRun}], NEW U \in [Calls -> Calls \cup {None}],
         NEW F, MemOK(O, J, R, U, F), NEW c \in Calls,
         NEW job, job = [kind |-> "save", call |-> c, key |-> None, at |-> 0,
                         op |-> OpView(O, J), run |-> RunView(R, U)]
  PROVE  job \in Job /\ Agrees(job, F)
<1>1. \A i \in Calls : /\ OpView(O, J)[i] = IF J[i] = None THEN NoOp ELSE OpOf(O[J[i]])
                       /\ RunView(R, U)[i] = IF U[i] = None THEN NoRun ELSE R[U[i]]
    BY DEF OpView, RunView
<1>2. \A i \in Calls : J[i] # None =>
        /\ O[J[i]] \in OpObj /\ O[J[i]].id = i /\ F[i] # NoOp /\ F[i].key = O[J[i]].key
        /\ OpOf(O[J[i]]) \in Op /\ OpOf(O[J[i]]).key = O[J[i]].key
    BY DEF MemOK, OpOf, OpObj, Op, NoObj
<1>3. \A i \in Calls : U[i] # None => R[U[i]] \in Run /\ R[U[i]].id = i /\ F[i] # NoOp
    BY <1>2 DEF MemOK
<1>4. OpView(O, J) \in [Calls -> Op \cup {NoOp}]
    BY <1>1, <1>2 DEF OpView
<1>5. RunView(R, U) \in [Calls -> Run \cup {NoRun}]
    BY <1>1, <1>3 DEF RunView
<1>6. job \in Job
    BY <1>4, <1>5, ConstantsAssumption DEF Job
<1> QED
    BY <1>1, <1>2, <1>3, <1>6 DEF Agrees

\* What a call that awaits a save, or goes on without one, does to the queue.
LEMMA AwaitQueue ==
  ASSUME NEW c \in Calls, NEW p \in Waiting \ {"claiming"}, NEW q, Await(c, p, q),
         pc \in [Calls -> Points], QueueOK(q, pc, diskOp'), Absent(c, q),
         TypeOK', MemInv'
  PROVE  QueueInv'
<1> DEFINE job == Snapshot(c)'
<1>1. job \in Job /\ Agrees(job, diskOp')
    BY SnapshotAgrees DEF Snapshot, TypeOK, MemInv
<1>2. QueueOK(q, pc', diskOp')
    BY QueueMove DEF Await, Goto
<1>3. job.call = c /\ job.kind = "save" /\ pc'[c] = p
    BY DEF Snapshot, Await, Goto
<1>4. Awaited(job, pc')
    BY <1>3 DEF Awaited
<1>5. QueueOK(Append(q, job), pc', diskOp')
    BY <1>1, <1>2, <1>3, <1>4, QueueAppend
<1> QED
    BY <1>5 DEF QueueInv, Await

LEMMA ContinueQueue ==
  ASSUME NEW c \in Calls, NEW p, NEW q, Continue(c, p, q),
         pc \in [Calls -> Points], QueueOK(q, pc, diskOp'), Absent(c, q)
  PROVE  QueueInv'
BY QueueMove DEF QueueInv, Continue, Goto

-----------------------------------------------------------------------------
(* Most steps only move a call on: it keeps what it holds, records and runs *)
(* change nothing but their states, and the file keeps its keys.            *)

ObjKept ==
  /\ obj' \in [Calls -> OpObj \cup {NoObj}]
  /\ \A o \in Calls : obj'[o].id = obj[o].id /\ obj'[o].key = obj[o].key

RunKept ==
  /\ robj' \in [Calls -> Run \cup {NoRun}]
  /\ \A r \in Calls : robj'[r].id = robj[r].id

FileKept ==
  /\ diskOp' \in [Calls -> Op \cup {NoOp}] /\ diskRun' \in [Calls -> Run \cup {NoRun}]
  /\ \A i \in Calls : diskOp'[i].key = diskOp[i].key
  /\ DiskInv'

BoundsKept ==
  /\ wire' \subseteq Request /\ host' \subseteq Request
  /\ clock' \in 0..MaxClock /\ crashes' \in 0..MaxCrashes /\ failures' \in 0..MaxWriteFailures

PollPoints == {"refresh", "savingRefresh", "savingMissing", "savingFinal", "done"}

MovesTo(c, p, q) ==
  /\ p \in Points \ Early
  /\ \/ Continue(c, p, q)
     \/ p \in Waiting /\ Await(c, p, q)
  /\ p \in OpPoints /\ path[c] # "poll" => pc[c] \in OpPoints
  /\ p \in RunPoints => pc[c] \in RunPoints
  /\ path[c] = "poll" => p \in PollPoints

Moves(c, q) == \E p : MovesTo(c, p, q)

MovesOn(c, q) ==
  /\ UNCHANGED <<journal, index, runs, path, opRef, runRef, loaded>>
  /\ ObjKept /\ RunKept /\ FileKept /\ BoundsKept /\ Moves(c, q)

LEMMA MovesOnTypes ==
  ASSUME TypeOK, NEW c \in Calls, NEW q, MovesOn(c, q)
  PROVE  TypeOK'
<1>1. pc' \in [Calls -> Points]
    BY DEF TypeOK, MovesOn, Moves, MovesTo, Continue, Await, Goto
<1> QED
    BY <1>1 DEF TypeOK, MovesOn, ObjKept, RunKept, FileKept, BoundsKept

LEMMA KeysStay ==
  ASSUME TypeOK, FileKept, NEW i \in Calls
  PROVE  diskOp'[i] = NoOp <=> diskOp[i] = NoOp
BY ConstantsAssumption DEF TypeOK, Op, NoOp, FileKept

LEMMA ObjectsStay ==
  ASSUME TypeOK, ObjKept, NEW o \in Calls
  PROVE  obj'[o] = NoObj <=> obj[o] = NoObj
BY ConstantsAssumption DEF TypeOK, OpObj, NoObj, ObjKept

LEMMA RunsStay ==
  ASSUME TypeOK, RunKept, NEW r \in Calls
  PROVE  robj'[r] = NoRun <=> robj[r] = NoRun
BY ConstantsAssumption DEF TypeOK, Run, NoRun, RunKept

LEMMA MovesOnInv ==
  ASSUME IInv, NEW c \in Calls, NEW q, MovesOn(c, q),
         QueueOK(q, pc, diskOp), Absent(c, q)
  PROVE  IInv'
<1>0. TypeOK'
    BY MovesOnTypes DEF IInv
<1>1. \A i \in Calls : diskOp'[i] = NoOp <=> diskOp[i] = NoOp
    BY KeysStay DEF IInv, MovesOn
<1>2. \A o \in Calls : obj'[o] = NoObj <=> obj[o] = NoObj
    BY ObjectsStay DEF IInv, MovesOn
<1>3. \A r \in Calls : robj'[r] = NoRun <=> robj[r] = NoRun
    BY RunsStay DEF IInv, MovesOn
<1>4. MemInv'
  <2>1. \A o \in Calls : obj[o] # NoObj => obj[o].id \in Calls
      BY DEF IInv, TypeOK, OpObj
  <2>2. \A r \in Calls : robj[r] # NoRun => robj[r].id \in Calls
      BY DEF IInv, TypeOK, Run
  <2>3. \A i \in Calls : journal[i] \in Calls \cup {None} /\ runs[i] \in Calls \cup {None}
      BY DEF IInv, TypeOK
  <2>4. /\ \A i \in Calls : obj'[i].id = obj[i].id /\ obj'[i].key = obj[i].key
        /\ \A i \in Calls : robj'[i].id = robj[i].id /\ diskOp'[i].key = diskOp[i].key
        /\ journal' = journal /\ runs' = runs
      BY DEF MovesOn, ObjKept, RunKept, FileKept
  <2>5. MemOK(obj, journal, robj, runs, diskOp)
      BY DEF IInv, MemInv
  <2>6. MemOK(obj', journal', robj', runs', diskOp')
      BY <1>1, <1>2, <1>3, <2>1, <2>2, <2>3, <2>4, <2>5 DEF MemOK
  <2> QED
      BY <2>6 DEF MemInv
<1>5. IndexInv'
    BY DEF IInv, IndexInv, MovesOn
<1>6. QueueOK(q, pc, diskOp')
    BY <1>1, QueueFile DEF MovesOn, FileKept
<1>7. QueueInv'
    BY <1>0, <1>4, <1>6, AwaitQueue, ContinueQueue DEF MovesOn, Moves, MovesTo, Early, IInv, TypeOK
<1>8. CallInv'
  <2>1. PICK p : MovesTo(c, p, q)
      BY DEF MovesOn, Moves
  <2>2. \A d \in Calls : pc'[d] = IF d = c THEN p ELSE pc[d]
      BY <2>1 DEF IInv, TypeOK, MovesTo, Continue, Await, Goto
  <2>3. \A d \in Calls : pc[d] = "loaded" => opRef[d] \in Calls /\ obj[opRef[d]].id \in Calls
    <3>1. "loaded" \in OpPoints
        BY DEF OpPoints, Points, Waiting
    <3>2. \A d \in Calls : pc[d] = "loaded" => opRef[d] \in Calls /\ obj[opRef[d]] # NoObj
        BY <3>1 DEF IInv, CallInv, CallOK
    <3> QED
        BY <3>2 DEF IInv, TypeOK, OpObj
  <2>4. UNCHANGED <<path, opRef, runRef, loaded>>
      BY DEF MovesOn
  <2>5. \A d \in Calls : d # c => CallOK(d)'
      BY <1>1, <1>2, <1>3, <2>2, <2>3, <2>4
         DEF IInv, CallInv, CallOK, MovesOn, ObjKept, FileKept
  <2>6. CallOK(c)'
      BY <1>1, <1>2, <1>3, <2>1, <2>2, <2>4 DEF IInv, CallInv, CallOK, MovesTo, PollPoints, Early
  <2> QED
      BY <2>5, <2>6 DEF CallInv
<1>9. DiskInv'
    BY DEF MovesOn, FileKept
<1> QED
    BY <1>0, <1>4, <1>5, <1>7, <1>8, <1>9 DEF IInv

LEMMA MovesOnFromRest ==
  ASSUME IInv, NEW c \in Calls, MovesOn(c, queue), pc[c] \notin Waiting
  PROVE  IInv'
BY MovesOnInv, QueueAbsent DEF IInv, QueueInv

-----------------------------------------------------------------------------
(* What the fragments of the actions keep.                                 *)

\* What a call at a point of OpPoints or RunPoints holds.
LEMMA HoldsOp ==
  ASSUME IInv, NEW c \in Calls, pc[c] \in OpPoints, path[c] # "poll"
  PROVE  opRef[c] \in Calls /\ obj[opRef[c]] \in OpObj /\ obj[opRef[c]] # NoObj
BY DEF IInv, CallInv, CallOK, TypeOK

LEMMA HoldsRun ==
  ASSUME IInv, NEW c \in Calls, pc[c] \in RunPoints
  PROVE  runRef[c] \in Calls /\ robj[runRef[c]] \in Run /\ robj[runRef[c]] # NoRun
BY DEF IInv, CallInv, CallOK, TypeOK

LEMMA NotPolling ==
  ASSUME IInv, NEW c \in Calls, pc[c] \notin PollPoints
  PROVE  path[c] # "poll"
BY DEF IInv, CallInv, CallOK, PollPoints

LEMMA ObjSet ==
  ASSUME TypeOK, NEW o \in Calls, obj[o] \in OpObj, NEW state \in OpStates,
         obj' = [obj EXCEPT ![o].state = state, ![o].at = clock]
  PROVE  ObjKept
BY DEF TypeOK, ObjKept, OpObj

LEMMA ObjSame == ASSUME TypeOK, UNCHANGED obj PROVE ObjKept
BY DEF TypeOK, ObjKept

LEMMA RunSet ==
  ASSUME TypeOK, NEW r \in Calls, robj[r] \in Run, NEW x \in Run, x.id = robj[r].id,
         robj' = [robj EXCEPT ![r] = x]
  PROVE  RunKept
BY DEF TypeOK, RunKept

LEMMA RunSame == ASSUME TypeOK, UNCHANGED robj PROVE RunKept
BY DEF TypeOK, RunKept

LEMMA FileSame == ASSUME TypeOK, DiskInv, UNCHANGED <<disk, wire, host>> PROVE FileKept
BY DEF TypeOK, FileKept, DiskInv, disk, Sent

LEMMA BoundsSame == ASSUME TypeOK, UNCHANGED <<wire, host, bounds>> PROVE BoundsKept
BY DEF TypeOK, BoundsKept, bounds

LEMMA AdmitKeeps ==
  ASSUME TypeOK, NEW c \in Calls, runRef[c] \in Calls, robj[runRef[c]] \in Run,
         NEW a \in Admissions, Admit(c, a)
  PROVE  RunKept
<1> DEFINE r == runRef[c]
           x == [robj[r] EXCEPT !.admission = a]
<1>1. x \in Run /\ x.id = robj[r].id
    BY DEF Run
<1>2. robj' = [robj EXCEPT ![r] = x]
    BY DEF Admit
<1> QED
    BY <1>1, <1>2, RunSet

LEMMA FinalizeKeeps ==
  ASSUME TypeOK, NEW c \in Calls, runRef[c] \in Calls, robj[runRef[c]] \in Run,
         NEW s \in Statuses, Finalize(c, s)
  PROVE  RunKept
<1> DEFINE r == runRef[c]
           x == [robj[r] EXCEPT !.status = s]
<1>1. x \in Run /\ x.id = robj[r].id
    BY DEF Run
<1>2. robj' = [robj EXCEPT ![r] = x]
    BY DEF Finalize
<1> QED
    BY <1>1, <1>2, RunSet

LEMMA TransitionKeeps ==
  ASSUME TypeOK, NEW c \in Calls, opRef[c] \in Calls, obj[opRef[c]] \in OpObj,
         NEW state \in OpStates, NEW p, NEW q,
         Transition(c, state, p, q) \/ Conflict(c, state, q)
  PROVE  /\ ObjKept /\ UNCHANGED <<journal, index, runs>>
         /\ Await(c, p, q) \/ Continue(c, "done", q)
BY ObjSet, ObjSame DEF Transition, Conflict

LEMMA RestPoints ==
  /\ {"done", "refresh", "dispatch"} \subseteq Points \ Early
  /\ {"refresh", "dispatch"} \subseteq OpPoints
  /\ "done" \notin OpPoints /\ "done" \notin RunPoints /\ "done" \in PollPoints /\ "refresh" \in PollPoints
  /\ RunPoints \subseteq OpPoints
BY DEF Points, Early, Waiting, OpPoints, RunPoints, PollPoints

\* A run whose refresh is over: the caller saves, asks again, or ends.
LEMMA AfterRefreshKeeps ==
  ASSUME IInv, NEW c \in Calls, NEW q, AfterRefresh(c, q),
         pc[c] \in {"refresh", "savingRefresh", "savingMissing"}
  PROVE  ObjKept /\ UNCHANGED <<journal, index, runs>> /\ Moves(c, q)
<1>1. pc[c] \in RunPoints /\ pc[c] \in OpPoints
    BY DEF RunPoints, OpPoints, Points, Waiting
<1>2. \/ Await(c, "savingFinal", q) \/ Continue(c, "done", q)
      \/ Continue(c, "dispatch", q) /\ path[c] # "poll"
    BY DEF AfterRefresh
<1>3. \E p \in {"savingFinal", "done", "dispatch"} : MovesTo(c, p, q)
  <2>1. CASE Await(c, "savingFinal", q)
    <3>1. MovesTo(c, "savingFinal", q)
        BY <1>1, <2>1 DEF MovesTo, RunPoints, PollPoints, Points, Early, Waiting
    <3> QED
        BY <3>1
  <2>2. CASE Continue(c, "done", q)
    <3>1. MovesTo(c, "done", q)
        BY <2>2, RestPoints DEF MovesTo
    <3> QED
        BY <3>1
  <2>3. CASE Continue(c, "dispatch", q) /\ path[c] # "poll"
    <3>1. MovesTo(c, "dispatch", q)
        BY <1>1, <2>3, RestPoints DEF MovesTo
    <3> QED
        BY <3>1
  <2> QED
      BY <1>2, <2>1, <2>2, <2>3
<1> QED
    BY <1>3, ObjSame DEF AfterRefresh, Moves, IInv

\* A transition of the operation a call holds, or the conflict it ends in.
LEMMA TransitionMoves ==
  ASSUME IInv, NEW c \in Calls, pc[c] \in OpPoints, path[c] # "poll",
         NEW state \in OpStates, NEW q,
         NEW p \in Waiting \ {"claiming"}, p \in RunPoints => pc[c] \in RunPoints,
         Transition(c, state, p, q) \/ Conflict(c, state, q)
  PROVE  ObjKept /\ UNCHANGED <<journal, index, runs>> /\ Moves(c, q)
<1>1. TypeOK /\ opRef[c] \in Calls /\ obj[opRef[c]] \in OpObj
    BY HoldsOp DEF IInv
<1>2. ObjKept /\ UNCHANGED <<journal, index, runs>> /\ (Await(c, p, q) \/ Continue(c, "done", q))
    BY <1>1, TransitionKeeps
<1>3. CASE Await(c, p, q)
  <2>1. p \in Points \ Early
      BY DEF Points, Early, Waiting
  <2>2. MovesTo(c, p, q)
      BY <1>3, <2>1 DEF MovesTo
  <2> QED
      BY <1>2, <2>2 DEF Moves
<1>4. CASE Continue(c, "done", q)
  <2>1. MovesTo(c, "done", q)
      BY <1>4, RestPoints DEF MovesTo
  <2> QED
      BY <1>2, <2>1 DEF Moves
<1> QED
    BY <1>2, <1>3, <1>4

-----------------------------------------------------------------------------
(* One lemma per action.                                                   *)

\* The Host took the prompt.
LEMMA AcceptedStep ==
  ASSUME IInv, NEW c \in Calls, Accepted(c)
  PROVE  IInv'
<1>1. pc[c] \in OpPoints /\ pc[c] \in RunPoints /\ pc[c] \notin Waiting /\ pc[c] \notin PollPoints
    BY DEF Accepted, OpPoints, RunPoints, PollPoints, Points, Waiting
<1>2. RunKept
    BY <1>1, HoldsRun, AdmitKeeps DEF IInv, Accepted, Admissions
<1>3. ObjKept /\ UNCHANGED <<journal, index, runs>> /\ Moves(c, queue)
  <2>1. path[c] # "poll"
      BY <1>1, NotPolling
  <2>2. "acknowledged" \in OpStates /\ "savingAck" \in Waiting \ {"claiming"}
      BY DEF OpStates, Waiting
  <2> QED
      BY <1>1, <2>1, <2>2, TransitionMoves DEF Accepted
<1>4. FileKept /\ BoundsKept
    BY FileSame, BoundsSame DEF IInv, Accepted
<1>5. MovesOn(c, queue)
    BY <1>2, <1>3, <1>4 DEF MovesOn, Accepted
<1> QED
    BY <1>1, <1>5, MovesOnFromRest

\* The Host refused the prompt.
LEMMA RejectedStep ==
  ASSUME IInv, NEW c \in Calls, Rejected(c)
  PROVE  IInv'
<1>1. pc[c] \in OpPoints /\ pc[c] \in RunPoints /\ pc[c] \notin Waiting /\ pc[c] \notin PollPoints
    BY DEF Rejected, OpPoints, RunPoints, PollPoints, Points, Waiting
<1>2. RunKept
    BY <1>1, HoldsRun, AdmitKeeps DEF IInv, Rejected, Admissions
<1>3. ObjKept /\ UNCHANGED <<journal, index, runs>> /\ Moves(c, queue)
  <2>1. path[c] # "poll"
      BY <1>1, NotPolling
  <2>2. "failed" \in OpStates /\ "savingReject" \in Waiting \ {"claiming"}
      BY DEF OpStates, Waiting
  <2> QED
      BY <1>1, <2>1, <2>2, TransitionMoves DEF Rejected
<1>4. FileKept /\ BoundsKept
    BY DEF IInv, TypeOK, DiskInv, Sent, FileKept, BoundsKept, Rejected, disk, bounds
<1>5. MovesOn(c, queue)
    BY <1>2, <1>3, <1>4 DEF MovesOn, Rejected
<1> QED
    BY <1>1, <1>5, MovesOnFromRest

\* Nobody knows whether the Host took the prompt.
LEMMA UnansweredStep ==
  ASSUME IInv, NEW c \in Calls, Unanswered(c)
  PROVE  IInv'
<1>1. pc[c] \in OpPoints /\ pc[c] \in RunPoints /\ pc[c] \notin Waiting /\ pc[c] \notin PollPoints
    BY DEF Unanswered, OpPoints, RunPoints, PollPoints, Points, Waiting
<1>2. RunKept
    BY <1>1, HoldsRun, AdmitKeeps DEF IInv, Unanswered, Admissions
<1>3. ObjKept /\ UNCHANGED <<journal, index, runs>> /\ Moves(c, queue)
  <2>1. path[c] # "poll"
      BY <1>1, NotPolling
  <2>2. "unknown" \in OpStates /\ "savingUnknown" \in Waiting \ {"claiming"}
      BY DEF OpStates, Waiting
  <2> QED
      BY <1>1, <2>1, <2>2, TransitionMoves DEF Unanswered
<1>4. FileKept /\ BoundsKept
    BY FileSame, BoundsSame DEF IInv, Unanswered
<1>5. MovesOn(c, queue)
    BY <1>2, <1>3, <1>4 DEF MovesOn, Unanswered
<1> QED
    BY <1>1, <1>5, MovesOnFromRest

\* A failure before the session is reserved.
LEMMA SetUpFailsEarlyStep ==
  ASSUME IInv, NEW c \in Calls, SetUpFailsEarly(c)
  PROVE  IInv'
<1>1. pc[c] \notin Waiting
    BY DEF SetUpFailsEarly, Waiting
<1>2. MovesTo(c, "done", queue)
    BY RestPoints DEF MovesTo, Continue, SetUpFailsEarly, memory
<1>3. MovesOn(c, queue)
    BY <1>2, ObjSame, RunSame, FileSame, BoundsSame DEF IInv, MovesOn, Moves, SetUpFailsEarly, memory
<1> QED
    BY <1>1, <1>3, MovesOnFromRest

\* A failure after it fails the operation.
LEMMA SetUpFailsStep ==
  ASSUME IInv, NEW c \in Calls, SetUpFails(c)
  PROVE  IInv'
<1>1. pc[c] \in OpPoints /\ pc[c] \notin Waiting /\ pc[c] \notin PollPoints
    BY DEF SetUpFails, OpPoints, PollPoints, Points, Waiting
<1>2. path[c] # "poll"
    BY <1>1, NotPolling
<1>3. MovesTo(c, "savingSetupFailure", queue)
    BY <1>1, <1>2 DEF MovesTo, SetUpFails, Points, Early, Waiting, RunPoints
<1>4. ObjKept
    BY <1>1, <1>2, HoldsOp, ObjSet DEF IInv, SetUpFails, OpStates
<1>5. MovesOn(c, queue)
    BY <1>3, <1>4, RunSame, FileSame, BoundsSame DEF IInv, MovesOn, Moves, SetUpFails
<1> QED
    BY <1>1, <1>5, MovesOnFromRest

\* The prompt leaves the process under an operation the file knows.
LEMMA DispatchStep ==
  ASSUME IInv, NEW c \in Calls, Dispatch(c)
  PROVE  IInv'
<1>1. /\ pc[c] \in OpPoints /\ pc[c] \in RunPoints /\ pc[c] \notin Waiting /\ pc[c] \notin PollPoints
    BY DEF Dispatch, OpPoints, RunPoints, PollPoints, Points, Waiting
<1>2. path[c] # "poll"
    BY <1>1, NotPolling
<1>3. /\ opRef[c] \in Calls /\ obj[opRef[c]] \in OpObj /\ obj[opRef[c]] # NoObj
      /\ runRef[c] \in Calls /\ robj[runRef[c]] \in Run
    BY <1>1, <1>2, HoldsOp, HoldsRun
<1>4. RequestOf(c) \in Request /\ diskOp[RequestOf(c).op] # NoOp
    BY <1>3 DEF IInv, MemInv, MemOK, RequestOf, Request, OpObj, Run
<1>5. FileKept /\ BoundsKept
    BY <1>4 DEF IInv, TypeOK, DiskInv, Sent, FileKept, BoundsKept, Dispatch, disk, bounds
<1>6. MovesTo(c, "answer", queue)
    BY <1>1, <1>2 DEF MovesTo, Continue, Dispatch, memory, Points, Early, Waiting
<1>7. MovesOn(c, queue)
    BY <1>5, <1>6, ObjSame, RunSame DEF IInv, MovesOn, Moves, Dispatch, memory
<1> QED
    BY <1>1, <1>7, MovesOnFromRest

-----------------------------------------------------------------------------
(* Refresh.                                                                *)

LEMMA MovesSave ==
  ASSUME NEW c, NEW q, NEW p \in Waiting \ {"claiming"}, Await(c, p, q), pc[c] \in OpPoints,
         p \in RunPoints => pc[c] \in RunPoints, path[c] = "poll" => p \in PollPoints
  PROVE  Moves(c, q)
<1>1. p \in Points \ Early
    BY DEF Points, Early, Waiting
<1>2. MovesTo(c, p, q)
    BY <1>1 DEF MovesTo
<1> QED
    BY <1>2 DEF Moves

LEMMA MovesRest ==
  ASSUME NEW c, NEW q, NEW p \in {"dispatch", "refresh", "done"}, Continue(c, p, q),
         p = "done" \/ pc[c] \in RunPoints, path[c] = "poll" => p \in PollPoints
  PROVE  Moves(c, q)
<1>1. MovesTo(c, p, q)
    BY RestPoints DEF MovesTo
<1> QED
    BY <1>1 DEF Moves

\* The run a call holds belongs to an operation of the journal.
LEMMA RunsOperation ==
  ASSUME IInv, NEW c \in Calls, pc[c] \in RunPoints
  PROVE  LET o == journal[robj[runRef[c]].id] IN o \in Calls /\ obj[o] \in OpObj
<1>1. /\ runRef[c] \in Calls /\ robj[runRef[c]] \in Run /\ robj[runRef[c]] # NoRun
    BY HoldsRun
<1> DEFINE i == robj[runRef[c]].id
<1>2. i \in Calls /\ journal[i] # None
    BY <1>1 DEF IInv, MemInv, MemOK, Run
<1>3. journal[i] \in Calls /\ obj[journal[i]] # NoObj
    BY <1>2 DEF IInv, MemInv, MemOK, TypeOK
<1> QED
    BY <1>3 DEF IInv, TypeOK

LEMMA RefreshConcludedStep ==
  ASSUME IInv, NEW c \in Calls, RefreshConcluded(c)
  PROVE  IInv'
<1>1. pc[c] \in {"refresh", "savingRefresh", "savingMissing"} /\ pc[c] \notin Waiting
    BY DEF RefreshConcluded, Waiting
<1>2. MovesOn(c, queue)
    BY <1>1, AfterRefreshKeeps, RunSame, FileSame, BoundsSame DEF IInv, MovesOn, RefreshConcluded
<1> QED
    BY <1>1, <1>2, MovesOnFromRest

LEMMA RefreshFailsStep ==
  ASSUME IInv, NEW c \in Calls, RefreshFails(c)
  PROVE  IInv'
<1>1. pc[c] \notin Waiting
    BY DEF RefreshFails, Waiting
<1>2. Moves(c, queue)
    BY MovesRest, RestPoints DEF RefreshFails, Continue, memory
<1>3. MovesOn(c, queue)
    BY <1>2, ObjSame, RunSame, FileSame, BoundsSame DEF IInv, MovesOn, RefreshFails, memory
<1> QED
    BY <1>1, <1>3, MovesOnFromRest

\* The prompt is in the history.
LEMMA RefreshFindsStep ==
  ASSUME IInv, NEW c \in Calls, RefreshFinds(c)
  PROVE  IInv'
<1> DEFINE r == runRef[c]
           o == journal[robj[r].id]
           state == IF obj[o].state = "unknown" THEN "reconciled" ELSE "acknowledged"
           seen  == [robj EXCEPT ![r].admission = "accepted", ![r].seq = 1]
<1>1. /\ pc[c] \in {"refresh", "savingRefresh", "savingMissing"}
      /\ pc[c] \notin Waiting /\ pc[c] \in RunPoints /\ pc[c] \in OpPoints
    BY DEF RefreshFinds, RunPoints, OpPoints, Points, Waiting
<1> SUFFICES MovesOn(c, queue)
    BY <1>1, MovesOnFromRest
<1>2. /\ r \in Calls /\ robj[r] \in Run
      /\ o \in Calls /\ obj[o] \in OpObj
    BY <1>1, HoldsRun, RunsOperation
<1>3. TypeOK /\ FileKept /\ BoundsKept /\ UNCHANGED <<path, opRef, runRef, loaded>>
    BY FileSame, BoundsSame DEF IInv, RefreshFinds
<1>4. ASSUME NEW s \in Statuses, robj' = [seen EXCEPT ![r].status = s]
      PROVE  RunKept
  <2> DEFINE x1 == [robj[r] EXCEPT !.admission = "accepted"]
             x2 == [x1 EXCEPT !.seq = 1]
             x  == [x2 EXCEPT !.status = s]
  <2>1. x1 \in Run /\ x1.id = robj[r].id
      BY <1>2 DEF Run, Admissions
  <2>2. x2 \in Run /\ x2.id = x1.id
    <3>1. 1 \in 0..1
        OBVIOUS
    <3> HIDE DEF x1
    <3> QED
        BY <2>1, <3>1 DEF Run
  <2>4. x \in Run /\ x.id = x2.id
    <3> HIDE DEF x1, x2
    <3> QED
        BY <2>2 DEF Run
  <2>3. robj' = [robj EXCEPT ![r] = x]
      BY <1>2, <1>3, <1>4 DEF TypeOK
  <2> QED
      BY <1>2, <1>3, <2>1, <2>2, <2>3, <2>4, RunSet
<1>5. ASSUME robj' = seen PROVE RunKept
  <2>1. seen = [seen EXCEPT ![r].status = robj[r].status]
      BY <1>2, <1>3 DEF TypeOK, Run
  <2> QED
      BY <1>2, <1>4, <1>5, <2>1 DEF Run
<1>6. CASE /\ robj' = seen
           /\ obj' = [obj EXCEPT ![o].state = state, ![o].at = clock]
           /\ UNCHANGED <<journal, index, runs>>
           /\ Await(c, "savingRefresh", queue)
  <2>1. ObjKept
      BY <1>2, <1>3, <1>6, ObjSet DEF OpStates
  <2>2. Moves(c, queue)
      BY <1>1, <1>6, MovesSave DEF Waiting, PollPoints
  <2> QED
      BY <1>3, <1>5, <1>6, <2>1, <2>2 DEF MovesOn
<1>7. CASE /\ robj' = seen
           /\ UNCHANGED <<obj, journal, index, runs>>
           /\ Continue(c, "done", queue)
  <2>1. Moves(c, queue)
      BY <1>7, MovesRest, RestPoints
  <2> QED
      BY <1>3, <1>5, <1>7, <2>1, ObjSame DEF MovesOn
<1>8. CASE /\ \E s \in {"running", "succeeded"} : robj' = [seen EXCEPT ![r].status = s]
           /\ AfterRefresh(c, queue)
  <2>1. RunKept
      BY <1>4, <1>8 DEF Statuses
  <2> QED
      BY <1>1, <1>3, <1>8, <2>1, AfterRefreshKeeps DEF MovesOn
<1> QED
    BY <1>6, <1>7, <1>8 DEF RefreshFinds

\* The prompt is not in the history.
LEMMA RefreshMissesStep ==
  ASSUME IInv, NEW c \in Calls, RefreshMisses(c)
  PROVE  IInv'
<1> DEFINE r == runRef[c]
           o == journal[robj[r].id]
           rejected == [robj EXCEPT ![r].admission = "rejected"]
<1>1. /\ pc[c] \in {"refresh", "savingRefresh", "savingMissing"}
      /\ pc[c] \notin Waiting /\ pc[c] \in RunPoints /\ pc[c] \in OpPoints
    BY DEF RefreshMisses, RunPoints, OpPoints, Points, Waiting
<1> SUFFICES MovesOn(c, queue)
    BY <1>1, MovesOnFromRest
<1>2. /\ r \in Calls /\ robj[r] \in Run
      /\ o \in Calls /\ obj[o] \in OpObj
    BY <1>1, HoldsRun, RunsOperation
<1>3. TypeOK /\ FileKept /\ BoundsKept /\ UNCHANGED <<path, opRef, runRef, loaded>>
    BY FileSame, BoundsSame DEF IInv, RefreshMisses
<1>4. ASSUME robj' = rejected PROVE RunKept
    BY <1>2, <1>3, <1>4, AdmitKeeps DEF Admit, Admissions
<1>5. CASE UNCHANGED robj /\ AfterRefresh(c, queue)
    BY <1>1, <1>3, <1>5, AfterRefreshKeeps, RunSame DEF MovesOn
<1>6. CASE /\ robj' = rejected
           /\ obj' = [obj EXCEPT ![o].state = "failed", ![o].at = clock]
           /\ UNCHANGED <<journal, index, runs>>
           /\ Await(c, "savingMissing", queue)
  <2>1. ObjKept
      BY <1>2, <1>3, <1>6, ObjSet DEF OpStates
  <2>2. Moves(c, queue)
      BY <1>1, <1>6, MovesSave DEF Waiting, PollPoints
  <2> QED
      BY <1>3, <1>4, <1>6, <2>1, <2>2 DEF MovesOn
<1>7. CASE /\ robj' = [rejected EXCEPT ![r].status = "failed"]
           /\ AfterRefresh(c, queue)
  <2> DEFINE x == [robj[r] EXCEPT !.admission = "rejected", !.status = "failed"]
  <2>1. x \in Run /\ x.id = robj[r].id
      BY <1>2 DEF Run, Admissions, Statuses
  <2>2. robj' = [robj EXCEPT ![r] = x]
      BY <1>2, <1>3, <1>7 DEF TypeOK
  <2>3. RunKept
      BY <1>2, <1>3, <2>1, <2>2, RunSet
  <2> QED
      BY <1>1, <1>3, <1>7, <2>3, AfterRefreshKeeps DEF MovesOn
<1>8. CASE /\ robj' = rejected
           /\ UNCHANGED <<obj, journal, index, runs>>
           /\ Continue(c, "done", queue)
  <2>1. Moves(c, queue)
      BY <1>8, MovesRest, RestPoints
  <2> QED
      BY <1>3, <1>4, <1>8, <2>1, ObjSame DEF MovesOn
<1> QED
    BY <1>5, <1>6, <1>7, <1>8 DEF RefreshMisses

-----------------------------------------------------------------------------
(* The writes of the state file.                                           *)

\* The queue after its head has been taken.
LEMMA TakenFromQueue ==
  ASSUME IInv, NEW c \in Calls, queue # <<>>, Head(queue).call = c
  PROVE  /\ QueueOK(Tail(queue), pc, diskOp) /\ Absent(c, Tail(queue))
         /\ Head(queue) \in Job /\ Agrees(Head(queue), diskOp)
         /\ pc[c] \in Waiting /\ (Head(queue).kind = "claim" <=> pc[c] = "claiming")
         /\ Head(queue).kind = "claim" => Head(queue).key \in Keys
BY QueueTail DEF IInv, QueueInv, Awaited

LEMMA MergeKeeps ==
  ASSUME TypeOK, DiskInv, NEW job \in Job, Agrees(job, diskOp), Merge(job), UNCHANGED <<wire, host>>
  PROVE  FileKept
<1>1. \A i \in Calls : job.op[i] \in Op \cup {NoOp} /\ job.run[i] \in Run \cup {NoRun}
    BY DEF Job
<1>2. \A i \in Calls : /\ diskOp'[i] = FreshestOperation(diskOp[i], job.op[i])
                       /\ diskOp'[i] \in {diskOp[i], job.op[i]}
                       /\ job.op[i] = NoOp => diskOp'[i] = diskOp[i]
    BY DEF Merge, FreshestOperation
<1>3. \A i \in Calls : diskOp'[i] \in Op \cup {NoOp} /\ diskOp'[i].key = diskOp[i].key
    BY <1>1, <1>2 DEF TypeOK, Agrees
<1>4. \A i \in Calls : diskOp'[i] = NoOp <=> diskOp[i] = NoOp
    BY <1>3, ConstantsAssumption DEF TypeOK, Op, NoOp
<1>5. \A i \in Calls : diskRun'[i] \in {diskRun[i], job.run[i]}
    BY DEF Merge, FreshestRun
<1>6. \A i \in Calls : diskRun'[i] \in Run \cup {NoRun}
    BY <1>1, <1>5 DEF TypeOK
<1>7. \A i \in Calls : diskRun'[i] # NoRun => diskRun'[i].id = i /\ diskOp'[i] # NoOp
    BY <1>4, <1>5 DEF DiskInv, Agrees
<1>8. DiskInv'
    BY <1>3, <1>4, <1>7 DEF DiskInv, Sent, TypeOK, Request
<1>9. /\ diskOp' = [i \in Calls |-> diskOp'[i]]
      /\ diskRun' = [i \in Calls |-> diskRun'[i]]
    BY DEF Merge
<1> QED
    BY <1>3, <1>6, <1>8, <1>9 DEF FileKept

LEMMA ResumeKeeps ==
  ASSUME IInv, NEW c \in Calls, NEW q, Resume(c, q)
  PROVE  ObjKept /\ RunKept /\ UNCHANGED <<journal, index, runs>> /\ Moves(c, q)
<1> DEFINE Kept == UNCHANGED <<obj, journal, index, robj, runs>>
<1>0. Kept => ObjKept /\ RunKept /\ UNCHANGED <<journal, index, runs>>
    BY ObjSame, RunSame DEF IInv
<1>1. CASE pc[c] = "savingRun" /\ Submit(c, q)
  <2>1. pc[c] \in OpPoints /\ pc[c] \in RunPoints /\ path[c] # "poll"
      BY <1>1, NotPolling DEF OpPoints, RunPoints, PollPoints, Points, Waiting
  <2>2. CASE Transition(c, "submitted", "savingSubmit", q)
    <3>1. "submitted" \in OpStates /\ "savingSubmit" \in Waiting \ {"claiming"}
        BY DEF OpStates, Waiting
    <3> QED
        BY <1>1, <2>1, <2>2, <3>1, TransitionMoves, RunSame DEF Submit, IInv
  <2>3. CASE UNCHANGED <<obj, journal, index, runs>> /\ Continue(c, "dispatch", q)
    <3>1. Moves(c, q)
        BY <2>1, <2>3, MovesRest
    <3> QED
        BY <1>1, <2>3, <3>1, ObjSame, RunSame DEF Submit, IInv
  <2> QED
      BY <1>1, <2>2, <2>3 DEF Submit
<1>2. CASE pc[c] = "savingSubmit" /\ Kept /\ Continue(c, "dispatch", q)
  <2>1. pc[c] \in RunPoints /\ path[c] # "poll"
      BY <1>2, NotPolling DEF RunPoints, PollPoints
  <2> QED
      BY <1>0, <1>2, <2>1, MovesRest
<1>3. CASE pc[c] \in {"savingAck", "savingUnknown"} /\ Kept /\ Continue(c, "refresh", q)
  <2>1. pc[c] \in RunPoints
      BY <1>3 DEF RunPoints
  <2> QED
      BY <1>0, <1>3, <2>1, MovesRest DEF PollPoints
<1>4. CASE pc[c] \in {"savingAck", "savingUnknown"} /\ Kept /\ Await(c, "savingFinal", q)
  <2>1. pc[c] \in OpPoints
      BY <1>4 DEF OpPoints, Points, Waiting
  <2>2. Moves(c, q)
      BY <1>4, <2>1, MovesSave DEF Waiting, RunPoints, PollPoints
  <2> QED
      BY <1>0, <1>4, <2>2
<1>5. CASE /\ pc[c] \in {"savingReject", "savingFailure"} /\ Finalize(c, "failed")
           /\ UNCHANGED <<obj, journal, index, runs>> /\ Await(c, "savingFinal", q)
  <2>1. pc[c] \in OpPoints /\ pc[c] \in RunPoints
      BY <1>5 DEF OpPoints, RunPoints, Points, Waiting
  <2>2. RunKept
      BY <1>5, <2>1, HoldsRun, FinalizeKeeps DEF IInv, Statuses
  <2>3. Moves(c, q)
      BY <1>5, <2>1, MovesSave DEF Waiting, RunPoints, PollPoints
  <2> QED
      BY <1>5, <2>2, <2>3, ObjSame DEF IInv
<1>6. CASE pc[c] = "savingRefresh" /\ Conclude(c, q)
  <2>1. pc[c] \in RunPoints /\ pc[c] \in {"refresh", "savingRefresh", "savingMissing"}
      BY <1>6 DEF RunPoints
  <2>2. runRef[c] \in Calls /\ robj[runRef[c]] \in Run
      BY <2>1, HoldsRun
  <2>3. PICK s \in {robj[runRef[c]].status, "succeeded"} : Finalize(c, s)
      BY <1>6 DEF Conclude
  <2>4. s \in Statuses
      BY <2>2 DEF Run, Statuses
  <2>5. RunKept
      BY <2>2, <2>3, <2>4, FinalizeKeeps DEF IInv
  <2> QED
      BY <1>6, <2>1, <2>5, AfterRefreshKeeps DEF Conclude
<1>7. CASE pc[c] = "savingMissing" /\ Finalize(c, "failed") /\ AfterRefresh(c, q)
  <2>1. pc[c] \in RunPoints /\ pc[c] \in {"refresh", "savingRefresh", "savingMissing"}
      BY <1>7 DEF RunPoints
  <2>2. RunKept
      BY <1>7, <2>1, HoldsRun, FinalizeKeeps DEF IInv, Statuses
  <2> QED
      BY <1>7, <2>1, <2>2, AfterRefreshKeeps
<1>8. CASE Kept /\ Continue(c, "done", q)
  <2>1. Moves(c, q)
      BY <1>8, MovesRest, RestPoints
  <2> QED
      BY <1>0, <1>8, <2>1
<1> QED
    BY <1>1, <1>2, <1>3, <1>4, <1>5, <1>6, <1>7, <1>8 DEF Resume

\* A save that ends.
LEMMA SaveDoneStep ==
  ASSUME IInv, NEW c \in Calls, SaveDone(c)
  PROVE  IInv'
<1>1. /\ QueueOK(Tail(queue), pc, diskOp) /\ Absent(c, Tail(queue))
      /\ Head(queue) \in Job /\ Agrees(Head(queue), diskOp)
    BY TakenFromQueue DEF SaveDone, Writes
<1>2. FileKept
    BY <1>1, MergeKeeps DEF IInv, SaveDone
<1>3. MovesOn(c, Tail(queue))
    BY <1>2, ResumeKeeps, BoundsSame DEF IInv, SaveDone, MovesOn
<1> QED
    BY <1>1, <1>3, MovesOnInv

\* A write that fails.
LEMMA WriteFailsStep ==
  ASSUME IInv, NEW c \in Calls, WriteFails(c)
  PROVE  IInv'
<1> DEFINE q == Tail(queue)
           r == runRef[c]
           caught == /\ pc[c] \in {"savingRun", "savingSubmit"} /\ path[c] = "fresh"
                     /\ robj[r].admission = "pending"
<1>1. QueueOK(q, pc, diskOp) /\ Absent(c, q)
    BY TakenFromQueue DEF WriteFails
<1>2. FileKept /\ BoundsKept /\ TypeOK /\ UNCHANGED <<path, opRef, runRef, loaded>>
  <2>1. FileKept
      BY FileSame DEF IInv, WriteFails
  <2>2. failures' \in 0..MaxWriteFailures
      BY ConstantsAssumption DEF IInv, TypeOK, WriteFails
  <2> QED
      BY <2>1, <2>2 DEF IInv, TypeOK, BoundsKept, WriteFails
<1>3. ASSUME caught
      PROVE  /\ pc[c] \in OpPoints /\ pc[c] \in RunPoints /\ path[c] # "poll"
             /\ r \in Calls /\ robj[r] \in Run
  <2>1. pc[c] \in OpPoints /\ pc[c] \in RunPoints
      BY <1>3 DEF OpPoints, RunPoints, Points, Waiting
  <2> QED
      BY <1>3, <2>1, HoldsRun
<1> SUFFICES MovesOn(c, q)
    BY <1>1, MovesOnInv
<1>4. CASE caught /\ CatchPending(c, q)
  <2>1. RunKept
      BY <1>2, <1>3, <1>4, AdmitKeeps DEF CatchPending, Admissions
  <2>2. "failed" \in OpStates /\ "savingFailure" \in Waiting \ {"claiming"}
      BY DEF OpStates, Waiting
  <2>3. ObjKept /\ UNCHANGED <<journal, index, runs>> /\ Moves(c, q)
      BY <1>3, <1>4, <2>2, TransitionMoves DEF CatchPending
  <2> QED
      BY <1>2, <2>1, <2>3 DEF MovesOn
<1>5. CASE /\ caught
           /\ robj' = [robj EXCEPT ![r].admission = "rejected", ![r].status = "failed"]
           /\ UNCHANGED <<obj, journal, index, runs>> /\ Await(c, "savingFinal", q)
  <2> DEFINE x == [robj[r] EXCEPT !.admission = "rejected", !.status = "failed"]
  <2>1. x \in Run /\ x.id = robj[r].id
      BY <1>3, <1>5 DEF Run, Admissions, Statuses
  <2>2. robj' = [robj EXCEPT ![r] = x]
      BY <1>2, <1>3, <1>5 DEF TypeOK
  <2>3. RunKept
      BY <1>2, <1>3, <1>5, <2>1, <2>2, RunSet
  <2>4. Moves(c, q)
      BY <1>3, <1>5, MovesSave DEF Waiting, RunPoints, PollPoints
  <2> QED
      BY <1>2, <1>5, <2>3, <2>4, ObjSame DEF MovesOn
<1>6. CASE UNCHANGED <<obj, journal, index, robj, runs>> /\ Continue(c, "done", q)
  <2>1. Moves(c, q)
      BY <1>6, MovesRest, RestPoints
  <2> QED
      BY <1>2, <1>6, <2>1, ObjSame, RunSame DEF MovesOn
<1> QED
    BY <1>4, <1>5, <1>6 DEF WriteFails

-----------------------------------------------------------------------------
(* The steps that change what a call holds, or what the memory maps.       *)

\* A new claim joins the queue.
LEMMA CallClaimsStep ==
  ASSUME IInv, NEW c \in Calls, NEW k \in Keys, CallClaims(c, k)
  PROVE  IInv'
<1> DEFINE job == ClaimOf(c, k)
<1>1. pc[c] = "idle" /\ pc[c] \notin Waiting
    BY DEF CallClaims, MayStart, Waiting
<1>2. pc' = [pc EXCEPT ![c] = "claiming"] /\ "claiming" \in Points /\ "claiming" \in Waiting
    BY DEF CallClaims, Goto, Points, Waiting
<1>3. TypeOK'
    BY <1>2 DEF IInv, TypeOK, CallClaims, disk, bounds
<1>4. DiskInv' /\ MemInv' /\ IndexInv'
    BY DEF IInv, DiskInv, MemInv, IndexInv, Sent, CallClaims, disk
<1>5. QueueInv'
  <2>1. job \in Job /\ job.call = c /\ job.kind = "claim" /\ job.key = k /\ Agrees(job, diskOp)
    <3>1. job = [kind |-> "claim", call |-> c, key |-> k, at |-> clock,
                 op |-> [i \in Calls |-> NoOp], run |-> [i \in Calls |-> NoRun]]
        BY DEF ClaimOf
    <3>2. clock \in 0..MaxClock
        BY DEF IInv, TypeOK
    <3> QED
        BY <3>1, <3>2 DEF Job, Agrees
  <2>2. Absent(c, queue) /\ QueueOK(queue, pc, diskOp)
      BY <1>1, QueueAbsent DEF IInv, QueueInv
  <2>3. QueueOK(queue, pc', diskOp)
      BY <1>2, <2>2, QueueMove DEF IInv, TypeOK
  <2>4. pc'[c] = "claiming"
      BY <1>2 DEF IInv, TypeOK
  <2>5. Awaited(job, pc')
      BY <1>2, <2>1, <2>4 DEF Awaited
  <2>6. QueueOK(Append(queue, job), pc', diskOp)
      BY <2>1, <2>2, <2>3, <2>5, QueueAppend
  <2> QED
      BY <2>6 DEF QueueInv, CallClaims, disk
<1>6. CallInv'
  <2>1. "claiming" \notin OpPoints /\ "claiming" \notin RunPoints
      BY DEF OpPoints, RunPoints
  <2> QED
      BY <1>1, <1>2, <2>1 DEF IInv, CallInv, CallOK, Early, TypeOK, CallClaims, disk
<1> QED
    BY <1>3, <1>4, <1>5, <1>6 DEF IInv

\* Steps from rest that leave the queue alone.
LEMMA RestQueue ==
  ASSUME IInv, NEW c \in Calls, pc[c] \notin Waiting, NEW p, pc' = [pc EXCEPT ![c] = p],
         UNCHANGED <<queue, diskOp>>
  PROVE  QueueInv'
BY QueueAbsent, QueueMove DEF IInv, QueueInv, TypeOK

\* A replay holds the record the journal maps its key to.
LEMMA CallReplaysStep ==
  ASSUME IInv, NEW c \in Calls, NEW k \in Keys, CallReplays(c, k)
  PROVE  IInv'
<1>1. pc[c] = "idle" /\ pc[c] \notin Waiting
    BY DEF CallReplays, MayStart, Waiting
<1>2. pc' = [pc EXCEPT ![c] = "loading"] /\ "loading" \in Points /\ "loading" \notin RunPoints
    BY DEF CallReplays, Goto, Points, RunPoints
<1>3. journal[index[k]] \in Calls /\ obj[journal[index[k]]] # NoObj
    BY DEF IInv, TypeOK, IndexInv, MemInv, MemOK, CallReplays
<1>4. TypeOK'
    BY <1>2, <1>3 DEF IInv, TypeOK, CallReplays, disk, memory, bounds
<1>5. DiskInv' /\ MemInv' /\ IndexInv'
    BY DEF IInv, DiskInv, MemInv, IndexInv, Sent, CallReplays, disk, memory
<1>6. QueueInv'
    BY <1>1, <1>2, RestQueue DEF CallReplays, disk, memory
<1>7. CallInv'
    BY <1>1, <1>2, <1>3 DEF IInv, CallInv, CallOK, Early, TypeOK, CallReplays, disk, memory
<1> QED
    BY <1>4, <1>5, <1>6, <1>7 DEF IInv

\* A poll holds a run of the Map.
LEMMA CallPollsStep ==
  ASSUME IInv, NEW c \in Calls, NEW i \in Calls, CallPolls(c, i)
  PROVE  IInv'
<1>1. pc[c] = "idle" /\ pc[c] \notin Waiting
    BY DEF CallPolls, Waiting
<1>2. pc' = [pc EXCEPT ![c] = "refresh"] /\ "refresh" \in Points
    BY DEF CallPolls, Goto, Points
<1>3. runs[i] \in Calls /\ robj[runs[i]] # NoRun
    BY DEF IInv, TypeOK, MemInv, MemOK, CallPolls
<1>4. TypeOK'
    BY <1>2, <1>3 DEF IInv, TypeOK, CallPolls, disk, memory, bounds
<1>5. DiskInv' /\ MemInv' /\ IndexInv'
    BY DEF IInv, DiskInv, MemInv, IndexInv, Sent, CallPolls, disk, memory
<1>6. QueueInv'
    BY <1>1, <1>2, RestQueue DEF CallPolls, disk, memory
<1>7. CallInv'
    BY <1>1, <1>2, <1>3 DEF IInv, CallInv, CallOK, Early, TypeOK, CallPolls, disk, memory
<1> QED
    BY <1>4, <1>5, <1>6, <1>7 DEF IInv

\* What is loaded has the key and the id of the record it is loaded for.
LEMMA LoadStep ==
  ASSUME IInv, NEW c \in Calls, Load(c)
  PROVE  IInv'
<1> DEFINE id == obj[opRef[c]].id
<1>1. pc[c] \notin Waiting /\ pc[c] \in OpPoints /\ pc[c] \notin PollPoints
    BY DEF Load, Waiting, OpPoints, Points, PollPoints
<1>2. path[c] # "poll" /\ opRef[c] \in Calls /\ obj[opRef[c]] # NoObj /\ id \in Calls
    BY <1>1, NotPolling, HoldsOp DEF OpObj
<1>3. pc' = [pc EXCEPT ![c] = "loaded"] /\ "loaded" \in Points /\ "loaded" \notin RunPoints
    BY DEF Load, Goto, Points, RunPoints
<1>4. loaded' = [loaded EXCEPT ![c] = [op |-> diskOp[id], run |-> diskRun[id]]]
    BY DEF Load
<1>5. TypeOK'
  <2>1. loaded' \in [Calls -> [op: Op \cup {NoOp}, run: Run \cup {NoRun}]]
      BY <1>2, <1>4 DEF IInv, TypeOK
  <2> QED
      BY <1>3, <2>1 DEF IInv, TypeOK, Load, disk, memory, bounds
<1>6. DiskInv' /\ MemInv' /\ IndexInv'
    BY DEF IInv, DiskInv, MemInv, IndexInv, Sent, Load, disk, memory
<1>7. QueueInv'
    BY <1>1, <1>3, RestQueue DEF Load, disk, memory
<1>8. CallInv'
  <2>1. /\ pc'[c] = "loaded" /\ loaded'[c].op = diskOp[id] /\ loaded'[c].run = diskRun[id]
        /\ \A d \in Calls : d # c => pc'[d] = pc[d] /\ loaded'[d] = loaded[d]
      BY <1>3, <1>4 DEF IInv, TypeOK
  <2>2. diskRun[id] # NoRun => diskRun[id].id = id
      BY <1>2 DEF IInv, DiskInv
  <2>3. UNCHANGED <<obj, diskOp, path, opRef, runRef, robj>>
      BY DEF Load, disk, memory
  <2>4. robj[c] = NoRun
      BY DEF IInv, CallInv, CallOK, Load, Early
  <2>5. \A d \in Calls : d # c => CallOK(d)'
      BY <2>1, <2>3 DEF IInv, CallInv, CallOK
  <2>6. CallOK(c)'
      BY <1>2, <1>3, <2>1, <2>2, <2>3, <2>4 DEF IInv, CallInv, CallOK
  <2> QED
      BY <2>5, <2>6 DEF CallInv
<1> QED
    BY <1>5, <1>6, <1>7, <1>8 DEF IInv

\* Time passes, the Host takes or loses a prompt.
LEMMA HostStep ==
  ASSUME IInv, NEW m \in wire, HostPersists(m) \/ HostLoses(m)
  PROVE  IInv'
BY DEF IInv, TypeOK, DiskInv, MemInv, IndexInv, QueueInv, CallInv, CallOK, Sent, HostPersists, HostLoses,
       disk, memory, calls, bounds

LEMMA TickStep ==
  ASSUME IInv, Tick
  PROVE  IInv'
<1>1. TypeOK'
    BY ConstantsAssumption DEF IInv, TypeOK, Tick, disk, memory, calls
<1> QED
    BY <1>1 DEF IInv, DiskInv, MemInv, IndexInv, QueueInv, CallInv, CallOK, Sent, Tick,
                disk, memory, calls

LEMMA StutterStep == ASSUME IInv, UNCHANGED vars PROVE IInv'
BY DEF IInv, TypeOK, DiskInv, MemInv, IndexInv, QueueInv, CallInv, CallOK, Sent, vars,
       disk, memory, calls, bounds

\* The first run of an operation, or one that starts it over.
LEMMA SetUpStep ==
  ASSUME IInv, NEW c \in Calls, SetUp(c)
  PROVE  IInv'
<1> DEFINE o  == opRef[c]
           id == obj[o].id
           run == [id |-> id, session |-> c, admission |-> "pending", status |-> "running",
                   seq |-> 0, started |-> clock]
<1>1. /\ pc[c] \notin Waiting /\ pc[c] \in OpPoints /\ pc[c] \notin PollPoints
      /\ pc[c] \in Early
    BY DEF SetUp, Waiting, OpPoints, Points, PollPoints, Early
<1>2. /\ path[c] # "poll" /\ o \in Calls /\ obj[o] # NoObj /\ id \in Calls /\ journal[id] # None
      /\ robj[c] = NoRun
    BY <1>1, NotPolling, HoldsOp DEF OpObj, IInv, MemInv, MemOK, CallInv, CallOK
<1>3. run \in Run /\ run.id = id /\ run # NoRun
    BY <1>2, ConstantsAssumption DEF IInv, TypeOK, Run, NoRun, Admissions, Statuses
<1>4. /\ pc' = [pc EXCEPT ![c] = "savingRun"]
      /\ "savingRun" \in Points /\ "savingRun" \in Waiting \ {"claiming"}
      /\ "savingRun" \notin Early
    BY DEF SetUp, Await, Goto, Points, Waiting, Early
<1>5. /\ robj' = [robj EXCEPT ![c] = run] /\ runs' = [runs EXCEPT ![id] = c]
      /\ runRef' = [runRef EXCEPT ![c] = c]
      /\ UNCHANGED <<obj, journal, index, diskOp, diskRun, path, opRef, loaded, wire, host, bounds>>
    BY DEF SetUp, disk
<1> HIDE DEF run
<1>6. TypeOK'
    BY <1>2, <1>3, <1>4, <1>5 DEF IInv, TypeOK, bounds
<1>7. DiskInv' /\ IndexInv'
    BY <1>5 DEF IInv, DiskInv, IndexInv, Sent
<1>8. MemInv'
    BY <1>2, <1>3, <1>5, ConstantsAssumption DEF IInv, MemInv, MemOK, TypeOK, NoRun
<1>9. QueueInv'
  <2>1. Absent(c, queue) /\ QueueOK(queue, pc, diskOp') /\ pc \in [Calls -> Points]
      BY <1>1, <1>5, QueueAbsent DEF IInv, QueueInv, TypeOK
  <2> QED
      BY <1>4, <1>6, <1>8, <2>1, AwaitQueue DEF SetUp
<1>10. CallInv'
  <2>1. \A d \in Calls : d # c => /\ pc'[d] = pc[d] /\ robj'[d] = robj[d] /\ runRef'[d] = runRef[d]
      BY <1>4, <1>5 DEF IInv, TypeOK
  <2>2. \A d \in Calls : robj[d] # NoRun => robj'[d] # NoRun
      BY <1>2, <1>5 DEF IInv, TypeOK
  <2>3. \A d \in Calls : d # c => CallOK(d)'
      BY <1>5, <2>1, <2>2 DEF IInv, CallInv, CallOK
  <2>4. pc'[c] = "savingRun" /\ robj'[c] # NoRun /\ runRef'[c] = c
      BY <1>3, <1>4, <1>5 DEF IInv, TypeOK
  <2>5. CallOK(c)'
      BY <1>2, <1>4, <1>5, <2>4 DEF CallOK
  <2> QED
      BY <2>3, <2>5 DEF CallInv
<1> QED
    BY <1>6, <1>7, <1>8, <1>9, <1>10 DEF IInv

\* The claim that creates the operation of its key.
LEMMA ClaimCreatesStep ==
  ASSUME IInv, NEW c \in Calls, ClaimCreates(c)
  PROVE  IInv'
<1> DEFINE job == Head(queue)
           key == job.key
           record == [key |-> key, state |-> "prepared", at |-> job.at]
           object == [id |-> c, key |-> key, state |-> "prepared", at |-> job.at]
<1>1. /\ QueueOK(Tail(queue), pc, diskOp) /\ Absent(c, Tail(queue))
      /\ job \in Job /\ pc[c] = "claiming" /\ key \in Keys
    BY TakenFromQueue DEF ClaimCreates, Writes
<1>2. /\ obj[c] = NoObj /\ diskOp[c] = NoOp /\ path[c] = "fresh" /\ robj[c] = NoRun
    BY <1>1 DEF IInv, CallInv, CallOK, Early
<1>3. \A i \in Calls : diskOp[i].key # key
    BY DEF ClaimCreates, Claimed
<1>4. /\ record \in Op /\ object \in OpObj /\ record # NoOp /\ object # NoObj
      /\ record.key = key /\ object.key = key /\ object.id = c
    BY <1>1, ConstantsAssumption DEF Job, Op, OpObj, NoOp, NoObj, OpStates
<1>5. /\ diskOp' = [diskOp EXCEPT ![c] = record] /\ obj' = [obj EXCEPT ![c] = object]
      /\ journal' = [journal EXCEPT ![c] = c] /\ index' = [index EXCEPT ![key] = c]
      /\ opRef' = [opRef EXCEPT ![c] = c]
      /\ pc' = [pc EXCEPT ![c] = "setup"] /\ queue' = Tail(queue)
      /\ UNCHANGED <<diskRun, robj, runs, path, runRef, loaded, wire, host, bounds>>
    BY DEF ClaimCreates, Continue, Goto
<1> HIDE DEF record, object
<1>6. "setup" \in Points /\ "setup" \in Early /\ "setup" \notin RunPoints
    BY DEF Points, Early, RunPoints
<1>7. TypeOK'
    BY <1>1, <1>4, <1>5, <1>6 DEF IInv, TypeOK, bounds
<1>8. DiskInv'
    BY <1>2, <1>3, <1>4, <1>5 DEF IInv, DiskInv, TypeOK, Sent
<1>9. MemInv'
    BY <1>2, <1>4, <1>5, ConstantsAssumption DEF IInv, MemInv, MemOK, TypeOK, NoObj
<1>10. IndexInv'
    BY <1>5, ConstantsAssumption DEF IInv, IndexInv, TypeOK
<1>11. QueueInv'
  <2>1. \A i \in Calls : diskOp[i] # NoOp => diskOp'[i] = diskOp[i]
      BY <1>2, <1>5 DEF IInv, TypeOK
  <2>2. QueueOK(Tail(queue), pc, diskOp')
      BY <1>1, <2>1, QueueFile
  <2> QED
      BY <1>1, <1>5, <2>2, QueueMove DEF QueueInv, IInv, TypeOK
<1>12. CallInv'
  <2>1. \A d \in Calls : d # c =>
          /\ pc'[d] = pc[d] /\ obj'[d] = obj[d] /\ diskOp'[d] = diskOp[d] /\ opRef'[d] = opRef[d]
      BY <1>5 DEF IInv, TypeOK
  <2>2. \A d \in Calls : obj[d] # NoObj => obj'[d] = obj[d] /\ obj'[d] # NoObj
      BY <1>2, <1>5 DEF IInv, TypeOK
  <2>3. \A d \in Calls : diskOp[d] # NoOp => diskOp'[d] = diskOp[d]
      BY <1>2, <1>5 DEF IInv, TypeOK
  <2>4. \A d \in Calls : obj[d] # NoObj => obj[d].id \in Calls /\ diskOp[obj[d].id] # NoOp
      BY DEF IInv, TypeOK, OpObj, MemInv, MemOK
  <2>5. "loaded" \in OpPoints /\ "loaded" \notin PollPoints
      BY DEF OpPoints, Points, PollPoints
  <2>6. \A d \in Calls : d # c => CallOK(d)'
      BY <1>5, <2>1, <2>2, <2>3, <2>4, <2>5 DEF IInv, CallInv, CallOK, PollPoints
  <2>7. CallOK(c)'
    <3>1. pc'[c] = "setup" /\ opRef'[c] = c /\ obj'[c] # NoObj
        BY <1>4, <1>5 DEF IInv, TypeOK
    <3> QED
        BY <1>2, <1>5, <1>6, <3>1 DEF CallOK
  <2> QED
      BY <2>6, <2>7 DEF CallInv
<1> QED
    BY <1>7, <1>8, <1>9, <1>10, <1>11, <1>12 DEF IInv

\* The claim that finds the operation of its key.
LEMMA ClaimFindsStep ==
  ASSUME IInv, NEW c \in Calls, NEW i \in Calls, ClaimFinds(c, i)
  PROVE  IInv'
<1> DEFINE job == Head(queue)
           key == job.key
           copy == [id |-> i, key |-> diskOp[i].key, state |-> diskOp[i].state, at |-> diskOp[i].at]
<1>1. /\ QueueOK(Tail(queue), pc, diskOp) /\ Absent(c, Tail(queue))
      /\ job \in Job /\ pc[c] = "claiming" /\ key \in Keys
    BY TakenFromQueue DEF ClaimFinds, Writes
<1>2. /\ obj[c] = NoObj /\ path[c] = "fresh" /\ robj[c] = NoRun
    BY <1>1 DEF IInv, CallInv, CallOK, Early
<1>3. diskOp[i] # NoOp /\ diskOp[i] \in Op
    BY <1>1, ConstantsAssumption DEF ClaimFinds, Claimed, NoOp, IInv, TypeOK
<1>4. copy \in OpObj /\ copy # NoObj /\ copy.key = diskOp[i].key /\ copy.id = i
    BY <1>3, ConstantsAssumption DEF Op, OpObj, NoObj
<1>5. /\ obj' = [obj EXCEPT ![c] = copy]
      /\ journal' = [journal EXCEPT ![i] = c] /\ index' = [index EXCEPT ![key] = i]
      /\ opRef' = [opRef EXCEPT ![c] = c] /\ path' = [path EXCEPT ![c] = "replay"]
      /\ pc' = [pc EXCEPT ![c] = "loading"] /\ queue' = Tail(queue)
      /\ UNCHANGED <<diskOp, diskRun, robj, runs, runRef, loaded, wire, host, bounds>>
    BY DEF ClaimFinds, Continue, Goto, disk
<1> HIDE DEF copy
<1>6. "loading" \in Points /\ "loading" \in Early /\ "loading" \notin RunPoints
    BY DEF Points, Early, RunPoints
<1>7. TypeOK'
    BY <1>1, <1>4, <1>5, <1>6 DEF IInv, TypeOK, bounds
<1>8. DiskInv'
    BY <1>5 DEF IInv, DiskInv, TypeOK, Sent
<1>9. MemInv'
    BY <1>2, <1>3, <1>4, <1>5, ConstantsAssumption DEF IInv, MemInv, MemOK, TypeOK, NoObj
<1>10. IndexInv'
    BY <1>5, ConstantsAssumption DEF IInv, IndexInv, TypeOK
<1>11. QueueInv'
    BY <1>1, <1>5, QueueMove DEF QueueInv, IInv, TypeOK
<1>12. CallInv'
  <2>1. \A d \in Calls : d # c =>
          /\ pc'[d] = pc[d] /\ obj'[d] = obj[d] /\ opRef'[d] = opRef[d] /\ path'[d] = path[d]
      BY <1>5 DEF IInv, TypeOK
  <2>2. \A d \in Calls : obj[d] # NoObj => obj'[d] = obj[d] /\ obj'[d] # NoObj
      BY <1>2, <1>5 DEF IInv, TypeOK
  <2>3. "loaded" \in OpPoints /\ "loaded" \notin PollPoints
      BY DEF OpPoints, Points, PollPoints
  <2>4. \A d \in Calls : d # c => CallOK(d)'
      BY <1>5, <2>1, <2>2, <2>3 DEF IInv, CallInv, CallOK, PollPoints
  <2>5. CallOK(c)'
    <3>1. pc'[c] = "loading" /\ opRef'[c] = c /\ obj'[c] # NoObj /\ path'[c] = "replay"
        BY <1>4, <1>5 DEF IInv, TypeOK
    <3> QED
        BY <1>2, <1>5, <1>6, <3>1 DEF CallOK
  <2> QED
      BY <2>4, <2>5 DEF CallInv
<1> QED
    BY <1>7, <1>8, <1>9, <1>10, <1>11, <1>12 DEF IInv

\* A replay overwrites its record with what was loaded, may adopt the loaded
\* run, and resumes, refreshes, starts over or ends.
LEMMA ReplayStep ==
  ASSUME IInv, NEW c \in Calls, Replay(c)
  PROVE  IInv'
<1> DEFINE o   == opRef[c]
           id  == obj[o].id
           fromDisk == loaded[c].op
           rec == IF fromDisk = NoOp THEN obj[o]
                  ELSE [id |-> id, key |-> fromDisk.key, state |-> fromDisk.state, at |-> fromDisk.at]
           adopt == loaded[c].run # NoRun /\ runs[id] = None
           ref == IF adopt THEN c ELSE runs[id]
           sent == [rec EXCEPT !.state = "submitted", !.at = clock]
<1>1. /\ pc[c] = "loaded" /\ pc[c] \notin Waiting /\ pc[c] \in OpPoints /\ pc[c] \in Early
      /\ pc[c] \notin PollPoints
    BY DEF Replay, Waiting, OpPoints, Points, Early, PollPoints
<1>2. /\ path[c] # "poll" /\ o \in Calls /\ obj[o] \in OpObj /\ obj[o] # NoObj /\ id \in Calls
      /\ robj[c] = NoRun
    BY <1>1, NotPolling, HoldsOp DEF OpObj, IInv, CallInv, CallOK
<1>3. /\ journal[id] # None /\ diskOp[id] # NoOp /\ diskOp[id].key = obj[o].key
    BY <1>2 DEF IInv, MemInv, MemOK
<1>4. /\ fromDisk \in Op \cup {NoOp} /\ loaded[c].run \in Run \cup {NoRun}
      /\ fromDisk # NoOp => fromDisk.key = obj[o].key
      /\ loaded[c].run # NoRun => loaded[c].run.id = id
    BY <1>1, <1>3 DEF IInv, TypeOK, CallInv, CallOK
<1>5. rec \in OpObj /\ rec.id = id /\ rec.key = obj[o].key
    BY <1>2, <1>4 DEF Op, OpObj
<1>6. sent \in OpObj /\ sent.id = id /\ sent.key = obj[o].key
  <2> HIDE DEF rec
  <2> QED
      BY <1>5 DEF OpObj, OpStates, IInv, TypeOK
<1>7. PICK x \in {rec, sent} : obj' = [obj EXCEPT ![o] = x]
  <2>1. CASE obj' = [obj EXCEPT ![o] = sent]
      BY <2>1
  <2>2. CASE obj' = [obj EXCEPT ![o] = rec]
      BY <2>2
  <2> QED
      BY <2>1, <2>2 DEF Replay
<1>8. ObjKept
  <2> HIDE DEF rec, sent
  <2> QED
      BY <1>2, <1>5, <1>6, <1>7 DEF ObjKept, IInv, TypeOK
<1>9. /\ journal' \in {journal, [journal EXCEPT ![id] = o]}
      /\ robj' = (IF adopt THEN [robj EXCEPT ![c] = loaded[c].run] ELSE robj)
      /\ runs' = (IF adopt THEN [runs EXCEPT ![id] = c] ELSE runs)
      /\ runRef' = [runRef EXCEPT ![c] = ref]
      /\ UNCHANGED <<index, diskOp, diskRun, opRef, loaded, wire, host, bounds>>
    BY DEF Replay, disk
<1>10. \A p \in Calls : obj'[p] = NoObj <=> obj[p] = NoObj
    BY <1>8, ObjectsStay DEF IInv
<1>11. /\ robj' \in [Calls -> Run \cup {NoRun}]
       /\ \A d \in Calls : d # c => robj'[d] = robj[d]
       /\ \A d \in Calls : robj[d] # NoRun => robj'[d] = robj[d]
       /\ adopt => robj'[c] = loaded[c].run
       /\ ~adopt => robj'[c] = NoRun
    BY <1>2, <1>4, <1>9 DEF IInv, TypeOK
<1>12. ref \in Calls \cup {None} /\ (ref # None => robj'[ref] # NoRun)
    BY <1>2, <1>9, <1>11 DEF IInv, TypeOK, MemInv, MemOK
<1>13. DiskInv' /\ IndexInv'
    BY <1>2, <1>9, ConstantsAssumption DEF IInv, DiskInv, IndexInv, Sent, TypeOK
<1>14. MemInv'
  <2> DEFINE back == loaded[c].run
  <2>1. /\ \A p \in Calls : obj'[p].id = obj[p].id /\ obj'[p].key = obj[p].key
        /\ \A i \in Calls : journal'[i] = journal[i] \/ (i = id /\ journal'[i] = o)
      BY <1>2, <1>8, <1>9 DEF ObjKept, IInv, TypeOK
  <2>2. /\ \A p \in Calls : obj[p] # NoObj => obj[p].id \in Calls
        /\ \A r \in Calls : robj[r] # NoRun => robj[r].id \in Calls
        /\ \A i \in Calls : journal[i] \in Calls \cup {None} /\ runs[i] \in Calls \cup {None}
      BY DEF IInv, TypeOK, OpObj, Run
  <2>3. \A i \in Calls : journal'[i] # None <=> journal[i] # None
      BY <1>2, <1>3, <2>1, ConstantsAssumption
  <2>4. \A p \in Calls : obj'[p] # NoObj =>
          /\ diskOp'[obj'[p].id] # NoOp /\ diskOp'[obj'[p].id].key = obj'[p].key
          /\ journal'[obj'[p].id] # None
      BY <1>9, <1>10, <2>1, <2>2, <2>3 DEF IInv, MemInv, MemOK
  <2>5. \A i \in Calls : journal'[i] # None => obj'[journal'[i]] # NoObj /\ obj'[journal'[i]].id = i
      BY <1>2, <1>10, <2>1, <2>2 DEF IInv, MemInv, MemOK
  <2>6. \A r \in Calls : robj'[r] # NoRun => journal'[robj'[r].id] # None
    <3>1. \A r \in Calls : robj[r] # NoRun => journal[robj[r].id] # None
        BY DEF IInv, MemInv, MemOK
    <3> HIDE DEF adopt, id
    <3>2. \A r \in Calls : robj'[r] # NoRun => robj'[r] = robj[r] \/ robj'[r].id = id
        BY <1>2, <1>4, <1>11
    <3> QED
        BY <1>2, <1>3, <2>2, <2>3, <3>1, <3>2
  <2>7. \A i \in Calls : runs'[i] # None => robj'[runs'[i]] # NoRun /\ robj'[runs'[i]].id = i
    <3>1. \A i \in Calls : runs[i] # None =>
            robj[runs[i]] # NoRun /\ robj[runs[i]].id = i /\ runs[i] \in Calls
        BY <2>2 DEF IInv, MemInv, MemOK
    <3>2. \A i \in Calls : runs'[i] = runs[i] \/ (adopt /\ i = id /\ runs'[i] = c)
        BY <1>2, <1>9 DEF IInv, TypeOK
    <3> QED
        BY <1>2, <1>4, <1>11, <3>1, <3>2
  <2> QED
      BY <2>4, <2>5, <2>6, <2>7 DEF MemInv, MemOK
<1>15. \/ /\ Await(c, "savingSubmit", queue) /\ ref # None /\ UNCHANGED path
       \/ /\ Continue(c, "done", queue) /\ UNCHANGED path
       \/ /\ Continue(c, "refresh", queue) /\ ref # None /\ UNCHANGED path
       \/ /\ Continue(c, "setup", queue) /\ ref = None /\ path' = [path EXCEPT ![c] = "fresh"]
  <2>1. NoRun.status # "running"
      BY DEF NoRun
  <2>2. adopt => ref # None
      BY <1>2, ConstantsAssumption
  <2> QED
      BY <2>1, <2>2 DEF Replay, Lost
<1>16. PICK p \in {"savingSubmit", "done", "refresh", "setup"} :
         /\ pc' = [pc EXCEPT ![c] = p]
         /\ p \in {"savingSubmit", "refresh"} => ref # None
         /\ p = "setup" => ref = None
         /\ (p = "savingSubmit" /\ Await(c, p, queue)) \/ Continue(c, p, queue)
         /\ path' \in {path, [path EXCEPT ![c] = "fresh"]}
    BY <1>15 DEF Await, Continue, Goto
<1> HIDE DEF rec, sent, adopt, ref
<1>17. p \in Points /\ p \notin {"idle", "claiming", "loaded"} /\ "savingSubmit" \in Waiting \ {"claiming"}
    BY DEF Points, Waiting
<1>18. TypeOK'
  <2>1. journal' \in [Calls -> Calls \cup {None}] /\ runs' \in [Calls -> Calls \cup {None}]
      BY <1>2, <1>9 DEF IInv, TypeOK
  <2>2. /\ runRef' \in [Calls -> Calls \cup {None}] /\ pc' \in [Calls -> Points]
        /\ path' \in [Calls -> {"fresh", "replay", "poll"}]
      BY <1>9, <1>12, <1>16, <1>17 DEF IInv, TypeOK
  <2> QED
      BY <1>8, <1>9, <1>11, <2>1, <2>2 DEF IInv, TypeOK, ObjKept, bounds
<1>19. QueueInv'
  <2>1. Absent(c, queue) /\ QueueOK(queue, pc, diskOp') /\ pc \in [Calls -> Points]
      BY <1>1, <1>9, QueueAbsent DEF IInv, QueueInv, TypeOK
  <2> QED
      BY <1>14, <1>16, <1>17, <1>18, <2>1, AwaitQueue, ContinueQueue
<1>20. CallInv'
  <2>1. \A d \in Calls : d # c => pc'[d] = pc[d] /\ path'[d] = path[d] /\ runRef'[d] = runRef[d]
      BY <1>9, <1>16 DEF IInv, TypeOK
  <2>2. \A d \in Calls : obj'[d].id = obj[d].id
      BY <1>8 DEF ObjKept
  <2>3. \A d \in Calls : d # c => CallOK(d)'
    <3>1. "loaded" \in OpPoints /\ "loaded" \notin PollPoints
        BY DEF OpPoints, Points, PollPoints
    <3>2. SUFFICES ASSUME NEW d \in Calls, d # c PROVE CallOK(d)'
        OBVIOUS
    <3>3. /\ CallOK(d) /\ pc'[d] = pc[d] /\ path'[d] = path[d] /\ runRef'[d] = runRef[d]
          /\ robj'[d] = robj[d] /\ opRef'[d] = opRef[d] /\ loaded'[d] = loaded[d] /\ diskOp' = diskOp
        BY <1>9, <1>11, <2>1, <3>2 DEF IInv, CallInv
    <3> QED
        BY <1>10, <1>11, <2>2, <3>1, <3>3 DEF CallOK, PollPoints
  <2>4. /\ pc'[c] = p /\ path'[c] # "poll" /\ runRef'[c] = ref
      BY <1>2, <1>9, <1>16 DEF IInv, TypeOK
  <2>5. p \in RunPoints => ref # None
      BY <1>16 DEF RunPoints
  <2>6. p \in Early => robj'[c] = NoRun
      BY <1>2, <1>11, <1>16, ConstantsAssumption DEF Early, ref
  <2>7. CallOK(c)'
      BY <1>2, <1>9, <1>10, <1>12, <1>17, <2>4, <2>5, <2>6 DEF CallOK
  <2> QED
      BY <2>3, <2>7 DEF CallInv
<1> QED
    BY <1>13, <1>14, <1>18, <1>19, <1>20 DEF IInv

\* The process starts again from the file.
LEMMA CrashStep ==
  ASSUME IInv, Crash
  PROVE  IInv'
<1> DEFINE Restored(i) == [id |-> i, key |-> diskOp[i].key, state |-> diskOp[i].state, at |-> diskOp[i].at]
<1>1. \A i \in Calls : diskOp[i] # NoOp =>
        /\ Restored(i) \in OpObj /\ Restored(i) # NoObj
        /\ Restored(i).id = i /\ Restored(i).key = diskOp[i].key
    BY ConstantsAssumption DEF IInv, TypeOK, Op, OpObj, NoObj
<1>2. /\ obj' = [i \in Calls |-> IF diskOp[i] = NoOp THEN NoObj ELSE Restored(i)]
      /\ journal' = [i \in Calls |-> IF diskOp[i] = NoOp THEN None ELSE i]
      /\ robj' = diskRun
      /\ runs' = [i \in Calls |-> IF diskRun[i] = NoRun THEN None ELSE i]
      /\ queue' = <<>>
      /\ pc' = [c \in Calls |-> IF pc[c] = "idle" THEN "idle" ELSE "done"]
      /\ UNCHANGED <<disk, path, opRef, runRef, loaded, wire, host, clock, failures>>
    BY DEF Crash
<1> HIDE DEF Restored
<1>3. TypeOK'
  <2>1. obj' \in [Calls -> OpObj \cup {NoObj}]
      BY <1>1, <1>2
  <2>2. /\ journal' \in [Calls -> Calls \cup {None}] /\ runs' \in [Calls -> Calls \cup {None}]
        /\ index' \in [Keys -> Calls \cup {None}] /\ robj' \in [Calls -> Run \cup {NoRun}]
      BY <1>2 DEF IInv, TypeOK, Crash
  <2>3. pc' \in [Calls -> Points]
      BY <1>2 DEF Points
  <2>4. crashes' \in 0..MaxCrashes
      BY ConstantsAssumption DEF IInv, TypeOK, Crash
  <2> QED
      BY <1>2, <2>1, <2>2, <2>3, <2>4 DEF IInv, TypeOK, disk
<1>4. DiskInv'
    BY <1>2 DEF IInv, DiskInv, Sent, disk
<1>5. MemInv'
  <2>1. \A i \in Calls : /\ obj'[i] # NoObj => diskOp[i] # NoOp /\ obj'[i].id = i /\ obj'[i].key = diskOp[i].key
                         /\ diskOp[i] # NoOp => obj'[i] # NoObj /\ obj'[i].id = i /\ journal'[i] = i
                         /\ journal'[i] # None => diskOp[i] # NoOp /\ journal'[i] = i
                         /\ diskRun[i] # NoRun => diskOp[i] # NoOp /\ diskRun[i].id = i
      BY <1>1, <1>2 DEF IInv, DiskInv
  <2> QED
      BY <1>2, <2>1, ConstantsAssumption DEF MemInv, MemOK, disk
<1>6. IndexInv'
  <2>1. SUFFICES ASSUME NEW k \in Keys, index'[k] # None PROVE journal'[index'[k]] # None
      BY DEF IndexInv
  <2>2. index'[k] \in Calls /\ diskOp[index'[k]].key = k
      BY <2>1 DEF Crash
  <2>3. diskOp[index'[k]] # NoOp
      BY <2>2, ConstantsAssumption DEF NoOp
  <2> QED
      BY <1>2, <2>2, <2>3, ConstantsAssumption
<1>7. QueueInv'
  <2>1. <<>> \in Seq(Job) /\ Len(<<>>) = 0
      OBVIOUS
  <2> QED
      BY <1>2, <2>1 DEF QueueInv, QueueOK
<1>8. CallInv'
  <2>1. SUFFICES ASSUME NEW c \in Calls PROVE CallOK(c)'
      BY DEF CallInv
  <2>2. /\ pc'[c] = "done" \/ (pc'[c] = "idle" /\ pc[c] = "idle")
        /\ pc[c] = "idle" => obj'[c] = NoObj /\ robj'[c] = NoRun
      BY <1>2 DEF IInv, CallInv, CallOK, DiskInv
  <2>3. /\ "done" \notin OpPoints /\ "done" \notin RunPoints /\ "done" \notin Early
        /\ "idle" \notin OpPoints /\ "idle" \notin RunPoints
      BY DEF OpPoints, RunPoints, Early
  <2> QED
      BY <1>2, <2>2, <2>3 DEF IInv, CallInv, CallOK, disk
<1> QED
    BY <1>3, <1>4, <1>5, <1>6, <1>7, <1>8 DEF IInv

-----------------------------------------------------------------------------
(* The theorems.                                                           *)

LEMMA Initially ==
  ASSUME Init
  PROVE  IInv
<1>1. TypeOK
    BY ConstantsAssumption DEF Init, TypeOK, Points
<1>2. DiskInv /\ MemInv /\ IndexInv
    BY DEF Init, DiskInv, MemInv, MemOK, IndexInv, Sent
<1>3. QueueInv
  <2>1. <<>> \in Seq(Job) /\ Len(<<>>) = 0
      OBVIOUS
  <2> QED
      BY <2>1 DEF Init, QueueInv, QueueOK
<1>4. CallInv
  <2>1. "idle" \notin OpPoints /\ "idle" \notin RunPoints
      BY DEF OpPoints, RunPoints
  <2> QED
      BY <2>1 DEF Init, CallInv, CallOK
<1> QED
    BY <1>1, <1>2, <1>3, <1>4 DEF IInv

LEMMA Inductive ==
  ASSUME IInv, [Next]_vars
  PROVE  IInv'
<1>1. CASE UNCHANGED vars
    BY <1>1, StutterStep
<1>2. ASSUME NEW c \in Calls, StartRun(c) PROVE IInv'
    BY <1>2, CallClaimsStep, CallReplaysStep, LoadStep, ReplayStep, ClaimCreatesStep, ClaimFindsStep,
       SetUpStep, SetUpFailsEarlyStep, SetUpFailsStep, DispatchStep, AcceptedStep, RejectedStep,
       UnansweredStep DEF StartRun
<1>3. ASSUME NEW c \in Calls, Refresh(c) PROVE IInv'
    BY <1>3, CallPollsStep, RefreshConcludedStep, RefreshFailsStep, RefreshFindsStep, RefreshMissesStep
       DEF Refresh
<1>4. ASSUME NEW c \in Calls, SaveDone(c) \/ WriteFails(c) PROVE IInv'
    BY <1>4, SaveDoneStep, WriteFailsStep
<1>5. ASSUME NEW m \in wire, HostPersists(m) \/ HostLoses(m) PROVE IInv'
    BY <1>5, HostStep
<1>6. CASE Crash \/ Tick
    BY <1>6, CrashStep, TickStep
<1> QED
    BY <1>1, <1>2, <1>3, <1>4, <1>5, <1>6 DEF Next

\* Whatever the calls, keys, crashes and failed writes, every variable of the
\* write path keeps its shape.
THEOREM TypeCorrect == Spec => []TypeOK
<1>1. Init => IInv
    BY Initially
<1>2. IInv /\ [Next]_vars => IInv'
    BY Inductive
<1>3. IInv => TypeOK
    BY DEF IInv
<1> QED
    BY <1>1, <1>2, <1>3, PTL DEF Spec

\* One idempotency key stands for one operation in the state file, in memory
\* and in everything the Host was sent, for any number of overlapping calls,
\* replays, crashes and failed writes (claimOperation under the file lock).
THEOREM KeyUnique == Spec => []OneOperationPerKey
<1>1. Init => IInv
    BY Initially
<1>2. IInv /\ [Next]_vars => IInv'
    BY Inductive
<1>3. IInv => OneOperationPerKey
  <2>1. SUFFICES ASSUME IInv PROVE OneOperationPerKey
      OBVIOUS
  <2>2. \A o \in Calls : obj[o] # NoObj =>
          obj[o].id \in Calls /\ diskOp[obj[o].id] # NoOp /\ diskOp[obj[o].id].key = obj[o].key
      BY <2>1 DEF IInv, TypeOK, OpObj, MemInv, MemOK
  <2>3. \A o, p \in Calls : obj[o] # NoObj /\ obj[o].key = obj[p].key => obj[p] # NoObj
      BY <2>1, ConstantsAssumption DEF IInv, TypeOK, OpObj, NoObj
  <2>4. \A m \in Sent : m.op \in Calls /\ diskOp[m.op] # NoOp
      BY <2>1 DEF IInv, TypeOK, DiskInv, Sent, Request
  <2> QED
      BY <2>1, <2>2, <2>3, <2>4 DEF IInv, DiskInv, OneOperationPerKey
<1> QED
    BY <1>1, <1>2, <1>3, PTL DEF Spec
-----------------------------------------------------------------------------
(* Starts that follow one another, with polls at any time.                 *)

Starts(c) == pc[c] \notin {"idle", "done"} /\ path[c] # "poll"

\* The operation a start is about, the writes that wait, and the prompts sent.
IdOf(c)     == obj[opRef[c]].id
Elements(q) == {q[n] : n \in 1..Len(q)}
Waits       == Elements(queue)
Prompts(i)  == {m \in Sent : m.op = i}
OnDisk(i)   == diskOp[i].state # "prepared" /\ diskRun[i] # NoRun

\* One start at a time, which shares the record of its operation with all others.
StartsInv ==
  /\ \A c, d \in Calls : Starts(c) /\ Starts(d) => c = d
  /\ \A c \in Calls : Starts(c) /\ pc[c] # "claiming" => journal[IdOf(c)] = opRef[c]
  /\ \A c \in Calls : Starts(c) /\ pc[c] \in RunPoints => robj[runRef[c]].id = IdOf(c)

\* The memory knows what the file knows; a run has one object, and one session in
\* memory, in the queue and on disk.
RunsInv ==
  /\ \A i \in Calls : diskOp[i] # NoOp => journal[i] # None
  /\ \A i \in Calls : runs[i] = None => diskRun[i] = NoRun /\ \A j \in Waits : j.run[i] = NoRun
  /\ \A r \in Calls : robj[r] # NoRun => runs[robj[r].id] = r
  /\ \A i \in Calls : runs[i] # None =>
       /\ diskRun[i] # NoRun => diskRun[i].session = robj[runs[i]].session
       /\ \A j \in Waits : j.run[i] # NoRun => j.run[i].session = robj[runs[i]].session

\* An operation is prepared once, before anything else happens to it.
Fits(v, i) ==
  /\ v.at <= clock
  /\ v.state = "prepared" => v.at <= diskOp[i].at
  /\ v.state # "prepared" /\ diskOp[i].state = "prepared" => v.at >= diskOp[i].at

AgesInv ==
  /\ \A i \in Calls : diskOp[i].at <= clock
  /\ \A j \in Waits : j.at <= clock
  /\ \A o \in Calls : obj[o] # NoObj => Fits(obj[o], obj[o].id)
  /\ \A j \in Waits, i \in Calls : j.op[i] # NoOp => Fits(j.op[i], i)

LoadedInv == \A c \in Calls : Starts(c) /\ pc[c] = "loaded" => Fits(loaded[c].op, IdOf(c))

\* An operation that was submitted has a run, wherever it is known.
SubmittedInv ==
  /\ \A i \in Calls : diskOp[i].state = "submitted" => diskRun[i] # NoRun
  /\ \A j \in Waits, i \in Calls : j.op[i].state = "submitted" => j.run[i] # NoRun
  /\ \A o \in Calls : obj[o].state = "submitted" => runs[obj[o].id] # None

PromptsInv ==
  \A m \in Sent :
    /\ OnDisk(m.op)
    /\ m.session = robj[runs[m.op]].session
    /\ obj[journal[m.op]].state # "prepared"

\* What a start knows at each of its points.
LoadedOK(c) ==
  pc[c] = "loaded" =>
    /\ loaded[c].op # NoOp
    /\ loaded[c].op.state = "prepared" => Prompts(IdOf(c)) = {}
    /\ loaded[c].op.state # "prepared" => diskOp[IdOf(c)].state # "prepared"
    /\ loaded[c].op.state = "submitted" => diskRun[IdOf(c)] # NoRun
    /\ loaded[c].run # NoRun => runs[IdOf(c)] # None

SendOK(c) ==
  /\ pc[c] \in {"setup", "savingRun"} => obj[opRef[c]].state = "prepared"
  /\ pc[c] = "setup" => runs[IdOf(c)] = None
  /\ pc[c] = "savingRun" => Prompts(IdOf(c)) = {}
  /\ pc[c] \in {"savingRun", "savingSubmit"} =>
       \A j \in Waits : j.call = c => j.run[IdOf(c)] # NoRun
  /\ pc[c] = "savingSubmit" =>
       \A j \in Waits : j.call = c => j.op[IdOf(c)] # NoOp /\ j.op[IdOf(c)].state # "prepared"
  /\ pc[c] \in {"savingSubmit", "dispatch"} => obj[opRef[c]].state # "prepared"
  /\ pc[c] = "dispatch" => OnDisk(IdOf(c))
  /\ /\ path[c] = "replay" /\ pc[c] \in {"refresh", "savingRefresh", "savingMissing"}
     /\ obj[opRef[c]].state = "submitted"
     => OnDisk(IdOf(c))

PhasesInv == \A c \in Calls : Starts(c) => LoadedOK(c) /\ SendOK(c)

SerialInv ==
  StartsInv /\ RunsInv /\ AgesInv /\ LoadedInv /\ SubmittedInv /\ PromptsInv /\ PhasesInv

-----------------------------------------------------------------------------
(* The queue as a set.                                                     *)

LEMMA ElementsTail ==
  ASSUME NEW q \in Seq(Job), q # <<>>
  PROVE  Head(q) \in Elements(q) /\ Elements(Tail(q)) \subseteq Elements(q)
<1>1. Len(q) \in Nat /\ Len(q) >= 1 /\ Head(q) = q[1] /\ 1 \in 1..Len(q)
    OBVIOUS
<1>2. Len(Tail(q)) = Len(q) - 1 /\ \A n \in 1..Len(Tail(q)) : Tail(q)[n] = q[n + 1]
    BY <1>1
<1>3. \A n \in 1..Len(Tail(q)) : n + 1 \in 1..Len(q)
    BY <1>1, <1>2
<1> QED
    BY <1>1, <1>2, <1>3 DEF Elements

LEMMA ElementsAppend ==
  ASSUME NEW q \in Seq(Job), NEW job
  PROVE  Elements(Append(q, job)) = Elements(q) \cup {job}
<1>1. /\ Len(q) \in Nat /\ Len(Append(q, job)) = Len(q) + 1
      /\ \A n \in 1..Len(q) : Append(q, job)[n] = q[n]
      /\ Append(q, job)[Len(q) + 1] = job
    OBVIOUS
<1> QED
    BY <1>1 DEF Elements

\* A call goes on to a point; a write it made is gone from the queue, and one that
\* it makes holds what the memory holds after the step.
Goes(c, p) ==
  /\ pc'[c] = p
  /\ \A d \in Calls \ {c} : pc'[d] = pc[d]
  /\ \A job \in Waits' : (job \in Waits /\ job.call # c) \/ job = Snapshot(c)'

\* The queue a call goes on with: its own write is over, or it made none.
Released(c, q) ==
  \/ q = queue /\ pc[c] \notin Waiting
  \/ q = Tail(queue) /\ queue # <<>> /\ Head(queue).call = c

LEMMA Going ==
  ASSUME IInv, NEW c \in Calls, NEW p, NEW q, Released(c, q),
         Await(c, p, q) \/ Continue(c, p, q)
  PROVE  Goes(c, p)
<1>1. queue \in Seq(Job) /\ q \in Seq(Job)
    BY TakenFromQueue DEF IInv, QueueInv, QueueOK, Released
<1>2. Elements(q) \subseteq Waits
    BY <1>1, ElementsTail DEF Waits, Released
<1>3. Absent(c, q)
    BY TakenFromQueue, QueueAbsent DEF IInv, QueueInv, Released
<1>4. \A job \in Elements(q) : job.call # c
    BY <1>3 DEF Absent, Elements
<1>5. pc'[c] = p /\ \A d \in Calls \ {c} : pc'[d] = pc[d]
    BY DEF IInv, TypeOK, Await, Continue, Goto
<1>6. Waits' = Elements(q) \/ Waits' = Elements(q) \cup {Snapshot(c)'}
    BY <1>1, ElementsAppend DEF Waits, Await, Continue
<1> QED
    BY <1>2, <1>4, <1>5, <1>6 DEF Goes

-----------------------------------------------------------------------------
(* What a merge does to the file.                                          *)

\* A save of a waiting write, or no write.
FileMoves == UNCHANGED disk \/ \E job \in Waits : Merge(job)

LEMMA WaitsTyped ==
  ASSUME IInv, NEW job \in Waits
  PROVE  /\ job \in Job /\ Agrees(job, diskOp) /\ Awaited(job, pc)
         /\ \A i \in Calls : job.op[i] \in Op \cup {NoOp} /\ job.run[i] \in Run \cup {NoRun}
<1>1. job \in Job /\ Agrees(job, diskOp) /\ Awaited(job, pc)
    BY DEF IInv, QueueInv, QueueOK, Waits, Elements
<1> QED
    BY <1>1 DEF Job

LEMMA WritesWait ==
  ASSUME IInv, queue # <<>>
  PROVE  Head(queue) \in Waits
BY ElementsTail DEF IInv, QueueInv, QueueOK, Waits

\* The versions of an operation are written in the order of their times and states.
LEMMA MergedOp ==
  ASSUME IInv, NEW job \in Waits, Merge(job), NEW i \in Calls
  PROVE  /\ diskOp'[i] \in {diskOp[i], job.op[i]} /\ diskOp'[i].at >= diskOp[i].at
         /\ job.op[i] = NoOp => diskOp'[i] = diskOp[i]
         /\ job.op[i] # NoOp => diskOp'[i].at >= job.op[i].at
         /\ job.op[i] # NoOp /\ diskOp'[i] # job.op[i] /\ diskOp[i].at = job.op[i].at =>
              OpRank[diskOp[i].state] >= OpRank[job.op[i].state]
         /\ diskOp'[i] = job.op[i] /\ job.op[i] # diskOp[i] =>
              \/ job.op[i].at > diskOp[i].at
              \/ job.op[i].at = diskOp[i].at /\ OpRank[job.op[i].state] > OpRank[diskOp[i].state]
<1>1. diskOp'[i] = FreshestOperation(diskOp[i], job.op[i])
    BY DEF Merge
<1>2. diskOp[i] \in Op \cup {NoOp} /\ job.op[i] \in Op \cup {NoOp}
    BY WaitsTyped DEF IInv, TypeOK
<1>3. \A v \in Op \cup {NoOp} : v.at \in Nat /\ OpRank[v.state] \in Int
    BY ConstantsAssumption DEF Op, NoOp, OpStates, OpRank
<1>4. diskOp[i].at \in Nat /\ job.op[i].at \in Nat
      /\ OpRank[diskOp[i].state] \in Int /\ OpRank[job.op[i].state] \in Int
    BY <1>2, <1>3
<1> QED
    BY <1>1, <1>4 DEF FreshestOperation

LEMMA MergedRun ==
  ASSUME IInv, NEW job \in Waits, Merge(job), NEW i \in Calls
  PROVE  /\ diskRun'[i] \in {diskRun[i], job.run[i]}
         /\ diskRun[i] # NoRun \/ job.run[i] # NoRun => diskRun'[i] # NoRun
<1>1. PICK wins \in [Calls -> BOOLEAN] :
        diskRun' = [d \in Calls |-> FreshestRun(diskRun[d], job.run[d], wins[d])]
    BY DEF Merge
<1>2. diskRun'[i] = FreshestRun(diskRun[i], job.run[i], wins[i])
    BY <1>1
<1>3. diskRun'[i] \in {diskRun[i], job.run[i]}
    BY DEF Merge, FreshestRun
<1>4. CASE job.run[i] = NoRun
    BY <1>2, <1>4 DEF FreshestRun
<1>5. CASE job.run[i] # NoRun /\ diskRun[i] = NoRun
    BY <1>2, <1>5 DEF FreshestRun
<1> QED
    BY <1>3, <1>4, <1>5

\* An operation leaves "prepared" in the file for good, and its time never goes back.
LEMMA FileAdvances ==
  ASSUME IInv, AgesInv, FileMoves, NEW i \in Calls
  PROVE  /\ diskOp'[i].at >= diskOp[i].at
         /\ diskOp'[i].state = "prepared" => diskOp'[i] = diskOp[i]
         /\ diskRun[i] # NoRun => diskRun'[i] # NoRun
         /\ OnDisk(i) => OnDisk(i)'
<1>1. diskOp[i] \in Op \cup {NoOp} /\ diskOp[i].at \in Nat
    BY ConstantsAssumption DEF IInv, TypeOK, Op, NoOp
<1>2. CASE UNCHANGED disk
    BY <1>1, <1>2 DEF disk, OnDisk
<1>3. ASSUME NEW job \in Waits, Merge(job)
      PROVE  /\ diskOp'[i].at >= diskOp[i].at
             /\ diskOp'[i].state = "prepared" => diskOp'[i] = diskOp[i]
             /\ diskRun[i] # NoRun => diskRun'[i] # NoRun
  <2>1. diskOp'[i].at >= diskOp[i].at /\ (diskRun[i] # NoRun => diskRun'[i] # NoRun)
      BY <1>3, MergedOp, MergedRun
  <2>2. SUFFICES ASSUME diskOp'[i].state = "prepared", diskOp'[i] # diskOp[i] PROVE FALSE
      BY <2>1
  <2>3. diskOp'[i] = job.op[i] /\ job.op[i] # NoOp /\ job.op[i] # diskOp[i]
      BY <1>3, <2>2, MergedOp
  <2>4. job.op[i].at <= diskOp[i].at /\ job.op[i].at \in Nat /\ diskOp[i] \in Op
      BY <1>1, <2>2, <2>3, WaitsTyped DEF AgesInv, Fits, Agrees, Op
  <2>5. OpRank[diskOp[i].state] >= 1 /\ OpRank[diskOp[i].state] \in Int /\ OpRank["prepared"] = 1
      BY <2>4 DEF Op, OpStates, OpRank
  <2>6. \/ job.op[i].at > diskOp[i].at
        \/ job.op[i].at = diskOp[i].at /\ OpRank[job.op[i].state] > OpRank[diskOp[i].state]
      BY <1>3, <2>3, MergedOp
  <2> QED
      BY <1>1, <2>2, <2>3, <2>4, <2>5, <2>6
<1>4. /\ diskOp'[i].at >= diskOp[i].at
      /\ diskOp'[i].state = "prepared" => diskOp'[i] = diskOp[i]
      /\ diskRun[i] # NoRun => diskRun'[i] # NoRun
    BY <1>2, <1>1, <1>3 DEF FileMoves, disk
<1> QED
    BY <1>4 DEF OnDisk

\* What agreed with the times of the file still does after a write.
LEMMA FitsStays ==
  ASSUME IInv, AgesInv, FileMoves, UNCHANGED clock, NEW i \in Calls, NEW v, v.at \in Nat, Fits(v, i)
  PROVE  v.at <= clock' /\ (v.state = "prepared" => v.at <= diskOp'[i].at)
         /\ (v.state # "prepared" /\ diskOp'[i].state = "prepared" => v.at >= diskOp'[i].at)
<1>1. diskOp[i].at \in Nat /\ diskOp'[i].at \in Nat
  <2>1. diskOp[i].at \in Nat
      BY ConstantsAssumption DEF IInv, TypeOK, Op, NoOp
  <2>2. ASSUME NEW job \in Waits PROVE job.op[i].at \in Nat
      BY WaitsTyped, ConstantsAssumption DEF Op, NoOp
  <2> QED
      BY <2>1, <2>2, MergedOp DEF FileMoves, disk
<1> QED
    BY <1>1, FileAdvances DEF Fits

-----------------------------------------------------------------------------
(* A step that moves one call on, and what every such step keeps.          *)

\* An operation moves on in one way only: it gets a state of its own, now, and
\* a poll leaves an operation that is still prepared alone.
Settled(c, o) ==
  /\ obj'[o].id = obj[o].id /\ obj'[o].key = obj[o].key
  /\ obj'[o].at = clock /\ obj'[o].state # "prepared"
  /\ obj'[o].state = "submitted" => path[c] # "poll" /\ runs[obj[o].id] # None
  /\ path[c] = "poll" => obj[o].state # "prepared"

Advances(c, p) ==
  /\ UNCHANGED <<journal, runs, path, opRef, runRef, loaded, clock>>
  /\ Goes(c, p) /\ FileMoves
  /\ \A o \in Calls : obj'[o] = obj[o] \/ Settled(c, o)
  /\ \A r \in Calls : robj'[r].id = robj[r].id /\ robj'[r].session = robj[r].session
  /\ \A m \in Sent' : m \in Sent \/ (pc[c] = "dispatch" /\ m = RequestOf(c))
  /\ pc[c] \notin {"idle", "done"} /\ p \notin {"idle", "claiming", "loaded"}
  /\ p # "done" => pc[c] # "claiming"
  /\ p \in RunPoints => pc[c] \in RunPoints

\* Every record keeps its shape.
LEMMA Shapes ==
  ASSUME TypeOK
  PROVE  /\ \A i \in Calls : diskOp[i] \in Op \cup {NoOp} /\ diskOp[i].at \in Nat
         /\ \A o \in Calls : obj[o] \in OpObj \cup {NoObj} /\ obj[o].at \in Nat
         /\ \A o \in Calls : obj[o] # NoObj => obj[o].id \in Calls
         /\ \A r \in Calls : robj[r] # NoRun => robj[r].id \in Calls
         /\ \A r \in Calls : robj[r].id \in Calls => robj[r] # NoRun
         /\ \A i \in Calls : journal[i] \in Calls \cup {None} /\ runs[i] \in Calls \cup {None}
         /\ clock \in Nat
         /\ \A m \in Sent : m \in Request
<1>1. \A i \in Calls : diskOp[i] \in Op \cup {NoOp} /\ diskOp[i].at \in Nat
    BY ConstantsAssumption DEF TypeOK, Op, NoOp
<1>2. \A o \in Calls : obj[o] \in OpObj \cup {NoObj} /\ obj[o].at \in Nat
    BY ConstantsAssumption DEF TypeOK, OpObj, NoObj
<1>3. \A o \in Calls : obj[o] # NoObj => obj[o].id \in Calls
    BY DEF TypeOK, OpObj
<1>4. \A r \in Calls : robj[r] # NoRun => robj[r].id \in Calls
    BY DEF TypeOK, Run
<1>5. \A r \in Calls : robj[r].id \in Calls => robj[r] # NoRun
    BY ConstantsAssumption DEF NoRun
<1>6. clock \in Nat /\ \A m \in Sent : m \in Request
    BY ConstantsAssumption DEF TypeOK, Sent
<1>7. \A i \in Calls : journal[i] \in Calls \cup {None} /\ runs[i] \in Calls \cup {None}
    BY DEF TypeOK
<1> QED
    BY <1>1, <1>2, <1>3, <1>4, <1>5, <1>6, <1>7

\* What a snapshot says of an operation, and of a run.
LEMMA SnapshotSays ==
  ASSUME NEW c, NEW i \in Calls
  PROVE  /\ Snapshot(c).call = c /\ Snapshot(c).at = 0
         /\ Snapshot(c).op[i] = IF journal[i] = None THEN NoOp ELSE OpOf(obj[journal[i]])
         /\ Snapshot(c).run[i] = IF runs[i] = None THEN NoRun ELSE robj[runs[i]]
BY DEF Snapshot, OpView, RunView

LEMMA SnapshotOp ==
  ASSUME TypeOK, MemInv, NEW c, NEW i \in Calls, journal[i] # None
  PROVE  /\ Snapshot(c).op[i] # NoOp
         /\ Snapshot(c).op[i].at = obj[journal[i]].at
         /\ Snapshot(c).op[i].state = obj[journal[i]].state
<1>1. journal[i] \in Calls /\ obj[journal[i]] # NoObj
    BY DEF TypeOK, MemInv, MemOK
<1>2. obj[journal[i]] \in OpObj
    BY <1>1 DEF TypeOK
<1> DEFINE x == obj[journal[i]]
<1>3. Snapshot(c).op[i] = [key |-> x.key, state |-> x.state, at |-> x.at]
    BY <1>1, SnapshotSays DEF OpOf
<1>4. x.key # None
    BY <1>2, ConstantsAssumption DEF OpObj
<1> QED
    BY <1>3, <1>4 DEF NoOp

\* A start that goes on with its run holds the run of its operation.
LEMMA HoldsItsRun ==
  ASSUME IInv, StartsInv, RunsInv, NEW c \in Calls, Starts(c), pc[c] \in RunPoints
  PROVE  /\ IdOf(c) \in Calls /\ journal[IdOf(c)] = opRef[c] /\ opRef[c] \in Calls
         /\ runs[IdOf(c)] = runRef[c] /\ runRef[c] \in Calls /\ robj[runRef[c]] # NoRun
         /\ robj[runRef[c]].id = IdOf(c)
<1>1. pc[c] \in OpPoints /\ path[c] # "poll" /\ pc[c] # "claiming"
    BY RestPoints DEF Starts, RunPoints
<1>2. opRef[c] \in Calls /\ obj[opRef[c]] # NoObj /\ runRef[c] \in Calls /\ robj[runRef[c]] # NoRun
    BY <1>1, HoldsOp, HoldsRun
<1> QED
    BY <1>1, <1>2, Shapes DEF StartsInv, RunsInv, IdOf, IInv

LEMMA AdvancesStarts ==
  ASSUME IInv, SerialInv, NEW c \in Calls, NEW p, Advances(c, p)
  PROVE  /\ StartsInv'
         /\ \A d \in Calls : Starts(d)' => Starts(d)
         /\ \A d \in Calls : Starts(d)' /\ pc'[d] # "claiming" => IdOf(d)' = IdOf(d)
<1>1. \A d \in Calls : Starts(d)' => Starts(d)
    BY DEF Advances, Goes, Starts
<1>2. \A d \in Calls : Starts(d)' /\ pc'[d] # "claiming" => pc[d] # "claiming"
    BY DEF Advances, Goes, Starts
<1>3. \A d \in Calls : pc'[d] \in RunPoints => pc[d] \in RunPoints
    BY DEF Advances, Goes
<1>4. \A o \in Calls : obj'[o].id = obj[o].id
    BY DEF Advances, Settled
<1>5. \A d \in Calls : Starts(d) /\ pc[d] # "claiming" => opRef[d] \in Calls
    BY HoldsOp DEF Starts, OpPoints, IInv, TypeOK
<1>6. \A d \in Calls : Starts(d)' /\ pc'[d] # "claiming" => IdOf(d)' = IdOf(d)
    BY <1>1, <1>2, <1>4, <1>5 DEF IdOf, Advances
<1>7. \A d \in Calls : Starts(d)' /\ pc'[d] \in RunPoints => runRef[d] \in Calls
    BY <1>3, HoldsRun
<1> QED
    BY <1>1, <1>2, <1>3, <1>4, <1>5, <1>6, <1>7 DEF StartsInv, SerialInv, Advances, RunPoints

LEMMA AdvancesRuns ==
  ASSUME IInv, RunsInv, NEW c \in Calls, NEW p, Advances(c, p), IInv'
  PROVE  RunsInv'
<1>1. \A r \in Calls : robj'[r] = NoRun <=> robj[r] = NoRun
  <2>1. \A r \in Calls : robj[r].id \in Calls <=> robj[r] # NoRun
      BY Shapes DEF IInv
  <2>2. \A r \in Calls : (robj[r].id)' \in Calls <=> robj'[r] # NoRun
    <3>1. TypeOK'
        BY DEF IInv
    <3> QED
        BY <3>1, ConstantsAssumption DEF TypeOK, Run, NoRun
  <2> QED
      BY <2>1, <2>2 DEF Advances
<1>2. \A i \in Calls : runs[i] # None => runs[i] \in Calls
    BY DEF IInv, TypeOK
<1>3. \A i \in Calls : Snapshot(c)'.run[i] = IF runs[i] = None THEN NoRun ELSE robj'[runs[i]]
    BY DEF Snapshot, RunView, Advances
<1>4. ASSUME NEW i \in Calls
      PROVE  diskRun'[i] = diskRun[i] \/ \E job \in Waits : diskRun'[i] = job.run[i]
    BY MergedRun DEF Advances, FileMoves, disk
<1>5. \A job \in Waits' : job \in Waits \/ job = Snapshot(c)'
    BY DEF Advances, Goes
<1>6. \A i \in Calls : runs'[i] = None =>
        diskRun'[i] = NoRun /\ \A job \in Waits' : job.run[i] = NoRun
    BY <1>3, <1>4, <1>5 DEF RunsInv, Advances
<1>7. \A i \in Calls : runs'[i] # None =>
        /\ diskRun'[i] # NoRun => diskRun'[i].session = robj'[runs'[i]].session
        /\ \A job \in Waits' : job.run[i] # NoRun => job.run[i].session = robj'[runs'[i]].session
    BY <1>2, <1>3, <1>4, <1>5 DEF RunsInv, Advances
<1>8. \A r \in Calls : robj'[r] # NoRun => runs'[robj'[r].id] = r
    BY <1>1 DEF RunsInv, Advances
<1>9. \A i \in Calls : diskOp'[i] # NoOp => journal'[i] # None
  <2>1. ASSUME NEW i \in Calls, diskOp'[i] # NoOp PROVE diskOp[i] # NoOp
    <3>1. CASE UNCHANGED disk
        BY <2>1, <3>1 DEF disk
    <3>2. ASSUME NEW job \in Waits, Merge(job) PROVE diskOp[i] # NoOp
        BY <2>1, <3>2, MergedOp, WaitsTyped DEF Agrees
    <3> QED
        BY <3>1, <3>2 DEF Advances, FileMoves
  <2> QED
      BY <2>1 DEF RunsInv, Advances
<1> QED
    BY <1>6, <1>7, <1>8, <1>9 DEF RunsInv

\* After a step that keeps the times, everything still fits.
LEMMA AdvancesAges ==
  ASSUME IInv, SerialInv, NEW c \in Calls, NEW p, Advances(c, p), IInv'
  PROVE  AgesInv' /\ LoadedInv'
<1>0. AgesInv /\ LoadedInv /\ FileMoves /\ UNCHANGED clock /\ clock \in Nat
    BY Shapes DEF SerialInv, Advances, IInv
<1>1. ASSUME NEW v, v.at \in Nat, NEW i \in Calls, Fits(v, i)
      PROVE  /\ v.at <= clock' /\ (v.state = "prepared" => v.at <= diskOp'[i].at)
             /\ (v.state # "prepared" /\ diskOp'[i].state = "prepared" => v.at >= diskOp'[i].at)
    BY <1>0, <1>1, FitsStays
<1>2. \A i \in Calls : diskOp'[i].at <= clock'
  <2>1. ASSUME NEW i \in Calls, NEW job \in Waits, Merge(job) PROVE diskOp'[i].at <= clock
      BY <1>0, <2>1, MergedOp DEF AgesInv, Fits
  <2> QED
      BY <1>0, <2>1 DEF FileMoves, disk, AgesInv
<1>3. ASSUME NEW o \in Calls, obj'[o] # NoObj
      PROVE  LET v == obj'[o]
                 i == obj'[o].id
             IN  /\ v.at <= clock' /\ (v.state = "prepared" => v.at <= diskOp'[i].at)
                 /\ (v.state # "prepared" /\ diskOp'[i].state = "prepared" => v.at >= diskOp'[i].at)
  <2>1. CASE obj'[o] = obj[o]
    <3>1. obj[o].at \in Nat /\ obj[o].id \in Calls /\ Fits(obj[o], obj[o].id)
        BY <1>0, <1>3, <2>1, Shapes DEF AgesInv, IInv
    <3> QED
        BY <1>1, <2>1, <3>1
  <2>2. CASE Settled(c, o)
    <3>1. obj'[o].id \in Calls
        BY <1>3 DEF IInv, TypeOK, OpObj
    <3>2. diskOp'[obj'[o].id].at \in Nat
      <4>1. diskOp'[obj'[o].id] \in Op \cup {NoOp}
          BY <3>1 DEF IInv, TypeOK
      <4> QED
          BY <4>1, ConstantsAssumption DEF Op, NoOp
    <3> QED
        BY <1>0, <1>2, <2>2, <3>1, <3>2 DEF Settled
  <2> QED
      BY <2>1, <2>2 DEF Advances
<1>4. ASSUME NEW job \in Waits', NEW i \in Calls, job.op[i] # NoOp
      PROVE  /\ job.op[i].at <= clock' /\ (job.op[i].state = "prepared" => job.op[i].at <= diskOp'[i].at)
             /\ (job.op[i].state # "prepared" /\ diskOp'[i].state = "prepared" => job.op[i].at >= diskOp'[i].at)
  <2>1. CASE job \in Waits
    <3>1. job.op[i].at \in Nat
        BY <2>1, WaitsTyped, ConstantsAssumption DEF Op, NoOp
    <3> QED
        BY <1>0, <1>1, <1>4, <2>1, <3>1 DEF AgesInv
  <2>2. CASE job = Snapshot(c)'
    <3>1. job.op[i] = IF journal'[i] = None THEN NoOp ELSE OpOf(obj'[journal'[i]])
        BY <2>2 DEF Snapshot, OpView
    <3>2. /\ journal'[i] \in Calls /\ obj'[journal'[i]] # NoObj /\ obj'[journal'[i]].id = i
        BY <1>4, <3>1 DEF IInv, TypeOK, MemInv, MemOK
    <3>3. job.op[i].at = obj'[journal'[i]].at /\ job.op[i].state = obj'[journal'[i]].state
        BY <1>4, <3>1, <3>2 DEF OpOf
    <3> QED
        BY <1>3, <3>2, <3>3
  <2> QED
      BY <2>1, <2>2 DEF Advances, Goes
<1>5. \A job \in Waits' : job.at <= clock'
    BY <1>0 DEF Advances, Goes, AgesInv, Snapshot
<1>6. ASSUME NEW d \in Calls, Starts(d)', pc'[d] = "loaded"
      PROVE  LET v == loaded'[d].op
                 i == IdOf(d)'
             IN  /\ v.at <= clock' /\ (v.state = "prepared" => v.at <= diskOp'[i].at)
                 /\ (v.state # "prepared" /\ diskOp'[i].state = "prepared" => v.at >= diskOp'[i].at)
  <2>1. Starts(d) /\ IdOf(d)' = IdOf(d) /\ d # c /\ pc[d] = "loaded" /\ loaded'[d] = loaded[d]
      BY <1>6, AdvancesStarts DEF Advances, Goes
  <2>2. Fits(loaded[d].op, IdOf(d)) /\ loaded[d].op.at \in Nat
      BY <1>0, <2>1, ConstantsAssumption DEF LoadedInv, IInv, TypeOK, Op, NoOp
  <2>3. IdOf(d) \in Calls
    <3>1. pc[d] \in OpPoints /\ path[d] # "poll"
        BY <2>1 DEF OpPoints, Points, Starts
    <3> QED
        BY <3>1, HoldsOp, Shapes DEF IdOf, IInv
  <2> QED
      BY <1>1, <2>1, <2>2, <2>3
<1> QED
    BY <1>2, <1>3, <1>4, <1>5, <1>6 DEF AgesInv, LoadedInv, Fits

LEMMA AdvancesSubmitted ==
  ASSUME IInv, SerialInv, NEW c \in Calls, NEW p, Advances(c, p), IInv'
  PROVE  SubmittedInv'
<1>1. \A o \in Calls : obj'[o].state = "submitted" => runs'[obj'[o].id] # None
    BY DEF SerialInv, SubmittedInv, Advances, Settled
<1>2. ASSUME NEW job \in Waits', NEW i \in Calls, job.op[i].state = "submitted"
      PROVE  job.run[i] # NoRun
  <2>1. CASE job \in Waits
      BY <1>2, <2>1 DEF SerialInv, SubmittedInv
  <2>2. CASE job = Snapshot(c)'
    <3>1. /\ job.op[i] = IF journal'[i] = None THEN NoOp ELSE OpOf(obj'[journal'[i]])
          /\ job.run[i] = IF runs'[i] = None THEN NoRun ELSE robj'[runs'[i]]
        BY <2>2 DEF Snapshot, OpView, RunView
    <3>2. journal'[i] \in Calls /\ obj'[journal'[i]].id = i /\ obj'[journal'[i]].state = "submitted"
        BY <1>2, <3>1 DEF OpOf, NoOp, IInv, TypeOK, MemInv, MemOK
    <3>3. runs'[i] # None
        BY <1>1, <3>2
    <3> QED
        BY <3>1, <3>3 DEF IInv, MemInv, MemOK
  <2> QED
      BY <2>1, <2>2 DEF Advances, Goes
<1>3. ASSUME NEW i \in Calls, diskOp'[i].state = "submitted" PROVE diskRun'[i] # NoRun
  <2>1. CASE UNCHANGED disk
      BY <1>3, <2>1 DEF disk, SerialInv, SubmittedInv
  <2>2. ASSUME NEW job \in Waits, Merge(job) PROVE diskRun'[i] # NoRun
      BY <1>3, <2>2, MergedOp, MergedRun DEF SerialInv, SubmittedInv
  <2> QED
      BY <2>1, <2>2 DEF Advances, FileMoves
<1> QED
    BY <1>1, <1>2, <1>3 DEF SubmittedInv

LEMMA AdvancesPrompts ==
  ASSUME IInv, SerialInv, NEW c \in Calls, NEW p, Advances(c, p), IInv'
  PROVE  PromptsInv'
<1>0. \A i \in Calls : OnDisk(i) => OnDisk(i)'
    BY FileAdvances DEF SerialInv, Advances
<1>1. \A o \in Calls : obj[o].state # "prepared" => obj'[o].state # "prepared"
    BY DEF Advances, Settled
<1>2. ASSUME NEW m \in Sent', m \notin Sent
      PROVE  /\ m.op \in Calls /\ OnDisk(m.op) /\ m.session = robj[runs[m.op]].session
             /\ obj[journal[m.op]].state # "prepared" /\ runs[m.op] \in Calls /\ journal[m.op] \in Calls
  <2>1. pc[c] = "dispatch" /\ m.op = IdOf(c) /\ m.session = robj[runRef[c]].session
      BY <1>2 DEF Advances, RequestOf, IdOf
  <2>2. Starts(c) /\ pc[c] \in RunPoints
      BY <2>1, NotPolling DEF Starts, RunPoints, PollPoints
  <2> QED
      BY <2>1, <2>2, HoldsItsRun DEF SerialInv, PhasesInv, SendOK
<1>3. ASSUME NEW m \in Sent
      PROVE  /\ m.op \in Calls /\ OnDisk(m.op) /\ m.session = robj[runs[m.op]].session
             /\ obj[journal[m.op]].state # "prepared" /\ runs[m.op] \in Calls /\ journal[m.op] \in Calls
  <2>1. m.op \in Calls
      BY Shapes DEF IInv, Request
  <2>2. diskRun[m.op] # NoRun /\ diskOp[m.op] # NoOp
      BY <2>1 DEF SerialInv, PromptsInv, OnDisk, IInv, DiskInv
  <2> QED
      BY <2>1, <2>2, Shapes DEF SerialInv, PromptsInv, RunsInv, IInv
<1> QED
    BY <1>0, <1>1, <1>2, <1>3 DEF PromptsInv, Advances

\* A step of one call leaves what another one knows as it is.
LEMMA OthersPhases ==
  ASSUME IInv, SerialInv, NEW c \in Calls, NEW p, Advances(c, p), IInv',
         NEW d \in Calls \ {c}, Starts(d)'
  PROVE  LoadedOK(d)' /\ SendOK(d)'
<1>1. Starts(d) /\ pc'[d] = pc[d] /\ path'[d] = path[d] /\ loaded'[d] = loaded[d] /\ opRef'[d] = opRef[d]
    BY AdvancesStarts DEF Advances, Goes
<1>2. path[c] = "poll" /\ pc[c] # "dispatch"
  <2>1. ~Starts(c)
      BY <1>1 DEF SerialInv, StartsInv
  <2>2. path[c] = "poll"
      BY <2>1 DEF Starts, Advances
  <2> QED
      BY <2>2, NotPolling DEF PollPoints
<1>3. CASE pc[d] = "claiming"
    BY <1>1, <1>3 DEF LoadedOK, SendOK
<1>4. CASE pc[d] # "claiming"
  <2>1. pc[d] \in OpPoints /\ opRef[d] \in Calls /\ obj[opRef[d]] # NoObj
      BY <1>1, <1>4, HoldsOp DEF Starts, OpPoints, IInv, TypeOK
  <2>2. IdOf(d)' = IdOf(d) /\ IdOf(d) \in Calls
      BY <1>1, <1>4, <2>1, AdvancesStarts, Shapes DEF IdOf, IInv
  <2>3. LoadedOK(d) /\ SendOK(d)
      BY <1>1 DEF SerialInv, PhasesInv
  <2>4. /\ diskOp'[IdOf(d)].state = "prepared" => diskOp'[IdOf(d)] = diskOp[IdOf(d)]
        /\ diskRun[IdOf(d)] # NoRun => diskRun'[IdOf(d)] # NoRun
        /\ OnDisk(IdOf(d)) => OnDisk(IdOf(d))'
      BY <2>2, FileAdvances DEF SerialInv, Advances
  <2>5. Sent' \subseteq Sent
      BY <1>2 DEF Advances
  <2>6. Prompts(IdOf(d))' \subseteq Prompts(IdOf(d))
      BY <2>2, <2>5 DEF Prompts
  <2>7. obj'[opRef[d]] = obj[opRef[d]] \/ Settled(c, opRef[d])
      BY <2>1 DEF Advances
  <2>8. LoadedOK(d)'
      BY <1>1, <2>2, <2>3, <2>4, <2>6 DEF LoadedOK, Advances
  <2>9. SendOK(d)'
    <3>1. /\ obj'[opRef[d]].state = "prepared" <=> obj[opRef[d]].state = "prepared"
          /\ obj'[opRef[d]].state = "submitted" => obj[opRef[d]].state = "submitted"
        BY <1>2, <2>7 DEF Settled
    <3>2. \A job \in Waits' : job.call = d => job \in Waits
        BY DEF Advances, Goes, Snapshot
    <3> QED
        BY <1>1, <2>2, <2>3, <2>4, <2>6, <3>1, <3>2 DEF SendOK, Advances
  <2> QED
      BY <2>8, <2>9
<1> QED
    BY <1>3, <1>4

\* So what remains to show of a step is what the call that moves knows after it.
LEMMA Advanced ==
  ASSUME IInv, SerialInv, NEW c \in Calls, NEW p, Advances(c, p), IInv',
         Starts(c) => SendOK(c)'
  PROVE  SerialInv'
<1>1. \A d \in Calls : Starts(d)' => LoadedOK(d)' /\ SendOK(d)'
  <2>1. Starts(c)' => LoadedOK(c)' /\ SendOK(c)'
      BY AdvancesStarts DEF Advances, Goes, LoadedOK
  <2> QED
      BY <2>1, OthersPhases
<1>2. PhasesInv'
    BY <1>1 DEF PhasesInv
<1>3. StartsInv' /\ RunsInv' /\ AgesInv' /\ LoadedInv'
    BY AdvancesStarts, AdvancesRuns, AdvancesAges DEF SerialInv
<1>4. SubmittedInv' /\ PromptsInv'
    BY AdvancesSubmitted, AdvancesPrompts
<1> QED
    BY <1>2, <1>3, <1>4 DEF SerialInv

\* A call knows nothing in particular once it has not much left to do.
Plain == Points \ {"idle", "claiming", "loaded", "setup", "savingRun", "savingSubmit", "dispatch",
                   "refresh", "savingRefresh", "savingMissing"}

LEMMA PlainPhase ==
  ASSUME NEW c \in Calls, NEW p \in Plain, Advances(c, p)
  PROVE  SendOK(c)'
BY DEF Plain, SendOK, Advances, Goes

-----------------------------------------------------------------------------
(* The fragments of the actions.                                           *)

RecordsStay == \A r \in Calls : robj'[r].id = robj[r].id /\ robj'[r].session = robj[r].session

LEMMA AdmitStays ==
  ASSUME TypeOK, NEW c \in Calls, NEW a, Admit(c, a) \/ Finalize(c, a) \/ UNCHANGED robj
  PROVE  RecordsStay
<1>1. robj = [r \in Calls |-> robj[r]]
    BY DEF TypeOK
<1>3. CASE Admit(c, a)
    BY <1>1, <1>3 DEF Admit, RecordsStay, TypeOK, Run, NoRun
<1>4. CASE Finalize(c, a)
    BY <1>1, <1>4 DEF Finalize, RecordsStay, TypeOK, Run, NoRun
<1>5. CASE UNCHANGED robj
    BY <1>5 DEF RecordsStay
<1> QED
    BY <1>3, <1>4, <1>5

LEMMA ObjSettles ==
  ASSUME TypeOK, NEW c \in Calls, NEW o \in Calls, obj[o] \in OpObj, NEW state \in OpStates \ {"prepared"},
         obj' = [obj EXCEPT ![o].state = state, ![o].at = clock],
         state = "submitted" => path[c] # "poll" /\ runs[obj[o].id] # None,
         path[c] = "poll" => obj[o].state # "prepared"
  PROVE  /\ \A x \in Calls : obj'[x] = obj[x] \/ Settled(c, x)
         /\ obj'[o].state = state /\ obj'[o].id = obj[o].id /\ obj'[o].key = obj[o].key
         /\ obj'[o].at = clock
<1>1. \A x \in Calls : x # o => obj'[x] = obj[x]
    BY DEF TypeOK
<1>2. obj'[o] = [[obj[o] EXCEPT !.state = state] EXCEPT !.at = clock]
    BY DEF TypeOK
<1>3. obj'[o].state = state /\ obj'[o].id = obj[o].id /\ obj'[o].key = obj[o].key /\ obj'[o].at = clock
    BY <1>2 DEF OpObj
<1> QED
    BY <1>1, <1>3 DEF Settled

\* The part of a step that every action of a moving call leaves alone.
Steady == UNCHANGED <<path, opRef, runRef, loaded, clock>> /\ RecordsStay /\ FileMoves

LEMMA PlainSerial ==
  ASSUME IInv, SerialInv, IInv', NEW c \in Calls, NEW p \in Plain, NEW q, Released(c, q),
         Await(c, p, q) \/ Continue(c, p, q), pc[c] \notin {"idle", "done"},
         p # "done" => pc[c] # "claiming", p \in RunPoints => pc[c] \in RunPoints,
         Steady, UNCHANGED <<journal, runs>>,
         \A m \in Sent' : m \in Sent \/ (pc[c] = "dispatch" /\ m = RequestOf(c)),
         \A o \in Calls : obj'[o] = obj[o] \/ Settled(c, o)
  PROVE  SerialInv'
<1>1. Goes(c, p)
    BY Going
<1>2. Advances(c, p)
    BY <1>1 DEF Advances, Steady, RecordsStay, Plain
<1> QED
    BY <1>2, PlainPhase, Advanced

\* A transition of the operation a call holds, or the conflict it ends in.
LEMMA TransitionSerial ==
  ASSUME IInv, SerialInv, IInv', NEW c \in Calls, NEW q, Released(c, q),
         pc[c] \in RunPoints, path[c] # "poll", Steady, Sent' \subseteq Sent,
         NEW state \in OpStates \ {"prepared", "submitted"},
         NEW p \in {"savingAck", "savingReject", "savingUnknown", "savingFailure"},
         Transition(c, state, p, q) \/ Conflict(c, state, q)
  PROVE  SerialInv'
<1>0. \A m \in Sent' : m \in Sent \/ (pc[c] = "dispatch" /\ m = RequestOf(c))
    OBVIOUS
<1>1. p \in Plain /\ "done" \in Plain /\ pc[c] \notin {"idle", "done", "claiming"}
    BY DEF Plain, Points, Waiting, RunPoints
<1>2. opRef[c] \in Calls /\ obj[opRef[c]] \in OpObj
    BY RestPoints, HoldsOp
<1>3. CASE Transition(c, state, p, q)
  <2>1. \A o \in Calls : obj'[o] = obj[o] \/ Settled(c, o)
      BY <1>2, <1>3, ObjSettles DEF Transition, IInv
  <2>2. UNCHANGED <<journal, runs>> /\ Await(c, p, q)
      BY <1>3 DEF Transition
  <2> QED
      BY <1>0, <1>1, <2>1, <2>2, PlainSerial
<1>4. CASE Conflict(c, state, q)
  <2>1. UNCHANGED <<obj, journal, runs>> /\ Continue(c, "done", q)
      BY <1>4 DEF Conflict
  <2> QED
      BY <1>0, <1>1, <2>1, PlainSerial
<1> QED
    BY <1>3, <1>4

\* A refresh that is over: the caller saves, ends, or asks the Host again, which
\* it does only for an operation that is on disk.
LEMMA RefreshedSerial ==
  ASSUME IInv, SerialInv, IInv', NEW c \in Calls, NEW q, Released(c, q),
         pc[c] \in {"refresh", "savingRefresh", "savingMissing"},
         Steady, UNCHANGED <<wire, host>>, AfterRefresh(c, q)
  PROVE  SerialInv'
<1>1. pc[c] \in RunPoints /\ pc[c] \notin {"idle", "done", "claiming"} /\ "savingFinal" \in Plain /\ "done" \in Plain
    BY DEF RunPoints, Plain, Points, Waiting
<1>2. UNCHANGED <<obj, journal, runs>> /\ Sent' = Sent /\ "savingFinal" \notin RunPoints /\ "done" \notin RunPoints
    BY DEF AfterRefresh, Sent, RunPoints
<1>0. /\ \A m \in Sent' : m \in Sent \/ (pc[c] = "dispatch" /\ m = RequestOf(c))
      /\ \A o \in Calls : obj'[o] = obj[o] \/ Settled(c, o)
      /\ UNCHANGED <<journal, runs>>
    BY <1>2
<1>3. CASE Await(c, "savingFinal", q)
    BY <1>0, <1>1, <1>2, <1>3, PlainSerial
<1>4. CASE Continue(c, "done", q)
    BY <1>0, <1>1, <1>2, <1>4, PlainSerial
<1>5. CASE path[c] = "replay" /\ obj[opRef[c]].state = "submitted" /\ Continue(c, "dispatch", q)
  <2>0. Goes(c, "dispatch")
      BY <1>5, Going
  <2>1. Advances(c, "dispatch")
      BY <1>0, <1>1, <2>0 DEF Advances, Steady, RecordsStay
  <2>2. Starts(c) /\ OnDisk(IdOf(c)) /\ IdOf(c) \in Calls
      BY <1>1, <1>5, HoldsItsRun DEF Starts, SerialInv, PhasesInv, SendOK
  <2>3. \A i \in Calls : OnDisk(i) => OnDisk(i)'
      BY FileAdvances DEF SerialInv, Steady
  <2>4. IdOf(c)' = IdOf(c) /\ obj'[opRef'[c]].state = "submitted" /\ pc'[c] = "dispatch"
      BY <1>2, <1>5, <2>1 DEF IdOf, Steady, Advances, Goes
  <2>5. OnDisk(IdOf(c))'
      BY <2>2, <2>3, <2>4
  <2>6. SendOK(c)'
      BY <2>4, <2>5 DEF SendOK
  <2> QED
      BY <2>1, <2>6, Advanced
<1>6. \/ Await(c, "savingFinal", q) \/ Continue(c, "done", q)
      \/ path[c] = "replay" /\ obj[opRef[c]].state = "submitted" /\ Continue(c, "dispatch", q)
  <2>1. NoObj.state # "submitted"
      BY DEF NoObj
  <2> QED
      BY <1>2, <2>1 DEF AfterRefresh
<1> QED
    BY <1>3, <1>4, <1>5, <1>6

\* A refresh that settles the operation of its run.
LEMMA SettledSerial ==
  ASSUME IInv, SerialInv, IInv', NEW c \in Calls,
         pc[c] = "refresh", Steady, UNCHANGED <<wire, host, journal, runs>>,
         NEW o \in Calls, obj[o] \in OpObj, Starts(c) => o = opRef[c],
         NEW state \in {"acknowledged", "reconciled", "failed"}, obj[o].state # "prepared",
         obj' = [obj EXCEPT ![o].state = state, ![o].at = clock],
         NEW p \in {"savingRefresh", "savingMissing"}, Await(c, p, queue)
  PROVE  SerialInv'
<1>1. pc[c] \in RunPoints /\ Released(c, queue)
    BY DEF RunPoints, Released, Waiting
<1>3. state \in OpStates \ {"prepared"} /\ state # "submitted"
    BY DEF OpStates
<1>4. /\ \A x \in Calls : obj'[x] = obj[x] \/ Settled(c, x)
      /\ obj'[o].state = state
  <2>1. TypeOK /\ (state = "submitted" => path[c] # "poll" /\ runs[obj[o].id] # None)
      BY <1>3 DEF IInv
  <2>2. path[c] = "poll" => obj[o].state # "prepared"
      OBVIOUS
  <2> QED
      BY <1>3, <2>1, <2>2, ObjSettles
<1>5. Sent' = Sent
    BY DEF Sent
<1>6. Advances(c, p)
  <2>1. Goes(c, p)
      BY <1>1, Going
  <2>2. pc[c] \notin {"idle", "done"} /\ p \notin {"idle", "claiming", "loaded"} /\ pc[c] # "claiming"
      OBVIOUS
  <2> QED
      BY <1>1, <1>4, <1>5, <2>1, <2>2 DEF Advances, Steady, RecordsStay
<1>7. ASSUME Starts(c) PROVE SendOK(c)'
  <2>2. obj'[opRef'[c]].state # "submitted" /\ pc'[c] = p
      BY <1>3, <1>4, <1>6, <1>7 DEF Steady, Advances, Goes
  <2> QED
      BY <2>2 DEF SendOK
<1> QED
    BY <1>6, <1>7, Advanced

\* The operation of a run that is refreshed.
LEMMA RefreshedOp ==
  ASSUME IInv, SerialInv, NEW c \in Calls, pc[c] \in RunPoints
  PROVE  LET o == journal[robj[runRef[c]].id]
         IN  o \in Calls /\ obj[o] \in OpObj /\ (Starts(c) => o = opRef[c])
<1>1. Starts(c) => journal[robj[runRef[c]].id] = opRef[c]
    BY HoldsItsRun DEF SerialInv
<1> QED
    BY <1>1, RunsOperation

-----------------------------------------------------------------------------
(* One lemma per action of a call that moves on.                           *)

LEMMA StillSteady ==
  ASSUME UNCHANGED <<disk, path, opRef, runRef, loaded, bounds>>, RecordsStay
  PROVE  Steady
BY DEF Steady, FileMoves, bounds

LEMMA AnsweredSerial ==
  ASSUME IInv, SerialInv, IInv', NEW c \in Calls, Accepted(c) \/ Rejected(c) \/ Unanswered(c)
  PROVE  SerialInv'
<1>1. pc[c] = "answer" /\ pc[c] \in RunPoints /\ path[c] # "poll" /\ Released(c, queue)
  <2>1. pc[c] = "answer" /\ pc[c] \notin PollPoints
      BY DEF Accepted, Rejected, Unanswered, PollPoints
  <2> QED
      BY <2>1, NotPolling DEF RunPoints, Released, Waiting
<1>2. RecordsStay
    BY AdmitStays DEF IInv, Accepted, Rejected, Unanswered
<1>3. UNCHANGED <<disk, path, opRef, runRef, loaded, bounds>> /\ Sent' \subseteq Sent
    BY DEF Accepted, Rejected, Unanswered, Sent
<1>4. Steady
    BY <1>2, <1>3, StillSteady
<1>5. {"acknowledged", "failed", "unknown"} \subseteq OpStates \ {"prepared", "submitted"}
    BY DEF OpStates
<1>6. CASE Transition(c, "acknowledged", "savingAck", queue) \/ Conflict(c, "acknowledged", queue)
    BY <1>1, <1>3, <1>4, <1>5, <1>6, TransitionSerial
<1>7. CASE Transition(c, "failed", "savingReject", queue) \/ Conflict(c, "failed", queue)
    BY <1>1, <1>3, <1>4, <1>5, <1>7, TransitionSerial
<1>8. CASE Transition(c, "unknown", "savingUnknown", queue) \/ Conflict(c, "unknown", queue)
    BY <1>1, <1>3, <1>4, <1>5, <1>8, TransitionSerial
<1> QED
    BY <1>6, <1>7, <1>8 DEF Accepted, Rejected, Unanswered

LEMMA DispatchSerial ==
  ASSUME IInv, SerialInv, IInv', NEW c \in Calls, Dispatch(c)
  PROVE  SerialInv'
<1>1. pc[c] = "dispatch" /\ pc[c] \in RunPoints /\ Released(c, queue) /\ "answer" \in Plain
    BY DEF Dispatch, RunPoints, Released, Waiting, Plain, Points
<1>2. RecordsStay /\ UNCHANGED <<disk, path, opRef, runRef, loaded, bounds, journal, runs, obj, queue>>
    BY DEF Dispatch, RecordsStay, memory
<1>3. Steady
    BY <1>2, StillSteady
<1>4. Continue(c, "answer", queue)
    BY <1>2 DEF Dispatch, Continue
<1>5. \A m \in Sent' : m \in Sent \/ (pc[c] = "dispatch" /\ m = RequestOf(c))
    BY <1>1 DEF Dispatch, Sent
<1> QED
    BY <1>1, <1>2, <1>3, <1>4, <1>5, PlainSerial

LEMMA RefreshFailsSerial ==
  ASSUME IInv, SerialInv, IInv', NEW c \in Calls, RefreshFails(c) \/ SetUpFailsEarly(c)
  PROVE  SerialInv'
<1>1. /\ pc[c] \in {"refresh", "setup"} /\ Released(c, queue) /\ "done" \in Plain
      /\ "done" \notin RunPoints
    BY DEF RefreshFails, SetUpFailsEarly, RunPoints, Released, Waiting, Plain, Points
<1>2. /\ RecordsStay /\ UNCHANGED <<disk, path, opRef, runRef, loaded, bounds, journal, runs, obj, queue>>
      /\ UNCHANGED <<wire, host>> /\ Goto(c, "done")
    BY DEF RefreshFails, SetUpFailsEarly, RecordsStay, memory
<1>3. Steady
    BY <1>2, StillSteady
<1>4. Continue(c, "done", queue)
    BY <1>2 DEF Continue
<1>5. \A m \in Sent' : m \in Sent \/ (pc[c] = "dispatch" /\ m = RequestOf(c))
    BY <1>2 DEF Sent
<1> QED
    BY <1>1, <1>2, <1>3, <1>4, <1>5, PlainSerial

LEMMA SetUpFailsSerial ==
  ASSUME IInv, SerialInv, IInv', NEW c \in Calls, SetUpFails(c)
  PROVE  SerialInv'
<1>1. /\ pc[c] = "setup" /\ Released(c, queue) /\ path[c] # "poll" /\ pc[c] \in OpPoints
      /\ "savingSetupFailure" \in Plain /\ "savingSetupFailure" \notin RunPoints
  <2>1. pc[c] = "setup" /\ pc[c] \notin PollPoints
      BY DEF SetUpFails, PollPoints
  <2> QED
      BY <2>1, NotPolling DEF RunPoints, OpPoints, Released, Waiting, Plain, Points
<1>2. RecordsStay /\ UNCHANGED <<disk, path, opRef, runRef, loaded, bounds, journal, runs, wire, host>>
    BY DEF SetUpFails, RecordsStay
<1>3. Steady
    BY <1>2, StillSteady
<1>4. opRef[c] \in Calls /\ obj[opRef[c]] \in OpObj /\ "failed" \in OpStates \ {"prepared"} /\ TypeOK
    BY <1>1, HoldsOp DEF OpStates, IInv
<1>5. \A x \in Calls : obj'[x] = obj[x] \/ Settled(c, x)
    BY <1>1, <1>4, ObjSettles DEF SetUpFails
<1>6. \A m \in Sent' : m \in Sent \/ (pc[c] = "dispatch" /\ m = RequestOf(c))
    BY <1>2 DEF Sent
<1>7. Await(c, "savingSetupFailure", queue)
    BY DEF SetUpFails
<1> QED
    BY <1>1, <1>2, <1>3, <1>5, <1>6, <1>7, PlainSerial

LEMMA RefreshConcludedSerial ==
  ASSUME IInv, SerialInv, IInv', NEW c \in Calls, RefreshConcluded(c)
  PROVE  SerialInv'
<1>1. pc[c] = "refresh" /\ Released(c, queue)
    BY DEF RefreshConcluded, Released, Waiting
<1>2. Steady
    BY StillSteady DEF RefreshConcluded, RecordsStay
<1> QED
    BY <1>1, <1>2, RefreshedSerial DEF RefreshConcluded

\* Only what has a run in the history, and was submitted, is acknowledged.
LEMMA RefreshFindsSerial ==
  ASSUME IInv, SerialInv, IInv', NEW c \in Calls, RefreshFinds(c)
  PROVE  SerialInv'
<1> DEFINE r == runRef[c]
           o == journal[robj[r].id]
           state == IF obj[o].state = "unknown" THEN "reconciled" ELSE "acknowledged"
           seen  == [robj EXCEPT ![r].admission = "accepted", ![r].seq = 1]
<1>1. pc[c] = "refresh" /\ Released(c, queue) /\ pc[c] \in RunPoints /\ r \in Calls /\ robj[r] \in Run
  <2>1. pc[c] = "refresh" /\ pc[c] \in RunPoints
      BY DEF RefreshFinds, RunPoints
  <2> QED
      BY <2>1, HoldsRun DEF Released, Waiting
<1>2. o \in Calls /\ obj[o] \in OpObj /\ (Starts(c) => o = opRef[c])
    BY <1>1, RefreshedOp
<1>3. \A x \in Calls : seen[x].id = robj[x].id /\ seen[x].session = robj[x].session
    BY <1>1 DEF IInv, TypeOK, Run
<1>4. seen \in [Calls -> Run \cup {NoRun}]
  <2> DEFINE x == [robj EXCEPT ![r].admission = "accepted"]
  <2>1. x \in [Calls -> Run \cup {NoRun}] /\ x[r] \in Run
      BY <1>1 DEF IInv, TypeOK, Run, Admissions
  <2>2. seen = [x EXCEPT ![r].seq = 1] /\ 1 \in 0..1
      BY <1>1 DEF IInv, TypeOK
  <2> HIDE DEF x, seen
  <2> QED
      BY <2>1, <2>2 DEF Run
<1>5. ASSUME NEW s, robj' = [seen EXCEPT ![r].status = s] PROVE RecordsStay
    BY <1>1, <1>3, <1>4, <1>5 DEF RecordsStay, Run, NoRun
<1>6. UNCHANGED <<disk, path, opRef, runRef, loaded, wire, host, bounds>>
    BY DEF RefreshFinds
<1>7. RecordsStay
    BY <1>3, <1>5 DEF RefreshFinds, RecordsStay
<1>8. Steady
    BY <1>6, <1>7, StillSteady
<1>9. CASE /\ state \in Allowed[obj[o].state]
           /\ obj' = [obj EXCEPT ![o].state = state, ![o].at = clock]
           /\ UNCHANGED <<journal, index, runs>>
           /\ Await(c, "savingRefresh", queue)
  <2>0. state \in {"acknowledged", "reconciled", "failed"} /\ obj[o].state \in OpStates
      BY <1>2 DEF OpObj
  <2>1. obj[o].state # "prepared"
    <3>1. SUFFICES ASSUME obj[o].state = "prepared" PROVE FALSE
        OBVIOUS
    <3>2. state = "acknowledged" /\ "acknowledged" \in Allowed["prepared"]
        BY <1>9, <3>1
    <3> QED
        BY <3>2 DEF Allowed
  <2> HIDE DEF o, state, seen
  <2> QED
      BY <1>1, <1>2, <1>6, <1>8, <1>9, <2>0, <2>1, SettledSerial
<1>10. CASE UNCHANGED <<obj, journal, index, runs>> /\ Continue(c, "done", queue)
  <2>1. "done" \in Plain /\ "done" \notin RunPoints
      BY DEF Plain, Points, RunPoints
  <2>2. \A m \in Sent' : m \in Sent \/ (pc[c] = "dispatch" /\ m = RequestOf(c))
      BY <1>6 DEF Sent
  <2> QED
      BY <1>1, <1>8, <1>10, <2>1, <2>2, PlainSerial
<1>11. CASE AfterRefresh(c, queue)
    BY <1>1, <1>6, <1>8, <1>11, RefreshedSerial
<1> QED
    BY <1>9, <1>10, <1>11 DEF RefreshFinds

LEMMA RefreshMissesSerial ==
  ASSUME IInv, SerialInv, IInv', NEW c \in Calls, RefreshMisses(c)
  PROVE  SerialInv'
<1> DEFINE r == runRef[c]
           o == journal[robj[r].id]
           rejected == [robj EXCEPT ![r].admission = "rejected"]
<1>1. pc[c] = "refresh" /\ Released(c, queue) /\ pc[c] \in RunPoints /\ r \in Calls /\ robj[r] \in Run
  <2>1. pc[c] = "refresh" /\ pc[c] \in RunPoints
      BY DEF RefreshMisses, RunPoints
  <2> QED
      BY <2>1, HoldsRun DEF Released, Waiting
<1>2. o \in Calls /\ obj[o] \in OpObj /\ (Starts(c) => o = opRef[c])
    BY <1>1, RefreshedOp
<1>3. RecordsStay
  <2>1. \A x \in Calls : rejected[x].id = robj[x].id /\ rejected[x].session = robj[x].session
      BY <1>1 DEF IInv, TypeOK, Run
  <2>2. rejected \in [Calls -> Run \cup {NoRun}]
      BY <1>1 DEF IInv, TypeOK, Run, Admissions
  <2>3. ASSUME robj' = [rejected EXCEPT ![r].status = "failed"] PROVE RecordsStay
      BY <1>1, <2>1, <2>2, <2>3 DEF RecordsStay, Run, NoRun
  <2> QED
      BY <2>1, <2>3 DEF RefreshMisses, RecordsStay
<1>6. UNCHANGED <<disk, path, opRef, runRef, loaded, wire, host, bounds>>
    BY DEF RefreshMisses
<1>8. Steady
    BY <1>3, <1>6, StillSteady
<1>9. CASE /\ obj[o].state = "unknown"
           /\ obj' = [obj EXCEPT ![o].state = "failed", ![o].at = clock]
           /\ UNCHANGED <<journal, index, runs>>
           /\ Await(c, "savingMissing", queue)
  <2>1. obj[o].state # "prepared"
      BY <1>9
  <2> HIDE DEF o, rejected
  <2> QED
      BY <1>1, <1>2, <1>6, <1>8, <1>9, <2>1, SettledSerial
<1>10. CASE UNCHANGED <<obj, journal, index, runs>> /\ Continue(c, "done", queue)
  <2>1. "done" \in Plain /\ "done" \notin RunPoints
      BY DEF Plain, Points, RunPoints
  <2>2. \A m \in Sent' : m \in Sent \/ (pc[c] = "dispatch" /\ m = RequestOf(c))
      BY <1>6 DEF Sent
  <2> QED
      BY <1>1, <1>8, <1>10, <2>1, <2>2, PlainSerial
<1>11. CASE AfterRefresh(c, queue)
    BY <1>1, <1>6, <1>8, <1>11, RefreshedSerial
<1> QED
    BY <1>9, <1>10, <1>11 DEF RefreshMisses

-----------------------------------------------------------------------------
(* The writes.                                                             *)

\* A save that says the operation was submitted puts it on disk.
LEMMA SubmitWritten ==
  ASSUME IInv, AgesInv, NEW job \in Waits, Merge(job), NEW i \in Calls,
         job.op[i] # NoOp, job.op[i].state # "prepared", job.run[i] # NoRun
  PROVE  diskOp'[i].state # "prepared" /\ diskRun'[i] # NoRun
<1>1. diskRun'[i] # NoRun
    BY MergedRun
<1>2. job.op[i] \in Op /\ job.op[i].at \in Nat /\ diskOp[i].at \in Nat /\ diskOp'[i].at >= job.op[i].at
    BY WaitsTyped, Shapes, MergedOp, ConstantsAssumption DEF IInv, Op
<1>3. ASSUME diskOp'[i].state = "prepared" PROVE FALSE
  <2>1. diskOp'[i] = diskOp[i]
      BY <1>3, FileAdvances DEF FileMoves
  <2>2. job.op[i].at >= diskOp[i].at
      BY <1>3, <2>1 DEF AgesInv, Fits
  <2>3. diskOp'[i] # job.op[i] /\ diskOp[i].at = job.op[i].at
      BY <1>2, <1>3, <2>1, <2>2
  <2>4. OpRank["prepared"] >= OpRank[job.op[i].state]
      BY <1>3, <2>1, <2>3, MergedOp
  <2>5. job.op[i].state \in OpStates \ {"prepared"}
      BY <1>2 DEF Op
  <2> QED
      BY <2>4, <2>5 DEF OpRank, OpStates
<1> QED
    BY <1>1, <1>3

LEMMA SaveDoneSerial ==
  ASSUME IInv, SerialInv, IInv', NEW c \in Calls, SaveDone(c)
  PROVE  SerialInv'
<1> DEFINE q == Tail(queue)
           Kept == UNCHANGED <<obj, journal, index, robj, runs>>
<1>1. /\ Released(c, q) /\ pc[c] \in Waiting /\ pc[c] # "claiming"
      /\ Head(queue) \in Waits /\ Head(queue).call = c /\ Merge(Head(queue))
    BY TakenFromQueue, WritesWait DEF SaveDone, Writes, Released
<1>2. UNCHANGED <<path, opRef, runRef, loaded, clock, wire, host>> /\ FileMoves
    BY <1>1 DEF SaveDone, bounds, FileMoves
<1>3. pc[c] \notin {"idle", "done", "claiming", "dispatch"}
    BY <1>1 DEF Waiting
<1>4. \A m \in Sent' : m \in Sent \/ (pc[c] = "dispatch" /\ m = RequestOf(c))
    BY <1>2 DEF Sent
<1>5. RecordsStay => Steady
    BY <1>2 DEF Steady
<1>6. /\ {"savingFinal", "done"} \subseteq Plain /\ "savingFinal" \notin RunPoints
      /\ "done" \notin RunPoints
    BY DEF Plain, Points, Waiting, RunPoints
<1>7. Kept => RecordsStay /\ UNCHANGED <<journal, runs>> /\ \A o \in Calls : obj'[o] = obj[o] \/ Settled(c, o)
    BY DEF RecordsStay
<1> DEFINE i == IdOf(c)
           o == opRef[c]
<1>8. ASSUME pc[c] \in {"savingRun", "savingSubmit"}
      PROVE  /\ Starts(c) /\ SendOK(c) /\ path[c] # "poll" /\ pc[c] \in RunPoints
             /\ i \in Calls /\ o \in Calls /\ obj[o] \in OpObj /\ journal[i] = o
             /\ runs[i] \in Calls /\ robj[runs[i]] # NoRun
  <2>1. path[c] # "poll" /\ pc[c] \in RunPoints /\ pc[c] \in OpPoints
      BY <1>8, NotPolling, RestPoints DEF PollPoints, RunPoints
  <2>2. Starts(c) /\ SendOK(c)
      BY <1>3, <2>1 DEF Starts, SerialInv, PhasesInv
  <2> QED
      BY <2>1, <2>2, HoldsOp, HoldsItsRun DEF SerialInv
<1>9. CASE pc[c] = "savingRun" /\ Submit(c, q)
  <2>1. obj[o].state = "prepared" /\ "submitted" \in OpStates \ {"prepared"} /\ runs[obj[o].id] # None
      BY <1>8, <1>9, ConstantsAssumption DEF SendOK, OpStates, IdOf
  <2>2. Transition(c, "submitted", "savingSubmit", q) /\ UNCHANGED robj
      BY <1>9, <2>1 DEF Submit
  <2>3. /\ \A x \in Calls : obj'[x] = obj[x] \/ Settled(c, x)
        /\ obj'[o].state = "submitted" /\ obj'[o].id = obj[o].id
    <3>1. obj' = [obj EXCEPT ![o].state = "submitted", ![o].at = clock]
        BY <2>2 DEF Transition
    <3>2. TypeOK /\ o \in Calls /\ obj[o] \in OpObj /\ path[c] # "poll"
        BY <1>8, <1>9 DEF IInv
    <3> HIDE DEF o
    <3> QED
        BY <2>1, <3>1, <3>2, ObjSettles
  <2>4. UNCHANGED <<journal, runs, robj>> /\ Await(c, "savingSubmit", q) /\ RecordsStay
      BY <2>2 DEF Transition, RecordsStay
  <2>5. Goes(c, "savingSubmit")
      BY <1>1, <2>4, Going
  <2>6. Advances(c, "savingSubmit")
      BY <1>2, <1>3, <1>4, <1>8, <1>9, <2>3, <2>4, <2>5 DEF Advances, RecordsStay
  <2>7. i \in Calls /\ IdOf(c)' = i /\ opRef'[c] = o
      BY <1>2, <1>8, <1>9, <2>3 DEF IdOf
  <2>8. /\ Snapshot(c)'.run[i] = robj[runs[i]]
        /\ Snapshot(c)'.op[i] = OpOf(obj'[o])
      BY <1>8, <1>9, <2>4, ConstantsAssumption DEF Snapshot, OpView, RunView
  <2>9. /\ Snapshot(c)'.op[i].state = "submitted" /\ NoOp.state # "submitted"
      BY <2>3, <2>8 DEF OpOf, NoOp, NoObj
  <2>10. SendOK(c)'
    <3>1. \A job \in Waits' : job.call = c => job = Snapshot(c)'
        BY <2>5 DEF Goes
    <3>2. pc'[c] = "savingSubmit" /\ path'[c] = path[c]
        BY <1>2, <2>5 DEF Goes
    <3> QED
        BY <1>8, <1>9, <2>3, <2>7, <2>8, <2>9, <3>1, <3>2 DEF SendOK
  <2> QED
      BY <2>6, <2>10, Advanced
<1>10. CASE pc[c] = "savingSubmit" /\ Kept /\ Continue(c, "dispatch", q)
  <2>1. obj[o].state # "prepared" /\ OnDisk(i)'
    <3>1. obj[o].state # "prepared" /\ Head(queue).run[i] # NoRun
          /\ Head(queue).op[i] # NoOp /\ Head(queue).op[i].state # "prepared"
        BY <1>1, <1>8, <1>10 DEF SendOK
    <3>2. diskOp'[i].state # "prepared" /\ diskRun'[i] # NoRun
        BY <1>1, <1>8, <1>10, <3>1, SubmitWritten DEF SerialInv
    <3>3. IdOf(c)' = i
        BY <1>2, <1>10 DEF IdOf
    <3> QED
        BY <3>1, <3>2, <3>3 DEF OnDisk
  <2>2. Goes(c, "dispatch")
      BY <1>1, <1>10, Going
  <2>3. Advances(c, "dispatch")
      BY <1>2, <1>3, <1>4, <1>7, <1>8, <1>10, <2>2 DEF Advances, RecordsStay
  <2>4. pc'[c] = "dispatch" /\ opRef'[c] = o /\ obj' = obj /\ IdOf(c)' = i
      BY <1>2, <1>10, <2>2 DEF Goes, IdOf
  <2>5. SendOK(c)'
      BY <2>1, <2>4 DEF SendOK
  <2> QED
      BY <2>3, <2>5, Advanced
<1>11. CASE pc[c] \in {"savingAck", "savingUnknown"} /\ path[c] = "fresh" /\ Kept /\ Continue(c, "refresh", q)
  <2>1. Goes(c, "refresh")
      BY <1>1, <1>11, Going
  <2>2. Advances(c, "refresh")
      BY <1>2, <1>3, <1>4, <1>7, <1>11, <2>1 DEF Advances, RecordsStay, RunPoints
  <2>3. SendOK(c)'
      BY <1>2, <1>11, <2>1 DEF SendOK, Goes
  <2> QED
      BY <2>2, <2>3, Advanced
<1>12. CASE Kept /\ (Await(c, "savingFinal", q) \/ Continue(c, "done", q))
    BY <1>1, <1>3, <1>4, <1>5, <1>6, <1>7, <1>12, PlainSerial
<1>13. CASE /\ Finalize(c, "failed")
            /\ UNCHANGED <<obj, journal, index, runs>> /\ Await(c, "savingFinal", q)
  <2>1. RecordsStay
      BY <1>13, AdmitStays DEF IInv
  <2>2. UNCHANGED <<journal, runs>> /\ \A x \in Calls : obj'[x] = obj[x] \/ Settled(c, x)
      BY <1>13
  <2> QED
      BY <1>1, <1>3, <1>4, <1>5, <1>6, <1>13, <2>1, <2>2, PlainSerial
<1>14. CASE /\ pc[c] \in {"savingRefresh", "savingMissing"}
            /\ \E s \in Statuses \cup {robj[runRef[c]].status} : Finalize(c, s)
            /\ AfterRefresh(c, q)
  <2>1. RecordsStay
      BY <1>14, AdmitStays DEF IInv
  <2> QED
      BY <1>1, <1>2, <1>5, <1>14, <2>1, RefreshedSerial
<1>15. CASE pc[c] = "savingRefresh" /\ Conclude(c, q)
    BY <1>14, <1>15 DEF Conclude, Statuses
<1>16. CASE pc[c] = "savingMissing" /\ Finalize(c, "failed") /\ AfterRefresh(c, q)
    BY <1>14, <1>16 DEF Statuses
<1>17. Resume(c, q)
    BY DEF SaveDone
<1> QED
    BY <1>9, <1>10, <1>11, <1>12, <1>13, <1>15, <1>16, <1>17 DEF Resume

LEMMA WriteFailsSerial ==
  ASSUME IInv, SerialInv, IInv', NEW c \in Calls, WriteFails(c)
  PROVE  SerialInv'
<1> DEFINE q == Tail(queue)
           r == runRef[c]
           caught == /\ pc[c] \in {"savingRun", "savingSubmit"} /\ path[c] = "fresh"
                     /\ robj[r].admission = "pending"
<1>1. Released(c, q) /\ pc[c] \notin {"idle", "done"}
    BY TakenFromQueue DEF WriteFails, Released, Waiting
<1>2. UNCHANGED <<disk, path, opRef, runRef, loaded, clock, wire, host>>
    BY DEF WriteFails
<1>3. RecordsStay => Steady
    BY <1>2 DEF Steady, FileMoves
<1>4. \A m \in Sent' : m \in Sent \/ (pc[c] = "dispatch" /\ m = RequestOf(c))
    BY <1>2 DEF Sent
<1>5. /\ {"savingFinal", "done"} \subseteq Plain /\ "savingFinal" \notin RunPoints
      /\ "done" \notin RunPoints
    BY DEF Plain, Points, Waiting, RunPoints
<1>6. CASE caught /\ CatchPending(c, q)
  <2>1. pc[c] \in RunPoints /\ path[c] # "poll" /\ "failed" \in OpStates \ {"prepared", "submitted"}
      BY <1>6 DEF RunPoints, OpStates
  <2>2. RecordsStay
      BY <1>6, AdmitStays DEF IInv, CatchPending
  <2>3. Sent' \subseteq Sent
      BY <1>2 DEF Sent
  <2>4. Transition(c, "failed", "savingFailure", q) \/ Conflict(c, "failed", q)
      BY <1>6 DEF CatchPending
  <2> QED
      BY <1>1, <1>3, <2>1, <2>2, <2>3, <2>4, TransitionSerial
<1>7. CASE /\ caught
           /\ robj' = [robj EXCEPT ![r].admission = "rejected", ![r].status = "failed"]
           /\ UNCHANGED <<obj, journal, index, runs>> /\ Await(c, "savingFinal", q)
  <2>1. r \in Calls /\ robj[r] \in Run /\ pc[c] # "claiming"
    <3>1. pc[c] \in RunPoints
        BY <1>7 DEF RunPoints
    <3> QED
        BY <1>7, <3>1, HoldsRun
  <2>2. RecordsStay
      BY <1>7, <2>1 DEF RecordsStay, IInv, TypeOK, Run, NoRun
  <2>3. UNCHANGED <<journal, runs>> /\ \A x \in Calls : obj'[x] = obj[x] \/ Settled(c, x)
      BY <1>7
  <2> QED
      BY <1>1, <1>3, <1>4, <1>5, <1>7, <2>1, <2>2, <2>3, PlainSerial
<1>8. CASE UNCHANGED <<obj, journal, index, robj, runs>> /\ Continue(c, "done", q)
  <2>1. RecordsStay /\ UNCHANGED <<journal, runs>> /\ \A x \in Calls : obj'[x] = obj[x] \/ Settled(c, x)
      BY <1>8 DEF RecordsStay
  <2> QED
      BY <1>1, <1>3, <1>4, <1>5, <1>8, <2>1, PlainSerial
<1> QED
    BY <1>6, <1>7, <1>8 DEF WriteFails

-----------------------------------------------------------------------------
(* The steps that leave every record as it is.                             *)

Unwritten(job) == job.at \in Nat /\ job.at <= clock /\ \A i \in Calls : job.op[i] = NoOp /\ job.run[i] = NoRun

SameRecords ==
  /\ UNCHANGED <<diskOp, diskRun, obj, journal, robj, runs>>
  /\ clock' \in Nat /\ clock' >= clock /\ Sent' \subseteq Sent
  /\ \A job \in Waits' : job \in Waits \/ Unwritten(job)

LEMMA RecordsKept ==
  ASSUME IInv, SerialInv, SameRecords
  PROVE  RunsInv' /\ AgesInv' /\ SubmittedInv' /\ PromptsInv'
<1>1. RunsInv'
    BY DEF SerialInv, RunsInv, SameRecords, Unwritten
<1>2. AgesInv'
  <2>1. clock \in Nat /\ \A i \in Calls : diskOp[i].at \in Nat /\ obj[i].at \in Nat
      BY Shapes DEF IInv
  <2>2. \A job \in Waits : job.at \in Nat /\ \A i \in Calls : job.op[i].at \in Nat
      BY WaitsTyped, ConstantsAssumption DEF Job, Op, NoOp
  <2>3. clock' \in Nat /\ clock' >= clock /\ UNCHANGED <<diskOp, obj>>
      BY DEF SameRecords
  <2>4. \A i \in Calls : diskOp'[i].at <= clock'
      BY <2>1, <2>3 DEF SerialInv, AgesInv
  <2>5. \A job \in Waits' : job.at <= clock'
      BY <2>1, <2>2, <2>3 DEF SerialInv, AgesInv, SameRecords, Unwritten
  <2>6. \A o \in Calls : obj'[o] # NoObj => Fits(obj[o], obj[o].id)'
      BY <2>1, <2>3 DEF SerialInv, AgesInv, Fits
  <2>7. \A job \in Waits', i \in Calls : job.op[i] # NoOp => job \in Waits
      BY DEF SameRecords, Unwritten
  <2>8. ASSUME NEW job \in Waits', NEW i \in Calls, job.op[i] # NoOp
        PROVE  /\ job.op[i].at <= clock'
               /\ (job.op[i].state = "prepared" => job.op[i].at <= diskOp'[i].at)
               /\ (job.op[i].state # "prepared" /\ diskOp'[i].state = "prepared" => job.op[i].at >= diskOp'[i].at)
    <3>1. Fits(job.op[i], i) /\ job.op[i].at \in Nat
        BY <2>2, <2>7, <2>8 DEF SerialInv, AgesInv
    <3> QED
        BY <2>1, <2>3, <3>1 DEF Fits
  <2> QED
      BY <2>4, <2>5, <2>6, <2>8 DEF AgesInv, Fits
<1>3. SubmittedInv'
    BY DEF SerialInv, SubmittedInv, SameRecords, Unwritten, NoOp
<1>4. PromptsInv'
    BY DEF SerialInv, PromptsInv, SameRecords, OnDisk
<1> QED
    BY <1>1, <1>2, <1>3, <1>4

\* A start that nothing happened to.
LEMMA QuietSerial ==
  ASSUME IInv, SerialInv, SameRecords, Waits' = Waits,
         \A d \in Calls : Starts(d)' =>
           pc'[d] = pc[d] /\ path'[d] = path[d] /\ loaded'[d] = loaded[d]
           /\ opRef'[d] = opRef[d] /\ runRef'[d] = runRef[d]
  PROVE  SerialInv'
<1>1. \A d \in Calls : Starts(d)' => Starts(d)
    BY DEF Starts
<1>2. \A d \in Calls : Starts(d)' => IdOf(d)' = IdOf(d)
    BY DEF IdOf, SameRecords
<1>3. StartsInv'
    BY <1>1, <1>2 DEF SerialInv, StartsInv, SameRecords
<1>4. PhasesInv'
  <2>1. ASSUME NEW d \in Calls, Starts(d)' PROVE LoadedOK(d)' /\ SendOK(d)'
    <3>1. LoadedOK(d) /\ SendOK(d) /\ IdOf(d)' = IdOf(d)
        BY <1>1, <1>2, <2>1 DEF SerialInv, PhasesInv
    <3>2. Prompts(IdOf(d))' \subseteq Prompts(IdOf(d)) /\ (OnDisk(IdOf(d))' <=> OnDisk(IdOf(d)))
        BY <3>1 DEF Prompts, OnDisk, SameRecords
    <3>3. LoadedOK(d)'
        BY <2>1, <3>1, <3>2 DEF LoadedOK, SameRecords
    <3>4. SendOK(d)'
        BY <2>1, <3>1, <3>2 DEF SendOK, SameRecords
    <3> QED
        BY <3>3, <3>4
  <2> QED
      BY <2>1 DEF PhasesInv
<1>5. LoadedInv'
  <2>1. ASSUME NEW d \in Calls, Starts(d)', pc'[d] = "loaded" PROVE Fits(loaded[d].op, IdOf(d))'
    <3>1. Fits(loaded[d].op, IdOf(d)) /\ IdOf(d)' = IdOf(d) /\ loaded'[d] = loaded[d]
        BY <1>1, <1>2, <2>1 DEF SerialInv, LoadedInv
    <3>2. clock \in Nat /\ loaded[d].op.at \in Nat
        BY ConstantsAssumption DEF IInv, TypeOK, Op, NoOp
    <3> QED
        BY <3>1, <3>2 DEF Fits, SameRecords
  <2> QED
      BY <2>1 DEF LoadedInv
<1> QED
    BY <1>3, <1>4, <1>5, RecordsKept DEF SerialInv

LEMMA HostSerial ==
  ASSUME IInv, SerialInv, NEW m \in wire, HostPersists(m) \/ HostLoses(m)
  PROVE  SerialInv'
<1>1. SameRecords /\ Waits' = Waits
    BY Shapes DEF SameRecords, HostPersists, HostLoses, Sent, disk, memory, bounds, Waits, IInv
<1> QED
    BY <1>1, QuietSerial DEF HostPersists, HostLoses, calls

LEMMA TickSerial ==
  ASSUME IInv, SerialInv, Tick \/ UNCHANGED vars
  PROVE  SerialInv'
<1>1. clock \in Nat /\ UNCHANGED <<disk, memory, calls, wire, host>> /\ (clock' = clock + 1 \/ clock' = clock)
    BY Shapes DEF Tick, vars, bounds, IInv
<1>2. SameRecords /\ Waits' = Waits
    BY <1>1 DEF SameRecords, Sent, disk, memory, Waits
<1> QED
    BY <1>1, <1>2, QuietSerial DEF calls

LEMMA CallPollsSerial ==
  ASSUME IInv, SerialInv, NEW c \in Calls, NEW i \in Calls, CallPolls(c, i)
  PROVE  SerialInv'
<1>1. SameRecords /\ Waits' = Waits
    BY Shapes DEF SameRecords, CallPolls, Sent, disk, memory, bounds, Waits, IInv
<1>2. path' = [path EXCEPT ![c] = "poll"]
    BY DEF CallPolls
<1>3. \A d \in Calls : Starts(d)' => d # c
    BY <1>2 DEF Starts, IInv, TypeOK
<1>4. \A d \in Calls : d # c =>
        pc'[d] = pc[d] /\ path'[d] = path[d] /\ loaded'[d] = loaded[d]
        /\ opRef'[d] = opRef[d] /\ runRef'[d] = runRef[d]
    BY DEF CallPolls, Goto, IInv, TypeOK
<1> QED
    BY <1>1, <1>3, <1>4, QuietSerial

\* A call that starts is the only one that does.
LEMMA Alone ==
  ASSUME IInv, ~Overlap, NEW c \in Calls, MayStart(c),
         \A d \in Calls \ {c} : pc'[d] = pc[d] /\ path'[d] = path[d]
  PROVE  \A d \in Calls : Starts(d)' => d = c
BY DEF MayStart, Starts

LEMMA CallClaimsSerial ==
  ASSUME IInv, SerialInv, ~Overlap, NEW c \in Calls, NEW k \in Keys, CallClaims(c, k)
  PROVE  SerialInv'
<1>1. pc'[c] = "claiming" /\ \A d \in Calls \ {c} : pc'[d] = pc[d] /\ path'[d] = path[d]
    BY DEF CallClaims, Goto, IInv, TypeOK
<1>2. \A d \in Calls : Starts(d)' => d = c
    BY <1>1, Alone DEF CallClaims
<1>3. Waits' = Waits \cup {ClaimOf(c, k)}
    BY ElementsAppend DEF CallClaims, Waits, IInv, QueueInv, QueueOK
<1>4. Unwritten(ClaimOf(c, k))
    BY Shapes DEF Unwritten, ClaimOf, IInv
<1>5. SameRecords
    BY <1>3, <1>4, Shapes DEF SameRecords, CallClaims, Sent, disk, bounds, IInv
<1>6. StartsInv' /\ LoadedInv' /\ PhasesInv'
    BY <1>1, <1>2 DEF StartsInv, LoadedInv, PhasesInv, LoadedOK, SendOK, RunPoints
<1> QED
    BY <1>5, <1>6, RecordsKept DEF SerialInv

LEMMA CallReplaysSerial ==
  ASSUME IInv, SerialInv, ~Overlap, NEW c \in Calls, NEW k \in Keys, CallReplays(c, k)
  PROVE  SerialInv'
<1>1. pc'[c] = "loading" /\ \A d \in Calls \ {c} : pc'[d] = pc[d] /\ path'[d] = path[d]
    BY DEF CallReplays, Goto, IInv, TypeOK
<1>2. \A d \in Calls : Starts(d)' => d = c
    BY <1>1, Alone DEF CallReplays
<1>3. SameRecords
    BY Shapes DEF SameRecords, CallReplays, Sent, disk, memory, bounds, Waits, IInv
<1>4. index[k] \in Calls /\ journal[index[k]] \in Calls /\ obj[journal[index[k]]].id = index[k]
    BY DEF CallReplays, IInv, TypeOK, IndexInv, MemInv, MemOK
<1>5. opRef'[c] = journal[index[k]]
    BY DEF CallReplays, IInv, TypeOK
<1>6. journal'[IdOf(c)'] = opRef'[c]
    BY <1>3, <1>4, <1>5 DEF IdOf, SameRecords
<1>7. StartsInv' /\ LoadedInv' /\ PhasesInv'
    BY <1>1, <1>2, <1>6 DEF StartsInv, LoadedInv, PhasesInv, LoadedOK, SendOK, RunPoints
<1> QED
    BY <1>3, <1>7, RecordsKept DEF SerialInv

LEMMA LoadSerial ==
  ASSUME IInv, SerialInv, NEW c \in Calls, Load(c)
  PROVE  SerialInv'
<1> DEFINE i == IdOf(c)
<1>1. /\ pc[c] = "loading" /\ path[c] # "poll" /\ Starts(c)
      /\ opRef[c] \in Calls /\ obj[opRef[c]] # NoObj /\ i \in Calls
  <2>1. pc[c] = "loading" /\ pc[c] \notin PollPoints /\ pc[c] \in OpPoints
      BY DEF Load, PollPoints, OpPoints, Points
  <2>2. path[c] # "poll"
      BY <2>1, NotPolling
  <2> QED
      BY <2>1, <2>2, HoldsOp, Shapes DEF Starts, IdOf, IInv
<1>2. /\ pc'[c] = "loaded" /\ loaded'[c] = [op |-> diskOp[i], run |-> diskRun[i]]
      /\ \A d \in Calls \ {c} : pc'[d] = pc[d]
      /\ UNCHANGED <<path, opRef, runRef, obj>>
    BY DEF Load, Goto, IInv, TypeOK, IdOf, memory
<1>3. SameRecords
    BY Shapes DEF SameRecords, Load, Sent, disk, memory, bounds, Waits, IInv
<1>4. \A d \in Calls : Starts(d)' => d = c
    BY <1>1, <1>2 DEF SerialInv, StartsInv, Starts
<1>5. IdOf(c)' = i
    BY <1>2 DEF IdOf
<1>6. diskOp[i] # NoOp /\ diskOp[i].at \in Nat
    BY <1>1, Shapes DEF IInv, MemInv, MemOK, IdOf
<1>7. Fits(diskOp[i], i)
    BY <1>1, <1>6 DEF SerialInv, AgesInv, Fits
<1>8. StartsInv'
    BY <1>1, <1>2, <1>3, <1>4, <1>5 DEF SerialInv, StartsInv, SameRecords, RunPoints
<1>9. LoadedInv'
  <2>1. clock \in Nat /\ clock' \in Nat /\ clock' >= clock /\ diskOp' = diskOp
      BY <1>3, Shapes DEF SameRecords, IInv
  <2>2. loaded'[c].op = diskOp[i]
      BY <1>2
  <2> QED
      BY <1>4, <1>5, <1>6, <1>7, <2>1, <2>2 DEF LoadedInv, Fits
<1>10. LoadedOK(c)'
  <2>1. diskOp[i].state = "prepared" => Prompts(i) = {}
      BY <1>1 DEF SerialInv, PromptsInv, Prompts, OnDisk
  <2>2. Prompts(IdOf(c))' \subseteq Prompts(i)
      BY <1>3, <1>5 DEF Prompts, SameRecords
  <2>3. diskOp[i].state = "submitted" => diskRun[i] # NoRun
      BY <1>1 DEF SerialInv, SubmittedInv
  <2>4. diskRun[i] # NoRun => runs[i] # None
      BY <1>1 DEF SerialInv, RunsInv
  <2>5. loaded'[c].op = diskOp[i] /\ loaded'[c].run = diskRun[i]
      BY <1>2
  <2> QED
      BY <1>3, <1>5, <1>6, <2>1, <2>2, <2>3, <2>4, <2>5 DEF LoadedOK, SameRecords
<1>11. SendOK(c)'
    BY <1>2 DEF SendOK
<1> QED
    BY <1>3, <1>4, <1>8, <1>9, <1>10, <1>11, RecordsKept DEF SerialInv, PhasesInv

-----------------------------------------------------------------------------
(* The steps that make an operation or a run.                              *)

\* The only start there is goes on alone.
LEMMA OneStart ==
  ASSUME SerialInv, NEW c \in Calls, Starts(c),
         \A d \in Calls \ {c} : pc'[d] = pc[d] /\ path'[d] = path[d]
  PROVE  \A d \in Calls : Starts(d)' => d = c
BY DEF SerialInv, StartsInv, Starts

\* A run is made where there was none; nothing was sent for its operation.
LEMMA SetUpSerial ==
  ASSUME IInv, SerialInv, IInv', NEW c \in Calls, SetUp(c)
  PROVE  SerialInv'
<1> DEFINE i == IdOf(c)
           run == [id |-> i, session |-> c, admission |-> "pending", status |-> "running",
                   seq |-> 0, started |-> clock]
<1>1. /\ pc[c] = "setup" /\ path[c] # "poll" /\ Starts(c) /\ Released(c, queue)
      /\ opRef[c] \in Calls /\ obj[opRef[c]] # NoObj /\ i \in Calls
      /\ obj[opRef[c]].state = "prepared" /\ runs[i] = None /\ journal[i] = opRef[c]
      /\ robj[c] = NoRun
  <2>1. pc[c] = "setup" /\ pc[c] \notin PollPoints /\ pc[c] \in OpPoints
      BY DEF SetUp, PollPoints, OpPoints, Points
  <2>2. path[c] # "poll" /\ robj[c] = NoRun
      BY <2>1, NotPolling DEF IInv, CallInv, CallOK, Early
  <2>3. Starts(c) /\ opRef[c] \in Calls /\ obj[opRef[c]] # NoObj /\ i \in Calls
      BY <2>1, <2>2, HoldsOp, Shapes DEF Starts, IdOf, IInv
  <2> QED
      BY <2>1, <2>2, <2>3 DEF SerialInv, StartsInv, PhasesInv, SendOK, Released, Waiting
<1>2. /\ robj' = [robj EXCEPT ![c] = run] /\ runs' = [runs EXCEPT ![i] = c]
      /\ runRef' = [runRef EXCEPT ![c] = c]
      /\ UNCHANGED <<obj, journal, disk, path, opRef, loaded, wire, host, clock>>
      /\ Await(c, "savingRun", queue)
    BY DEF SetUp, IdOf, bounds
<1>3. Goes(c, "savingRun")
    BY <1>1, <1>2, Going
<1>4. /\ pc'[c] = "savingRun" /\ runRef'[c] = c /\ robj'[c] = run /\ runs'[i] = c
      /\ \A d \in Calls \ {c} : pc'[d] = pc[d] /\ path'[d] = path[d] /\ robj'[d] = robj[d]
      /\ \A j \in Calls \ {i} : runs'[j] = runs[j]
      /\ IdOf(c)' = i /\ UNCHANGED <<diskOp, diskRun>> /\ Sent' = Sent
    BY <1>1, <1>2, <1>3 DEF Goes, IInv, TypeOK, IdOf, disk, Sent
<1>5. run.id = i /\ run.session = c /\ run # NoRun
    BY <1>1, ConstantsAssumption DEF NoRun
<1> HIDE DEF run
<1>6. diskRun[i] = NoRun /\ \A job \in Waits : job.run[i] = NoRun
    BY <1>1 DEF SerialInv, RunsInv
<1>7. \A j \in Calls : runs[j] # None => runs[j] \in Calls \ {c} /\ robj'[runs[j]] = robj[runs[j]]
    BY <1>1, <1>4 DEF IInv, TypeOK, MemInv, MemOK
<1>8. Prompts(i) = {}
    BY <1>6 DEF SerialInv, PromptsInv, OnDisk, Prompts
<1>9. /\ \A j \in Calls : Snapshot(c)'.run[j] = IF runs'[j] = None THEN NoRun ELSE robj'[runs'[j]]
      /\ \A j \in Calls : Snapshot(c)'.op[j] = IF journal[j] = None THEN NoOp ELSE OpOf(obj[journal[j]])
      /\ Snapshot(c)'.at = 0
    BY <1>2 DEF Snapshot, RunView, OpView
<1>10. \A job \in Waits' : (job \in Waits /\ job.call # c) \/ job = Snapshot(c)'
    BY <1>3 DEF Goes
<1>11. \A r \in Calls : robj'[r] # NoRun => runs'[robj'[r].id] = r
  <2>1. \A r \in Calls \ {c} : robj[r] # NoRun => robj[r].id \in Calls /\ robj[r].id # i
      BY <1>1, ConstantsAssumption, Shapes DEF SerialInv, RunsInv, IInv
  <2> QED
      BY <1>4, <1>5, <2>1 DEF SerialInv, RunsInv
<1>12. RunsInv'
  <2>1. \A j \in Calls : runs'[j] = None => runs[j] = None /\ j # i
      BY <1>4, ConstantsAssumption
  <2>2. \A j \in Calls : runs'[j] = None =>
          diskRun'[j] = NoRun /\ \A job \in Waits' : job.run[j] = NoRun
      BY <1>4, <1>9, <1>10, <2>1 DEF SerialInv, RunsInv
  <2>3. \A j \in Calls \ {i} : runs'[j] # None =>
          /\ diskRun'[j] # NoRun => diskRun'[j].session = robj'[runs'[j]].session
          /\ \A job \in Waits' : job.run[j] # NoRun => job.run[j].session = robj'[runs'[j]].session
      BY <1>4, <1>7, <1>9, <1>10 DEF SerialInv, RunsInv
  <2>4. diskRun'[i] = NoRun
        /\ \A job \in Waits' : job.run[i] # NoRun => job.run[i].session = robj'[runs'[i]].session
      BY <1>1, <1>4, <1>6, <1>9, <1>10
  <2>5. \A j \in Calls : diskOp'[j] # NoOp => journal'[j] # None
      BY <1>2, <1>4 DEF SerialInv, RunsInv
  <2> QED
      BY <1>11, <2>2, <2>3, <2>4, <2>5 DEF RunsInv
<1>13. AgesInv'
  <2>1. ASSUME NEW j \in Calls, journal[j] # None
        PROVE  Fits(OpOf(obj[journal[j]]), j)
    <3>1. journal[j] \in Calls /\ obj[journal[j]] # NoObj /\ obj[journal[j]].id = j
        BY <2>1 DEF IInv, TypeOK, MemInv, MemOK
    <3> QED
        BY <3>1 DEF SerialInv, AgesInv, Fits, OpOf
  <2>2. \A job \in Waits', j \in Calls : job.op[j] # NoOp => Fits(job.op[j], j)
      BY <1>1, <1>9, <1>10, <2>1 DEF SerialInv, AgesInv
  <2>3. \A job \in Waits' : job.at <= clock
      BY <1>9, <1>10, Shapes DEF SerialInv, AgesInv, IInv
  <2> QED
      BY <1>2, <1>4, <2>2, <2>3 DEF SerialInv, AgesInv, Fits
<1>14. SubmittedInv'
  <2>1. \A o \in Calls : obj[o].state = "submitted" => runs'[obj[o].id] # None
    <3>1. \A o \in Calls : obj[o].state = "submitted" => obj[o].id \in Calls
        BY Shapes DEF NoObj, IInv
    <3> QED
        BY <1>4, <3>1, ConstantsAssumption DEF SerialInv, SubmittedInv
  <2>2. ASSUME NEW job \in Waits', NEW j \in Calls, job.op[j].state = "submitted"
        PROVE  job.run[j] # NoRun
    <3>1. CASE job \in Waits
        BY <2>2, <3>1 DEF SerialInv, SubmittedInv
    <3>2. CASE job = Snapshot(c)'
      <4>0. journal[j] # None /\ OpOf(obj[journal[j]]).state = "submitted"
          BY <1>9, <2>2, <3>2 DEF NoOp
      <4>1. journal[j] \in Calls /\ obj[journal[j]].id = j /\ obj[journal[j]].state = "submitted"
          BY <4>0 DEF OpOf, NoOp, IInv, TypeOK, MemInv, MemOK
      <4>2. runs'[j] # None
          BY <2>1, <4>1
      <4> QED
          BY <1>2, <1>9, <3>2, <4>2 DEF IInv, MemInv, MemOK
    <3> QED
        BY <1>10, <3>1, <3>2
  <2> QED
      BY <1>2, <1>4, <2>1, <2>2 DEF SerialInv, SubmittedInv
<1>15. PromptsInv'
  <2>1. ASSUME NEW m \in Sent
        PROVE  m.op \in Calls /\ m.op # i /\ runs[m.op] # None
    <3>1. m.op \in Calls /\ m.op # i
        BY <1>8, Shapes DEF Prompts, IInv, Request
    <3>2. diskRun[m.op] # NoRun
        BY DEF SerialInv, PromptsInv, OnDisk
    <3> QED
        BY <3>1, <3>2 DEF SerialInv, RunsInv
  <2> QED
      BY <1>2, <1>4, <1>7, <2>1 DEF SerialInv, PromptsInv, OnDisk
<1>16. \A d \in Calls : Starts(d)' => d = c
    BY <1>1, <1>4, OneStart
<1>17. StartsInv' /\ LoadedInv'
    BY <1>1, <1>2, <1>4, <1>5, <1>16 DEF StartsInv, LoadedInv
<1>18. SendOK(c)' /\ LoadedOK(c)'
  <2>1. Prompts(IdOf(c))' = {}
      BY <1>4, <1>8 DEF Prompts
  <2>2. \A job \in Waits' : job.call = c => job.run[i] # NoRun
      BY <1>1, <1>4, <1>5, <1>9, <1>10, ConstantsAssumption
  <2> QED
      BY <1>1, <1>2, <1>4, <2>1, <2>2 DEF SendOK, LoadedOK
<1> QED
    BY <1>12, <1>13, <1>14, <1>15, <1>16, <1>17, <1>18 DEF SerialInv, PhasesInv

\* A replay adopts no run: the memory knows every run that is on disk.
LEMMA ReplaySerial ==
  ASSUME IInv, SerialInv, IInv', NEW c \in Calls, Replay(c)
  PROVE  SerialInv'
<1> DEFINE o == opRef[c]
           i == obj[o].id
           disked == loaded[c].op
           rec == [id |-> i, key |-> disked.key, state |-> disked.state, at |-> disked.at]
           ref == runs[i]
           sent == [[rec EXCEPT !.state = "submitted"] EXCEPT !.at = clock]
<1>1. /\ pc[c] = "loaded" /\ path[c] # "poll" /\ Starts(c) /\ Released(c, queue)
      /\ o \in Calls /\ obj[o] \in OpObj /\ obj[o] # NoObj /\ i \in Calls /\ i = IdOf(c) /\ journal[i] = o
  <2>1. pc[c] = "loaded" /\ pc[c] \notin PollPoints /\ pc[c] \in OpPoints
      BY DEF Replay, PollPoints, OpPoints, Points
  <2>2. path[c] # "poll"
      BY <2>1, NotPolling
  <2>3. Starts(c) /\ o \in Calls /\ obj[o] \in OpObj /\ obj[o] # NoObj /\ i \in Calls /\ i = IdOf(c)
      BY <2>1, <2>2, HoldsOp, Shapes DEF Starts, IdOf, IInv
  <2> QED
      BY <2>1, <2>2, <2>3 DEF SerialInv, StartsInv, Released, Waiting
<1>2. /\ disked # NoOp /\ disked \in Op /\ disked.key = obj[o].key
      /\ disked.state = "prepared" => Prompts(i) = {}
      /\ disked.state # "prepared" => diskOp[i].state # "prepared"
      /\ disked.state = "submitted" => diskRun[i] # NoRun
      /\ loaded[c].run # NoRun => runs[i] # None
      /\ Fits(disked, i)
  <2>1. LoadedOK(c) /\ Fits(disked, i)
      BY <1>1 DEF SerialInv, PhasesInv, LoadedInv
  <2>2. disked # NoOp /\ disked \in Op
      BY <1>1, <2>1 DEF LoadedOK, IInv, TypeOK
  <2>3. disked.key = obj[o].key
      BY <1>1, <2>2 DEF IInv, CallInv, CallOK, MemInv, MemOK
  <2> QED
      BY <1>1, <2>1, <2>2, <2>3 DEF LoadedOK
<1> DEFINE run == IF ref = None THEN NoRun ELSE robj[ref]
           waiting == run.status = "running" /\ run.admission # "accepted" /\ rec.state = "prepared"
           lost == Lost(ref, rec)
<1>3. /\ journal' = [journal EXCEPT ![i] = o] /\ UNCHANGED <<robj, runs, index>>
      /\ runRef' = [runRef EXCEPT ![c] = ref]
      /\ \/ /\ waiting /\ obj' = [obj EXCEPT ![o] = [rec EXCEPT !.state = "submitted", !.at = clock]]
            /\ Await(c, "savingSubmit", queue) /\ UNCHANGED path
         \/ /\ obj' = [obj EXCEPT ![o] = rec]
            /\ Continue(c, "done", queue) /\ UNCHANGED path
         \/ /\ ref # None /\ obj' = [obj EXCEPT ![o] = rec]
            /\ Continue(c, "refresh", queue) /\ UNCHANGED path
         \/ /\ lost /\ obj' = [obj EXCEPT ![o] = rec]
            /\ Continue(c, "setup", queue) /\ path' = [path EXCEPT ![c] = "fresh"]
      /\ UNCHANGED <<disk, opRef, loaded, wire, host, bounds>>
    BY <1>2 DEF Replay
<1>4. journal' = journal
    BY <1>1, <1>3 DEF IInv, TypeOK
<1>5. run.status = "running" => ref \in Calls
    BY <1>1, Shapes DEF NoRun, IInv
<1>6. rec.id = i /\ rec.state = disked.state /\ rec.at = disked.at /\ rec.key = disked.key
    OBVIOUS
<1>7. sent.id = i /\ sent.state = "submitted" /\ sent.at = clock /\ sent.key = disked.key
    OBVIOUS
<1> HIDE DEF rec, sent, run, waiting
<1>8. \E p \in {"savingSubmit", "done", "refresh", "setup"} :
        /\ Await(c, p, queue) \/ Continue(c, p, queue)
        /\ p = "savingSubmit" => obj' = [obj EXCEPT ![o] = sent] /\ ref \in Calls /\ rec.state = "prepared"
        /\ p # "savingSubmit" => obj' = [obj EXCEPT ![o] = rec]
        /\ p \in {"savingSubmit", "refresh"} => ref \in Calls
        /\ p = "setup" => ref = None /\ rec.state = "prepared"
        /\ p # "setup" => path' = path
        /\ \A d \in Calls \ {c} : path'[d] = path[d]
        /\ path'[c] # "poll"
  <2>1. CASE /\ waiting /\ obj' = [obj EXCEPT ![o] = [rec EXCEPT !.state = "submitted", !.at = clock]]
             /\ Await(c, "savingSubmit", queue) /\ UNCHANGED path
      BY <1>1, <1>5, <2>1 DEF waiting, sent
  <2>2. CASE /\ obj' = [obj EXCEPT ![o] = rec]
             /\ Continue(c, "done", queue) /\ UNCHANGED path
      BY <1>1, <2>2
  <2>3. CASE /\ ref # None /\ obj' = [obj EXCEPT ![o] = rec]
             /\ Continue(c, "refresh", queue) /\ UNCHANGED path
      BY <1>1, <2>3, Shapes DEF IInv
  <2>4. CASE /\ lost /\ obj' = [obj EXCEPT ![o] = rec]
             /\ Continue(c, "setup", queue) /\ path' = [path EXCEPT ![c] = "fresh"]
      BY <1>1, <2>4 DEF Lost, IInv, TypeOK
  <2> QED
      BY <1>3, <2>1, <2>2, <2>3, <2>4
<1>9. PICK p \in {"savingSubmit", "done", "refresh", "setup"} :
        /\ Await(c, p, queue) \/ Continue(c, p, queue)
        /\ p = "savingSubmit" => obj' = [obj EXCEPT ![o] = sent] /\ ref \in Calls /\ rec.state = "prepared"
        /\ p # "savingSubmit" => obj' = [obj EXCEPT ![o] = rec]
        /\ p \in {"savingSubmit", "refresh"} => ref \in Calls
        /\ p = "setup" => ref = None /\ rec.state = "prepared"
        /\ p # "setup" => path' = path
        /\ \A d \in Calls \ {c} : path'[d] = path[d]
        /\ path'[c] # "poll"
    BY <1>8
<1>10. Goes(c, p)
    BY <1>1, <1>9, Going
<1>11. /\ pc'[c] = p /\ \A d \in Calls \ {c} : pc'[d] = pc[d] /\ path'[d] = path[d]
       /\ \A job \in Waits' : (job \in Waits /\ job.call # c) \/ job = Snapshot(c)'
       /\ runRef'[c] = ref /\ UNCHANGED <<diskOp, diskRun, clock>> /\ Sent' = Sent
    BY <1>1, <1>3, <1>9, <1>10 DEF Goes, IInv, TypeOK, disk, bounds, Sent
<1>12. /\ \A x \in Calls \ {o} : obj'[x] = obj[x]
       /\ obj'[o].id = i /\ obj'[o].key = obj[o].key
       /\ p = "savingSubmit" => obj'[o].state = "submitted" /\ obj'[o].at = clock /\ disked.state = "prepared"
       /\ p # "savingSubmit" => obj'[o].state = disked.state /\ obj'[o].at = disked.at
       /\ p = "setup" => disked.state = "prepared"
    BY <1>1, <1>2, <1>6, <1>7, <1>9 DEF IInv, TypeOK
<1>13. /\ \A j \in Calls : Snapshot(c)'.run[j] = IF runs[j] = None THEN NoRun ELSE robj[runs[j]]
       /\ \A j \in Calls : Snapshot(c)'.op[j] = IF journal[j] = None THEN NoOp ELSE OpOf(obj'[journal[j]])
       /\ Snapshot(c)'.at = 0
    BY <1>3, <1>4 DEF Snapshot, RunView, OpView
<1>14. RunsInv'
    BY <1>3, <1>4, <1>11, <1>13 DEF SerialInv, RunsInv
<1>15. \A x \in Calls : obj'[x] # NoObj => Fits(obj'[x], obj'[x].id)
  <2>1. clock \in Nat /\ clock <= clock /\ diskOp[i].at <= clock
      BY <1>1, Shapes DEF IInv, SerialInv, AgesInv
  <2>2. Fits(obj'[o], i)
      BY <1>2, <1>12, <2>1 DEF Fits
  <2> QED
      BY <1>12, <2>2 DEF SerialInv, AgesInv
<1>16. AgesInv'
  <2>1. ASSUME NEW j \in Calls, journal[j] # None
        PROVE  Fits(OpOf(obj'[journal[j]]), j)
    <3>1. journal'[j] \in Calls /\ obj'[journal'[j]] # NoObj /\ obj'[journal'[j]].id = j
        BY <1>4, <2>1 DEF IInv, TypeOK, MemInv, MemOK
    <3> QED
        BY <1>4, <1>15, <3>1 DEF Fits, OpOf
  <2>2. \A job \in Waits', j \in Calls : job.op[j] # NoOp => Fits(job.op[j], j)
      BY <1>11, <1>13, <2>1 DEF SerialInv, AgesInv
  <2>3. \A job \in Waits' : job.at <= clock
      BY <1>11, <1>13, Shapes DEF SerialInv, AgesInv, IInv
  <2> QED
      BY <1>11, <1>15, <2>2, <2>3 DEF SerialInv, AgesInv, Fits
<1>17. SubmittedInv'
  <2>1. \A x \in Calls : obj'[x].state = "submitted" => runs[obj'[x].id] # None
    <3>1. obj'[o].state = "submitted" => runs[i] # None
        BY <1>1, <1>2, <1>9, <1>12, ConstantsAssumption DEF SerialInv, RunsInv
    <3> QED
        BY <1>12, <3>1 DEF SerialInv, SubmittedInv
  <2>2. ASSUME NEW job \in Waits', NEW j \in Calls, job.op[j].state = "submitted"
        PROVE  job.run[j] # NoRun
    <3>1. CASE job \in Waits
        BY <2>2, <3>1 DEF SerialInv, SubmittedInv
    <3>2. CASE job = Snapshot(c)'
      <4>0. journal'[j] # None /\ OpOf(obj'[journal'[j]]).state = "submitted"
          BY <1>4, <1>13, <2>2, <3>2 DEF NoOp
      <4>1. journal'[j] \in Calls /\ obj'[journal'[j]].id = j /\ obj'[journal'[j]].state = "submitted"
          BY <4>0 DEF OpOf, NoOp, IInv, TypeOK, MemInv, MemOK
      <4>2. runs[j] # None
          BY <2>1, <4>1
      <4> QED
          BY <1>13, <3>2, <4>2 DEF IInv, MemInv, MemOK
    <3> QED
        BY <1>11, <3>1, <3>2
  <2> QED
      BY <1>3, <1>11, <2>1, <2>2 DEF SerialInv, SubmittedInv
<1>18. PromptsInv'
  <2>1. ASSUME NEW m \in Sent
        PROVE  obj'[journal[m.op]].state # "prepared"
    <3>1. m.op \in Calls /\ diskOp[m.op] # NoOp /\ obj[journal[m.op]].state # "prepared"
        BY Shapes DEF Request, IInv, DiskInv, SerialInv, PromptsInv
    <3>2. journal[m.op] \in Calls /\ obj[journal[m.op]].id = m.op
        BY <3>1 DEF SerialInv, RunsInv, IInv, TypeOK, MemInv, MemOK
    <3>3. m.op = i => disked.state # "prepared"
        BY <1>2 DEF Prompts
    <3> QED
        BY <1>12, <3>1, <3>2, <3>3
  <2> QED
      BY <1>3, <1>4, <1>11, <2>1 DEF SerialInv, PromptsInv, OnDisk
<1>19. \A d \in Calls : Starts(d)' => d = c
    BY <1>1, <1>11, OneStart
<1>20. IdOf(c)' = i /\ opRef'[c] = o
    BY <1>3, <1>12 DEF IdOf
<1>21. StartsInv' /\ LoadedInv'
  <2>1. p \in RunPoints => ref \in Calls /\ robj[ref].id = i
      BY <1>1, <1>9, ConstantsAssumption DEF RunPoints, IInv, MemInv, MemOK
  <2> QED
      BY <1>1, <1>3, <1>4, <1>9, <1>11, <1>19, <1>20, <2>1 DEF StartsInv, LoadedInv
<1>22. SendOK(c)' /\ LoadedOK(c)'
  <2>1. CASE p = "setup"
      BY <1>3, <1>9, <1>11, <1>12, <1>20, <2>1 DEF SendOK, LoadedOK
  <2>2. CASE p = "savingSubmit"
    <3>1. \A job \in Waits' : job.call = c => job = Snapshot(c)'
        BY <1>11
    <3>2. Snapshot(c)'.run[i] # NoRun
        BY <1>1, <1>9, <1>13, <2>2, ConstantsAssumption DEF IInv, MemInv, MemOK
    <3>3. Snapshot(c)'.op[i] = OpOf(obj'[o]) /\ OpOf(obj'[o]).state = "submitted" /\ NoOp.state # "submitted"
        BY <1>1, <1>12, <1>13, <2>2, ConstantsAssumption DEF OpOf, NoOp, NoObj
    <3> QED
        BY <1>11, <1>12, <1>20, <2>2, <3>1, <3>2, <3>3 DEF SendOK, LoadedOK
  <2>3. CASE p = "refresh"
    <3>1. obj'[o].state = "submitted" => OnDisk(i)
        BY <1>2, <1>12, <2>3 DEF OnDisk
    <3>2. OnDisk(IdOf(c))' <=> OnDisk(i)
        BY <1>11, <1>20 DEF OnDisk
    <3> QED
        BY <1>11, <1>20, <2>3, <3>1, <3>2 DEF SendOK, LoadedOK
  <2>4. CASE p = "done"
      BY <1>11, <2>4 DEF SendOK, LoadedOK
  <2> QED
      BY <1>9, <2>1, <2>2, <2>3, <2>4
<1> QED
    BY <1>14, <1>16, <1>17, <1>18, <1>19, <1>21, <1>22 DEF SerialInv, PhasesInv

\* The first claim of a key: nothing is known of its operation yet.
LEMMA ClaimCreatesSerial ==
  ASSUME IInv, SerialInv, IInv', NEW c \in Calls, ClaimCreates(c)
  PROVE  SerialInv'
<1> DEFINE job == Head(queue)
           record == [key |-> job.key, state |-> "prepared", at |-> job.at]
           object == [id |-> c, key |-> job.key, state |-> "prepared", at |-> job.at]
<1>1. /\ pc[c] = "claiming" /\ obj[c] = NoObj /\ diskOp[c] = NoOp /\ path[c] = "fresh"
      /\ job \in Waits /\ job \in Job /\ queue # <<>> /\ job.at \in Nat /\ job.at <= clock
  <2>1. pc[c] = "claiming" /\ queue # <<>> /\ job \in Waits /\ job \in Job
      BY TakenFromQueue, WritesWait DEF ClaimCreates, Writes
  <2>2. job.at \in Nat /\ job.at <= clock
      BY <2>1, ConstantsAssumption DEF Job, SerialInv, AgesInv
  <2> QED
      BY <2>1, <2>2 DEF IInv, CallInv, CallOK
<1>2. /\ diskOp' = [diskOp EXCEPT ![c] = record] /\ obj' = [obj EXCEPT ![c] = object]
      /\ journal' = [journal EXCEPT ![c] = c] /\ opRef' = [opRef EXCEPT ![c] = c]
      /\ pc' = [pc EXCEPT ![c] = "setup"] /\ queue' = Tail(queue)
      /\ UNCHANGED <<diskRun, robj, runs, path, runRef, loaded, wire, host, clock>>
    BY DEF ClaimCreates, Continue, Goto, bounds
<1>3. /\ record.at = job.at /\ record.state = "prepared"
      /\ object.at = job.at /\ object.state = "prepared" /\ object.id = c
    OBVIOUS
<1> HIDE DEF record, object
<1>4. /\ diskOp'[c] = record /\ obj'[c] = object /\ journal'[c] = c /\ opRef'[c] = c /\ pc'[c] = "setup"
      /\ \A d \in Calls \ {c} : /\ diskOp'[d] = diskOp[d] /\ obj'[d] = obj[d]
                                /\ journal'[d] = journal[d] /\ pc'[d] = pc[d]
      /\ Sent' = Sent
    BY <1>2 DEF IInv, TypeOK, Sent
<1>5. Waits' \subseteq Waits
    BY <1>1, <1>2, ElementsTail DEF Waits, IInv, QueueInv, QueueOK
<1>6. /\ \A x \in Calls : obj[x] # NoObj => x # c /\ obj[x].id \in Calls \ {c}
      /\ \A i \in Calls : journal[i] # None => i # c /\ journal[i] \in Calls \ {c}
      /\ \A w \in Waits, i \in Calls : w.op[i] # NoOp => i # c
  <2>1. \A x \in Calls : obj[x] # NoObj => x # c /\ obj[x].id \in Calls \ {c}
      BY <1>1, Shapes DEF IInv, MemInv, MemOK
  <2>2. ASSUME NEW i \in Calls, journal[i] # None
        PROVE  i # c /\ journal[i] \in Calls \ {c}
    <3>1. journal[i] \in Calls
        BY <2>2 DEF IInv, TypeOK
    <3>2. obj[journal[i]] # NoObj /\ obj[journal[i]].id = i
        BY <2>2 DEF IInv, MemInv, MemOK
    <3> QED
        BY <2>1, <3>1, <3>2
  <2> QED
      BY <1>1, <2>1, <2>2, WaitsTyped DEF Agrees
<1>7. runs[c] = None
  <2>1. SUFFICES ASSUME runs[c] # None PROVE FALSE
      OBVIOUS
  <2>2. runs[c] \in Calls
      BY <2>1 DEF IInv, TypeOK
  <2>3. robj[runs[c]] # NoRun /\ robj[runs[c]].id = c
      BY <2>1 DEF IInv, MemInv, MemOK
  <2>4. journal[c] # None
      BY <2>2, <2>3 DEF IInv, MemInv, MemOK
  <2> QED
      BY <1>6, <2>4
<1>8. \A m \in Sent : m.op \in Calls \ {c} /\ journal[m.op] \in Calls \ {c}
  <2>1. \A m \in Sent : m.op \in Calls /\ diskOp[m.op] # NoOp
      BY Shapes DEF Request, IInv, DiskInv
  <2> QED
      BY <1>1, <1>6, <2>1 DEF SerialInv, RunsInv
<1>9. RunsInv'
    BY <1>2, <1>4, <1>5, <1>1, ConstantsAssumption DEF SerialInv, RunsInv
<1>10. AgesInv'
  <2>1. \A i \in Calls : diskOp'[i].at <= clock
      BY <1>1, <1>3, <1>4 DEF SerialInv, AgesInv
  <2>2. obj'[c].id = c /\ obj'[c].at = diskOp'[c].at /\ obj'[c].at <= clock
        /\ obj'[c].state = "prepared" /\ diskOp'[c].at \in Nat
      BY <1>1, <1>3, <1>4
  <2>5. ASSUME NEW x \in Calls \ {c}, obj'[x] # NoObj
        PROVE  /\ obj'[x] = obj[x] /\ obj[x].id \in Calls \ {c} /\ Fits(obj[x], obj[x].id)
               /\ diskOp'[obj[x].id] = diskOp[obj[x].id]
      BY <1>4, <1>6, <2>5 DEF SerialInv, AgesInv
  <2>6. ASSUME NEW x \in Calls, obj'[x] # NoObj
        PROVE  /\ obj'[x].at <= clock
               /\ obj'[x].state = "prepared" => obj'[x].at <= diskOp'[obj'[x].id].at
               /\ obj'[x].state # "prepared" /\ diskOp'[obj'[x].id].state = "prepared"
                  => obj'[x].at >= diskOp'[obj'[x].id].at
    <3>2. CASE x = c
        BY <2>2, <3>2
    <3>3. CASE x # c
        BY <2>5, <2>6, <3>3 DEF Fits
    <3> QED
        BY <3>2, <3>3
  <2>3. \A w \in Waits', i \in Calls : w.op[i] # NoOp => Fits(w.op[i], i) /\ i # c
      BY <1>5, <1>6 DEF SerialInv, AgesInv
  <2>4. \A w \in Waits' : w.at <= clock
      BY <1>5 DEF SerialInv, AgesInv
  <2> QED
    <3>1. clock' = clock /\ \A i \in Calls \ {c} : diskOp'[i] = diskOp[i]
        BY <1>2, <1>4
    <3>2. \A w \in Waits', i \in Calls : w.op[i] # NoOp =>
            /\ w.op[i].at <= clock'
            /\ w.op[i].state = "prepared" => w.op[i].at <= diskOp'[i].at
            /\ w.op[i].state # "prepared" /\ diskOp'[i].state = "prepared" => w.op[i].at >= diskOp'[i].at
        BY <2>3, <3>1 DEF Fits
    <3> QED
        BY <2>1, <2>4, <2>6, <3>1, <3>2 DEF AgesInv, Fits
<1>11. SubmittedInv'
    BY <1>2, <1>3, <1>4, <1>5 DEF SerialInv, SubmittedInv
<1>12. PromptsInv'
    BY <1>2, <1>4, <1>8 DEF SerialInv, PromptsInv, OnDisk
<1>13. \A d \in Calls : Starts(d)' => d = c
    BY <1>1, <1>2, <1>4, OneStart DEF Starts
<1>14. IdOf(c)' = c
    BY <1>3, <1>4 DEF IdOf
<1>15. StartsInv' /\ LoadedInv'
    BY <1>4, <1>13, <1>14 DEF StartsInv, LoadedInv, RunPoints
<1>16. SendOK(c)' /\ LoadedOK(c)'
    BY <1>2, <1>3, <1>4, <1>7, <1>14 DEF SendOK, LoadedOK
<1> QED
    BY <1>9, <1>10, <1>11, <1>12, <1>13, <1>15, <1>16 DEF SerialInv, PhasesInv

\* A later claim of a key holds a copy of what is on disk.
LEMMA ClaimFindsSerial ==
  ASSUME IInv, SerialInv, IInv', NEW c \in Calls, NEW i \in Calls, ClaimFinds(c, i)
  PROVE  SerialInv'
<1> DEFINE job == Head(queue)
           copy == [id |-> i, key |-> diskOp[i].key, state |-> diskOp[i].state, at |-> diskOp[i].at]
<1>1. /\ pc[c] = "claiming" /\ obj[c] = NoObj /\ path[c] = "fresh" /\ diskOp[i] # NoOp
      /\ job \in Waits /\ job \in Job /\ queue # <<>>
  <2>1. pc[c] = "claiming" /\ queue # <<>> /\ job \in Waits /\ job \in Job /\ job.key \in Keys
      BY TakenFromQueue, WritesWait DEF ClaimFinds, Writes
  <2>2. diskOp[i] # NoOp
      BY <2>1, ConstantsAssumption DEF ClaimFinds, Claimed, NoOp
  <2> QED
      BY <2>1, <2>2 DEF IInv, CallInv, CallOK
<1>2. /\ obj' = [obj EXCEPT ![c] = copy]
      /\ journal' = [journal EXCEPT ![i] = c] /\ opRef' = [opRef EXCEPT ![c] = c]
      /\ path' = [path EXCEPT ![c] = "replay"]
      /\ pc' = [pc EXCEPT ![c] = "loading"] /\ queue' = Tail(queue)
      /\ UNCHANGED <<diskOp, diskRun, robj, runs, runRef, loaded, wire, host, clock>>
    BY DEF ClaimFinds, Continue, Goto, bounds, disk
<1>3. copy.at = diskOp[i].at /\ copy.state = diskOp[i].state /\ copy.id = i
    OBVIOUS
<1> HIDE DEF copy
<1>4. /\ obj'[c] = copy /\ journal'[i] = c /\ opRef'[c] = c /\ pc'[c] = "loading" /\ path'[c] = "replay"
      /\ \A d \in Calls \ {c} : obj'[d] = obj[d] /\ pc'[d] = pc[d] /\ path'[d] = path[d]
      /\ \A d \in Calls \ {i} : journal'[d] = journal[d]
      /\ Sent' = Sent
    BY <1>2 DEF IInv, TypeOK, Sent
<1>5. Waits' \subseteq Waits
    BY <1>1, <1>2, ElementsTail DEF Waits, IInv, QueueInv, QueueOK
<1>6. \A j \in Calls : journal[j] # None => journal[j] \in Calls \ {c}
    BY <1>1 DEF IInv, TypeOK, MemInv, MemOK
<1>7. \A m \in Sent : m.op \in Calls /\ journal[m.op] \in Calls \ {c}
  <2>1. \A m \in Sent : m.op \in Calls /\ diskOp[m.op] # NoOp
      BY Shapes DEF Request, IInv, DiskInv
  <2> QED
      BY <1>6, <2>1 DEF SerialInv, RunsInv
<1>8. RunsInv'
    BY <1>2, <1>4, <1>5, ConstantsAssumption DEF SerialInv, RunsInv
<1>9. AgesInv'
  <2>1. diskOp[i].at \in Nat /\ Fits(copy, i)
      BY <1>3, Shapes DEF SerialInv, AgesInv, Fits, IInv
  <2>2. \A x \in Calls : obj'[x] # NoObj => Fits(obj'[x], obj'[x].id)
      BY <1>3, <1>4, <2>1 DEF SerialInv, AgesInv
  <2> QED
      BY <1>2, <1>5, <2>2 DEF SerialInv, AgesInv, Fits
<1>10. SubmittedInv'
  <2>1. copy.state = "submitted" => runs[i] # None
      BY <1>3 DEF SerialInv, SubmittedInv, RunsInv
  <2>2. \A x \in Calls : obj'[x].state = "submitted" => runs[obj'[x].id] # None
      BY <1>3, <1>4, <2>1 DEF SerialInv, SubmittedInv
  <2> QED
      BY <1>2, <1>5, <2>2 DEF SerialInv, SubmittedInv
<1>11. PromptsInv'
  <2>1. ASSUME NEW m \in Sent PROVE obj'[journal'[m.op]].state # "prepared"
    <3>1. CASE m.op = i
        BY <1>3, <1>4, <3>1 DEF SerialInv, PromptsInv, OnDisk
    <3>2. CASE m.op # i
        BY <1>4, <1>7, <3>2 DEF SerialInv, PromptsInv
    <3> QED
        BY <3>1, <3>2
  <2> QED
      BY <1>2, <1>4, <2>1 DEF SerialInv, PromptsInv, OnDisk
<1>12. \A d \in Calls : Starts(d)' => d = c
    BY <1>1, <1>4, OneStart DEF Starts
<1>13. IdOf(c)' = i
    BY <1>3, <1>4 DEF IdOf
<1>14. StartsInv' /\ LoadedInv'
    BY <1>4, <1>12, <1>13 DEF StartsInv, LoadedInv, RunPoints
<1>15. SendOK(c)' /\ LoadedOK(c)'
    BY <1>4 DEF SendOK, LoadedOK
<1> QED
    BY <1>8, <1>9, <1>10, <1>11, <1>12, <1>14, <1>15 DEF SerialInv, PhasesInv

\* After a crash the memory is what was on disk, and no call is under way.
LEMMA CrashSerial ==
  ASSUME IInv, SerialInv, IInv', Crash
  PROVE  SerialInv'
<1> DEFINE Restored(i) == [id |-> i, key |-> diskOp[i].key, state |-> diskOp[i].state, at |-> diskOp[i].at]
<1>1. /\ obj' = [i \in Calls |-> IF diskOp[i] = NoOp THEN NoObj ELSE Restored(i)]
      /\ journal' = [i \in Calls |-> IF diskOp[i] = NoOp THEN None ELSE i]
      /\ robj' = diskRun
      /\ runs' = [i \in Calls |-> IF diskRun[i] = NoRun THEN None ELSE i]
      /\ queue' = <<>>
      /\ pc' = [c \in Calls |-> IF pc[c] = "idle" THEN "idle" ELSE "done"]
      /\ UNCHANGED <<diskOp, diskRun, path, wire, host, clock>>
    BY DEF Crash, disk
<1>2. \A i \in Calls : Restored(i).id = i /\ Restored(i).state = diskOp[i].state /\ Restored(i).at = diskOp[i].at
    OBVIOUS
<1> HIDE DEF Restored
<1>3. Waits' = {} /\ Sent' = Sent /\ \A d \in Calls : ~Starts(d)'
    BY <1>1 DEF Waits, Elements, Sent, Starts
<1>4. \A i \in Calls : /\ diskOp[i] = NoOp => obj'[i] = NoObj /\ journal'[i] = None
                       /\ diskOp[i] # NoOp => obj'[i] = Restored(i) /\ journal'[i] = i
                       /\ diskRun[i] = NoRun => runs'[i] = None
                       /\ diskRun[i] # NoRun => runs'[i] = i /\ diskRun[i].id = i
    BY <1>1 DEF IInv, DiskInv
<1>5. RunsInv'
    BY <1>1, <1>3, <1>4, ConstantsAssumption DEF RunsInv
<1>6. AgesInv'
  <2>1. \A i \in Calls : diskOp[i].at \in Nat /\ diskOp[i].at <= clock
      BY Shapes DEF IInv, SerialInv, AgesInv
  <2>2. \A x \in Calls : obj'[x] # NoObj =>
          obj'[x].id = x /\ obj'[x].state = diskOp[x].state /\ obj'[x].at = diskOp[x].at
      BY <1>2, <1>4
  <2> QED
      BY <1>1, <1>3, <2>1, <2>2 DEF AgesInv, Fits
<1>7. SubmittedInv'
  <2>1. \A x \in Calls : obj'[x].state = "submitted" => diskOp[x].state = "submitted" /\ obj'[x].id = x
      BY <1>2, <1>4 DEF NoObj
  <2>2. \A x \in Calls : obj'[x].state = "submitted" => runs'[obj'[x].id] # None
      BY <1>4, <2>1, ConstantsAssumption DEF SerialInv, SubmittedInv
  <2> QED
      BY <1>1, <1>3, <2>2 DEF SerialInv, SubmittedInv
<1>8. PromptsInv'
  <2>1. ASSUME NEW m \in Sent
        PROVE  /\ m.op \in Calls /\ OnDisk(m.op) /\ diskOp[m.op] # NoOp
               /\ diskRun[m.op].session = m.session /\ runs'[m.op] = m.op
    <3>1. m.op \in Calls /\ diskOp[m.op] # NoOp /\ OnDisk(m.op)
        BY Shapes DEF Request, IInv, DiskInv, SerialInv, PromptsInv
    <3>2. diskRun[m.op] # NoRun /\ runs[m.op] # None
        BY <3>1 DEF OnDisk, SerialInv, RunsInv
    <3> QED
        BY <1>4, <3>1, <3>2 DEF SerialInv, RunsInv, PromptsInv
  <2>2. ASSUME NEW m \in Sent
        PROVE  obj'[journal'[m.op]].state # "prepared"
      BY <1>2, <1>4, <2>1 DEF OnDisk
  <2> QED
      BY <1>1, <1>3, <2>1, <2>2 DEF PromptsInv, OnDisk
<1> QED
    BY <1>3, <1>5, <1>6, <1>7, <1>8 DEF SerialInv, StartsInv, LoadedInv, PhasesInv

-----------------------------------------------------------------------------
(* The theorems about starts that follow one another.                      *)

LEMMA SerialInitially ==
  ASSUME Init
  PROVE  SerialInv
<1>1. Len(<<>>) = 0 /\ clock = 0
    BY DEF Init
<1>2. Waits = {} /\ Sent = {} /\ \A c \in Calls : ~Starts(c)
    BY <1>1 DEF Init, Waits, Elements, Sent, Starts
<1>3. RunsInv
    BY <1>2 DEF Init, RunsInv
<1>4. AgesInv
    BY <1>1, <1>2 DEF Init, AgesInv, NoOp
<1>5. SubmittedInv
    BY <1>2 DEF Init, SubmittedInv, NoOp, NoObj
<1> QED
    BY <1>2, <1>3, <1>4, <1>5 DEF SerialInv, StartsInv, LoadedInv, PromptsInv, PhasesInv

LEMMA SerialInductive ==
  ASSUME ~Overlap, IInv, SerialInv, [Next]_vars
  PROVE  IInv' /\ SerialInv'
<1>1. IInv'
    BY Inductive
<1>2. ASSUME NEW c \in Calls, StartRun(c) PROVE SerialInv'
    BY <1>1, <1>2, CallClaimsSerial, CallReplaysSerial, LoadSerial, ReplaySerial, ClaimCreatesSerial,
       ClaimFindsSerial, SetUpSerial, RefreshFailsSerial, SetUpFailsSerial, DispatchSerial,
       AnsweredSerial DEF StartRun
<1>3. ASSUME NEW c \in Calls, Refresh(c) PROVE SerialInv'
    BY <1>1, <1>3, CallPollsSerial, RefreshConcludedSerial, RefreshFailsSerial, RefreshFindsSerial,
       RefreshMissesSerial DEF Refresh
<1>4. ASSUME NEW c \in Calls, SaveDone(c) \/ WriteFails(c) PROVE SerialInv'
    BY <1>1, <1>4, SaveDoneSerial, WriteFailsSerial
<1>5. ASSUME NEW m \in wire, HostPersists(m) \/ HostLoses(m) PROVE SerialInv'
    BY <1>5, HostSerial
<1>6. CASE Crash \/ Tick \/ UNCHANGED vars
    BY <1>1, <1>6, CrashSerial, TickSerial
<1> QED
    BY <1>1, <1>2, <1>3, <1>4, <1>5, <1>6 DEF Next

\* The case that starts follow one another is a case of its own for good.
CasesInv == case = "serial" => IInv /\ SerialInv

LEMMA CasesInitially == CasesInit => CasesInv
BY Initially, SerialInitially DEF CasesInit, CasesInv

LEMMA CasesInductive ==
  ASSUME ~Overlap
  PROVE  CasesInv /\ [CasesNext]_<<vars, case>> => CasesInv'
<1> SUFFICES ASSUME CasesInv, [CasesNext]_<<vars, case>>, case' = "serial" PROVE IInv' /\ SerialInv'
    BY DEF CasesInv
<1>1. case = "serial" /\ [Next]_vars
    BY DEF CasesNext
<1> QED
    BY <1>1, SerialInductive DEF CasesInv

LEMMA KnownPrompts == ASSUME IInv, SerialInv PROVE RunBeforePrompt /\ JournalBeforePrompt /\ RunNamesSession
<1>1. ASSUME NEW m \in Sent
      PROVE  diskRun[m.op] # NoRun /\ diskOp[m.op].state # "prepared" /\ diskRun[m.op].session = m.session
  <2>1. m.op \in Calls /\ OnDisk(m.op) /\ m.session = robj[runs[m.op]].session
      BY Shapes DEF Request, IInv, SerialInv, PromptsInv
  <2>2. runs[m.op] # None
      BY <2>1 DEF OnDisk, SerialInv, RunsInv
  <2> QED
      BY <2>1, <2>2 DEF OnDisk, SerialInv, RunsInv
<1> QED
    BY <1>1 DEF RunBeforePrompt, JournalBeforePrompt, RunNamesSession

LEMMA SettleablePrompts == ASSUME IInv, SerialInv PROVE SettleableFromHistory
<1>1. SUFFICES ASSUME NEW i \in Calls, runs[i] # None, InHistory(robj[runs[i]])
               PROVE  obj[journal[i]].state # "prepared"
    BY DEF SettleableFromHistory
<1>2. PICK m \in host : m.op = robj[runs[i]].id
    BY <1>1 DEF InHistory
<1>3. m \in Sent /\ m.op = i
    BY <1>1, <1>2 DEF Sent, IInv, MemInv, MemOK
<1> QED
    BY <1>3 DEF SerialInv, PromptsInv

\* When starts follow one another, with polls at any time, whatever the Host was
\* sent is known on disk: its run, that its operation was submitted, and the
\* session it is in; and a poll that finds it can settle it, for its operation in
\* memory is no longer prepared; for any number of calls, crashes and failed writes
\* (startRun, PromptAdmissionController.submit, RunReconciler.refresh, the merge of
\* RelayStateStore.save).
THEOREM PromptsAreKnown == ASSUME ~Overlap PROVE CasesSpec => []PromptIsKnown
<1>1. CasesInv => PromptIsKnown
    BY KnownPrompts, SettleablePrompts DEF CasesInv, PromptIsKnown
<1> QED
    BY <1>1, CasesInitially, CasesInductive, PTL DEF CasesSpec

-----------------------------------------------------------------------------
(* The write path implements a start that happens once.                    *)

\* A save binds runs to sessions: every version of a run that a write may meet
\* names the session of its object.
LEMMA SaveBinds ==
  ASSUME IInv, SerialInv, NEW job \in Waits, Merge(job), UNCHANGED <<wire, host>>,
         case = "serial", case' = "serial"
  PROVE  Once!Bind
<1>1. Agrees(job, diskOp) /\ job \in Job
    BY WaitsTyped
<1>2. FileKept
    BY <1>1, MergeKeeps DEF IInv
<1>3. ASSUME NEW i \in Calls
      PROVE  /\ diskOp'[i].key = diskOp[i].key
             /\ diskRun'[i].session \in Calls \cup {None}
             /\ diskRun'[i].session # diskRun[i].session => diskRun[i].session = None /\ diskOp[i].key # None
  <2>1. diskOp'[i].key = diskOp[i].key
      BY <1>2 DEF FileKept
  <2>2. /\ diskRun[i] \in Run \cup {NoRun} /\ job.run[i] \in Run \cup {NoRun}
        /\ diskRun'[i] \in {diskRun[i], job.run[i]}
        /\ diskRun[i] # NoRun => diskRun'[i] # NoRun
      BY WaitsTyped, MergedRun DEF IInv, TypeOK
  <2>3. NoRun.session = None /\ \A r \in Run : r.session \in Calls /\ r.session # None
      BY ConstantsAssumption DEF NoRun, Run
  <2>4. diskOp[i] # NoOp => diskOp[i].key # None
      BY ConstantsAssumption DEF IInv, TypeOK, Op, NoOp
  <2>5. diskRun[i] # NoRun /\ job.run[i] # NoRun => diskRun[i].session = job.run[i].session
      BY DEF SerialInv, RunsInv
  <2>6. job.run[i] # NoRun => diskOp[i] # NoOp
      BY <1>1 DEF Agrees
  <2>7. CASE diskRun'[i] = diskRun[i]
      BY <2>1, <2>2, <2>3, <2>7
  <2>8. CASE diskRun'[i] = job.run[i] /\ job.run[i] # NoRun
    <3>1. diskRun[i] = NoRun \/ diskRun[i].session = diskRun'[i].session
        BY <2>5, <2>8
    <3> QED
        BY <2>1, <2>2, <2>3, <2>4, <2>6, <2>8, <3>1
  <2>9. CASE diskRun'[i] = job.run[i] /\ job.run[i] = NoRun
      BY <2>1, <2>2, <2>3, <2>9
  <2> QED
      BY <2>2, <2>7, <2>8, <2>9
<1> QED
    BY <1>3 DEF Once!Bind

\* What is sent is the prompt of an operation in the session the file names.
LEMMA DispatchAsks ==
  ASSUME IInv, SerialInv, NEW c \in Calls, Dispatch(c), case = "serial", case' = "serial"
  PROVE  \E i \in Calls : Once!Ask(i)
<1> DEFINE i == IdOf(c)
           r == runRef[c]
<1>1. pc[c] = "dispatch" /\ path[c] # "poll" /\ pc[c] \in RunPoints /\ pc[c] \in OpPoints
    BY DEF Dispatch, IInv, CallInv, CallOK, RunPoints, OpPoints, Points
<1>2. Starts(c) /\ SendOK(c)
    BY <1>1 DEF Starts, SerialInv, PhasesInv
<1>3. OnDisk(i) /\ i \in Calls /\ r \in Calls /\ robj[r] # NoRun /\ robj[r].id = i /\ runs[i] = r
    BY <1>1, <1>2, HoldsItsRun DEF SendOK, SerialInv
<1>4. diskRun[i] # NoRun /\ diskRun[i].session = robj[r].session
    BY <1>3, ConstantsAssumption DEF OnDisk, SerialInv, RunsInv
<1>5. diskRun[i].session # None
    BY <1>3, <1>4, ConstantsAssumption DEF IInv, TypeOK, Run
<1>6. wire' = wire \cup {RequestOf(c)} /\ RequestOf(c) = [call |-> c, op |-> i, session |-> diskRun[i].session]
    BY <1>4 DEF Dispatch, RequestOf, IdOf
<1>7. SentPrompts(wire') = SentPrompts(wire) \cup {[op |-> i, session |-> diskRun[i].session]}
    BY <1>6 DEF SentPrompts
<1>8. UNCHANGED <<disk, host>>
    BY DEF Dispatch
<1> QED
    BY <1>3, <1>5, <1>7, <1>8 DEF Once!Ask, Once!Prompt, disk

\* One copy of a prompt leaves the wire; another may stay.
LEMMA SentLess ==
  ASSUME NEW m \in wire
  PROVE  SentPrompts(wire \ {m}) \in {SentPrompts(wire), SentPrompts(wire) \ {[op |-> m.op, session |-> m.session]}}
<1> DEFINE r == [op |-> m.op, session |-> m.session]
<1>1. CASE \E n \in wire \ {m} : [op |-> n.op, session |-> n.session] = r
    BY <1>1 DEF SentPrompts
<1>2. CASE \A n \in wire \ {m} : [op |-> n.op, session |-> n.session] # r
    BY <1>2 DEF SentPrompts
<1> QED
    BY <1>1, <1>2

LEMMA HostTakes ==
  ASSUME NEW m \in wire, wire' = wire \ {m}, UNCHANGED disk, host' \in {host, host \cup {m}},
         case = "serial", case' = "serial"
  PROVE  [Once!Next]_(Once!vars)
<1> DEFINE r == [op |-> m.op, session |-> m.session]
<1>1. r \in SentPrompts(wire)
    BY DEF SentPrompts
<1>2. SentPrompts(wire') \in {SentPrompts(wire), SentPrompts(wire) \ {r}}
    BY SentLess
<1>3. CASE host' = host \cup {m}
  <2>1. SentPrompts(host') = SentPrompts(host) \cup {r}
      BY <1>3 DEF SentPrompts
  <2>2. Once!Take(r)
      BY <1>1, <1>2, <2>1 DEF Once!Take, disk
  <2> QED
      BY <1>1, <2>2 DEF Once!Next
<1>4. CASE host' = host
  <2>1. CASE SentPrompts(wire') = SentPrompts(wire)
      BY <1>4, <2>1 DEF Once!vars, disk
  <2>2. CASE SentPrompts(wire') = SentPrompts(wire) \ {r}
    <3>1. Once!Lose(r)
        BY <1>1, <1>4, <2>2 DEF Once!Lose, disk
    <3> QED
        BY <1>1, <3>1 DEF Once!Next
  <2> QED
      BY <1>2, <2>1, <2>2
<1> QED
    BY <1>3, <1>4

LEMMA ClaimClaims ==
  ASSUME IInv, NEW c \in Calls, ClaimCreates(c), case = "serial", case' = "serial"
  PROVE  \E i \in Calls, k \in Keys : Once!Claim(i, k)
<1>0. pc[c] = "claiming" /\ Head(queue).key \in Keys
    BY TakenFromQueue DEF ClaimCreates, Writes, Awaited
<1>1. PICK k \in Keys : k = Head(queue).key
    BY <1>0
<1>2. diskOp[c] = NoOp
    BY <1>0 DEF IInv, CallInv, CallOK
<1>3. \A j \in Calls : diskOp[j].key # k
    BY <1>1 DEF ClaimCreates, Claimed
<1>4. \A j \in Calls : diskOp'[j].key = IF j = c THEN k ELSE diskOp[j].key
    BY <1>1 DEF ClaimCreates, IInv, TypeOK
<1>5. UNCHANGED <<diskRun, wire, host>>
    BY DEF ClaimCreates
<1>6. [j \in Calls |-> diskOp'[j].key] = [[j \in Calls |-> diskOp[j].key] EXCEPT ![c] = k]
    BY <1>4
<1>7. diskOp[c].key = None
    BY <1>2 DEF NoOp
<1>8. Once!Claim(c, k)
    BY <1>3, <1>5, <1>6, <1>7 DEF Once!Claim
<1> QED
    BY <1>8

LEMMA StepsOnce ==
  ASSUME IInv, SerialInv, [Next]_vars, case = "serial", case' = "serial"
  PROVE  [Once!Next]_(Once!vars)
<1>1. ASSUME UNCHANGED <<disk, wire, host>> PROVE UNCHANGED Once!vars
    BY <1>1 DEF Once!vars, disk
<1>2. ASSUME NEW c \in Calls, StartRun(c) PROVE [Once!Next]_(Once!vars)
  <2>1. CASE ClaimCreates(c)
      BY <2>1, ClaimClaims DEF Once!Next
  <2>2. CASE Dispatch(c)
      BY <2>2, DispatchAsks DEF Once!Next
  <2>3. CASE Rejected(c)
      BY <2>3, HostTakes DEF Rejected
  <2>4. ASSUME ~ClaimCreates(c), ~Dispatch(c), ~Rejected(c) PROVE UNCHANGED <<disk, wire, host>>
      BY <1>2, <2>4 DEF StartRun, CallClaims, CallReplays, Load, Replay, ClaimFinds, SetUp, SetUpFailsEarly,
                        SetUpFails, Accepted, Unanswered
  <2> QED
      BY <1>1, <2>1, <2>2, <2>3, <2>4
<1>3. ASSUME NEW c \in Calls, Refresh(c) PROVE UNCHANGED <<disk, wire, host>>
    BY <1>3 DEF Refresh, CallPolls, RefreshConcluded, RefreshFails, RefreshFinds, RefreshMisses
<1>4. ASSUME NEW c \in Calls, SaveDone(c) PROVE [Once!Next]_(Once!vars)
  <2>1. Head(queue) \in Waits /\ Merge(Head(queue)) /\ UNCHANGED <<wire, host>>
      BY <1>4, WritesWait DEF SaveDone, Writes
  <2> QED
      BY <2>1, SaveBinds DEF Once!Next
<1>5. ASSUME NEW c \in Calls, WriteFails(c) PROVE UNCHANGED <<disk, wire, host>>
    BY <1>5 DEF WriteFails
<1>6. ASSUME NEW m \in wire, HostPersists(m) \/ HostLoses(m) PROVE [Once!Next]_(Once!vars)
    BY <1>6, HostTakes DEF HostPersists, HostLoses
<1>7. CASE Crash \/ Tick \/ UNCHANGED vars
    BY <1>1, <1>7 DEF Crash, Tick, vars
<1> QED
    BY <1>1, <1>2, <1>3, <1>4, <1>5, <1>6, <1>7 DEF Next

\* When starts follow one another, with polls at any time, the write path does what
\* a start that happens once does, for any number of calls, crashes and failed
\* writes: a key is claimed for one operation, a save binds an operation to a
\* session for good, and what is sent is its prompt in that session (claimOperation,
\* mergeStates, PromptAdmissionController.submit).
THEOREM StartsRefine == ASSUME ~Overlap PROVE CasesSpec => StartsOnce
<1>1. CasesInit => Once!Init
    BY DEF CasesInit, Init, Once!Init, NoOp, NoRun, SentPrompts
<1>2. CasesInv /\ [CasesNext]_<<vars, case>> => [Once!Next]_(Once!vars)
  <2>1. SUFFICES ASSUME CasesInv, [CasesNext]_<<vars, case>> PROVE [Once!Next]_(Once!vars)
      OBVIOUS
  <2>2. CASE case = "serial" /\ case' = "serial"
    <3>1. [Next]_vars /\ IInv /\ SerialInv
        BY <2>1, <2>2 DEF CasesNext, CasesInv
    <3> QED
        BY <2>2, <3>1, StepsOnce
  <2>3. CASE case # "serial" /\ case' # "serial"
      BY <2>3 DEF Once!vars
  <2>4. case' = case
      BY <2>1 DEF CasesNext
  <2> QED
      BY <2>2, <2>3, <2>4
<1> QED
    BY <1>1, <1>2, CasesInitially, CasesInductive, PTL DEF CasesSpec, StartsOnce, Once!Spec

\* What follows for a client: all copies of the prompt of a key that are on their way
\* to the Host, or reached it, are of one operation and in one session, after any
\* retries, crashes and failed writes ("a retry with the same request returns the
\* original operation instead of resubmitting", src/README.md:303).
THEOREM OnePromptPerKey == ASSUME ~Overlap PROVE CasesSpec => []Once!OnePrompt
<1>1. CasesInv => Once!OnePrompt
  <2>1. SUFFICES ASSUME CasesInv, case = "serial",
                        NEW m \in SentPrompts(wire) \cup SentPrompts(host),
                        NEW n \in SentPrompts(wire) \cup SentPrompts(host),
                        diskOp[m.op].key = diskOp[n.op].key, m.op \in Calls, n.op \in Calls
                 PROVE  m = n
    <3>1. \A r \in SentPrompts(wire) \cup SentPrompts(host) : case = "serial" /\ CasesInv => r.op \in Calls
        BY DEF SentPrompts, CasesInv, IInv, TypeOK, Request
    <3> QED
        BY <3>1 DEF Once!OnePrompt
  <2>2. IInv /\ SerialInv
      BY <2>1 DEF CasesInv
  <2>3. PICK p \in Sent : m = [op |-> p.op, session |-> p.session]
      BY <2>1 DEF SentPrompts, Sent
  <2>4. PICK q \in Sent : n = [op |-> q.op, session |-> q.session]
      BY <2>1 DEF SentPrompts, Sent
  <2>5. m.op = n.op
    <3>1. diskOp[m.op] # NoOp
        BY <2>2, <2>3 DEF IInv, DiskInv
    <3> QED
        BY <2>1, <2>2, <3>1 DEF IInv, DiskInv
  <2>6. m.session = diskRun[m.op].session /\ n.session = diskRun[n.op].session
      BY <2>2, <2>3, <2>4, KnownPrompts DEF RunNamesSession
  <2> QED
      BY <2>3, <2>4, <2>5, <2>6
<1> QED
    BY <1>1, CasesInitially, CasesInductive, PTL DEF CasesSpec

-----------------------------------------------------------------------------
(* What the versions of an operation know of each other.                   *)

\* The versions of an operation there are: in the file, in a write that waits, in
\* memory, and in what a replay has loaded.
InMemory(i)   == OpOf(obj[journal[i]])
Replays(c, i) == Starts(c) /\ pc[c] = "loaded" /\ IdOf(c) = i
Versions(i) ==
  ({diskOp[i]} \cup {job.op[i] : job \in Waits}
     \cup (IF journal[i] = None THEN {} ELSE {InMemory(i)})
     \cup {loaded[c].op : c \in {d \in Calls : Replays(d, i)}}) \ {NoOp}

Begun == {"submitted", "acknowledged"}
Later == {"unknown", "failed", "reconciled"}

\* A later version is further on, and no version says acknowledged where another
\* one says that the answer was lost or that the prompt failed.
OrderedInv ==
  \A i \in Calls : \A v, w \in Versions(i) :
    /\ v.at < w.at => OpRank[v.state] <= OpRank[w.state]
    /\ v.state = "acknowledged" => w.state \notin Later

\* What is settled as sent is in the history of the Host.
HistoryInv ==
  \A i \in Calls : \A v \in Versions(i) :
    v.state \in {"acknowledged", "reconciled"} => \E m \in host : m.op = i

\* A version that a call may go on from has missed nothing that matters to it.
Behind(x, i) ==
  \A v \in Versions(i) :
    /\ x.state = "prepared" => v.state = "prepared"
    /\ x.state = "submitted" => v.state \notin Later

BehindInv ==
  /\ \A i \in Calls : journal[i] # None => Behind(InMemory(i), i)
  /\ \A c, i \in Calls : Replays(c, i) => Behind(loaded[c].op, i)

\* What is not on disk yet, a start waits to write.
Writing(i, S) ==
  \E c \in Calls :
    /\ Starts(c) /\ pc[c] # "claiming" /\ IdOf(c) = i
    /\ \E job \in Waits : job.call = c /\ job.op[i].state \in S

SavedInv ==
  \A i \in Calls, S \in {Begun \cup Later, Later} : \A v \in Versions(i) :
    v.state \in S /\ diskOp[i].state \notin S => Writing(i, S)

\* A start that waits for an answer has not been told the worst of its operation.
SendingOK(c) ==
  /\ pc[c] \in {"savingSubmit", "dispatch", "answer"} =>
       /\ InMemory(IdOf(c)).state \in Begun
       /\ InMemory(IdOf(c)).state = "submitted" =>
            \A v \in Versions(IdOf(c)) : v.state # "acknowledged"
  /\ path[c] = "replay" /\ pc[c] \in {"savingRefresh", "savingMissing"} =>
       InMemory(IdOf(c)).state \notin {"prepared", "submitted"}

\* A request belongs to the operation of the call that sent it.
SenderInv ==
  \A m \in Sent : /\ pc[m.call] \notin {"idle", "claiming"}
                  /\ Starts(m.call) => m.op = IdOf(m.call)

OrderInv ==
  /\ OrderedInv /\ HistoryInv /\ BehindInv /\ SavedInv
  /\ \A c \in Calls : Starts(c) => SendingOK(c)
  /\ SenderInv

-----------------------------------------------------------------------------
(* The versions of an operation.                                           *)

LEMMA VersionsTyped ==
  ASSUME IInv, SerialInv, NEW i \in Calls, NEW v \in Versions(i)
  PROVE  /\ v \in Op /\ v # NoOp /\ v.at \in Nat /\ v.at <= clock
         /\ v.state \in OpStates /\ OpRank[v.state] \in 1..6
<1>1. v # NoOp /\ v \in Op \cup {NoOp} => v \in Op
    OBVIOUS
<1>2. ASSUME v = diskOp[i] PROVE v \in Op /\ v.at <= clock
    BY <1>1, <1>2, Shapes DEF Versions, IInv, SerialInv, AgesInv
<1>3. ASSUME NEW job \in Waits, v = job.op[i] PROVE v \in Op /\ v.at <= clock
    BY <1>1, <1>3, WaitsTyped DEF Versions, SerialInv, AgesInv, Fits
<1>4. ASSUME journal[i] # None, v = InMemory(i) PROVE v \in Op /\ v.at <= clock
  <2>1. journal[i] \in Calls /\ obj[journal[i]] \in OpObj /\ obj[journal[i]] # NoObj
      BY <1>4 DEF IInv, TypeOK, MemInv, MemOK
  <2>2. v = [key |-> obj[journal[i]].key, state |-> obj[journal[i]].state, at |-> obj[journal[i]].at]
      BY <1>4, <2>1 DEF InMemory, OpOf
  <2> QED
      BY <2>1, <2>2 DEF OpObj, Op, SerialInv, AgesInv, Fits
<1>5. ASSUME NEW c \in Calls, Replays(c, i), v = loaded[c].op PROVE v \in Op /\ v.at <= clock
    BY <1>1, <1>5 DEF Versions, Replays, IInv, TypeOK, SerialInv, LoadedInv, Fits
<1>6. v \in Op /\ v.at <= clock /\ v # NoOp
    BY <1>2, <1>3, <1>4, <1>5, Shapes DEF Versions, IInv
<1> QED
    BY <1>6 DEF Op, OpStates, OpRank

\* What the memory holds of an operation is one of its versions.
LEMMA MemoryHolds ==
  ASSUME IInv, SerialInv, NEW i \in Calls, journal[i] # None
  PROVE  /\ journal[i] \in Calls /\ obj[journal[i]] \in OpObj /\ obj[journal[i]].id = i
         /\ InMemory(i) \in Versions(i) /\ InMemory(i) \in Op
         /\ InMemory(i).state = obj[journal[i]].state /\ InMemory(i).at = obj[journal[i]].at
         /\ InMemory(i).key = obj[journal[i]].key
<1>1. journal[i] \in Calls /\ obj[journal[i]] \in OpObj /\ obj[journal[i]].id = i /\ obj[journal[i]] # NoObj
    BY DEF IInv, TypeOK, MemInv, MemOK
<1>2. InMemory(i) = [key |-> obj[journal[i]].key, state |-> obj[journal[i]].state, at |-> obj[journal[i]].at]
    BY <1>1 DEF InMemory, OpOf
<1>3. InMemory(i) \in Op /\ InMemory(i) # NoOp
    BY <1>1, <1>2, ConstantsAssumption DEF Op, OpObj, NoOp
<1> QED
    BY <1>1, <1>2, <1>3 DEF Versions

\* What a start is about is in memory.
LEMMA StartHolds ==
  ASSUME IInv, SerialInv, NEW c \in Calls, Starts(c), pc[c] # "claiming"
  PROVE  /\ IdOf(c) \in Calls /\ journal[IdOf(c)] = opRef[c] /\ opRef[c] \in Calls
         /\ journal[IdOf(c)] # None /\ obj[opRef[c]] \in OpObj /\ obj[opRef[c]] # NoObj
<1>1. pc[c] \in OpPoints /\ path[c] # "poll"
    BY DEF Starts, OpPoints, IInv, TypeOK
<1> QED
    BY <1>1, HoldsOp, Shapes, ConstantsAssumption DEF SerialInv, StartsInv, IdOf, IInv

-----------------------------------------------------------------------------
(* What a step does to the versions of an operation.                       *)

\* The versions after a step are those before it, and what the memory holds then.
Learns == \A i \in Calls : Versions(i)' \subseteq Versions(i) \cup {v \in {InMemory(i)'} : journal'[i] # None}

\* A state an operation may be given, whatever versions of it there are.
Follows(i, s) ==
  /\ s \in OpStates \ {"prepared"}
  /\ \A v \in Versions(i) :
       /\ OpRank[v.state] <= OpRank[s]
       /\ s = "submitted" => v.state = "prepared"
       /\ s = "acknowledged" => v.state \notin Later
       /\ s \in Later => v.state # "acknowledged"
  /\ s \in {"acknowledged", "reconciled"} => \E m \in host : m.op = i

Records(i) ==
  /\ journal[i] # None /\ journal'[i] # None
  /\ InMemory(i)'.at = clock /\ Follows(i, InMemory(i)'.state)

\* The memory is as it was, or it goes back to a version that missed nothing.
Recalls(i) == journal'[i] # None => InMemory(i)' \in Versions(i) /\ Behind(InMemory(i)', i)

LEMMA MemoryStays ==
  ASSUME IInv, SerialInv, BehindInv, NEW i \in Calls, journal[i] # None, InMemory(i)' = InMemory(i)
  PROVE  Recalls(i)
BY MemoryHolds DEF Recalls, BehindInv

LEMMA Remembers ==
  ASSUME IInv, SerialInv, OrderedInv, HistoryInv, Learns, host \subseteq host',
         \A i \in Calls : Recalls(i) \/ Records(i)
  PROVE  /\ OrderedInv' /\ HistoryInv'
         /\ \A i \in Calls : journal'[i] # None => Behind(InMemory(i), i)'
<1> SUFFICES ASSUME NEW i \in Calls
             PROVE  /\ \A v, w \in Versions(i)' : /\ v.at < w.at => OpRank[v.state] <= OpRank[w.state]
                                                  /\ v.state = "acknowledged" => w.state \notin Later
                    /\ \A v \in Versions(i)' : v.state \in {"acknowledged", "reconciled"} => \E m \in host' : m.op = i
                    /\ journal'[i] # None =>
                         \A v \in Versions(i)' : /\ InMemory(i)'.state = "prepared" => v.state = "prepared"
                                                 /\ InMemory(i)'.state = "submitted" => v.state \notin Later
    BY DEF OrderedInv, HistoryInv, Behind
<1>1. CASE Recalls(i)
  <2>1. Versions(i)' \subseteq Versions(i)
      BY <1>1 DEF Learns, Recalls
  <2> QED
      BY <1>1, <2>1 DEF OrderedInv, HistoryInv, Recalls, Behind
<1>2. CASE Records(i)
  <2> DEFINE y == InMemory(i)'
  <2>1. Versions(i)' \subseteq Versions(i) \cup {y} /\ y.at = clock /\ Follows(i, y.state)
      BY <1>2 DEF Learns, Records
  <2>2. \A v \in Versions(i) : v.at \in Nat /\ v.at <= clock
      BY VersionsTyped
  <2>3. clock \in Nat
      BY Shapes DEF IInv
  <2> HIDE DEF y
  <2>4. y.state \in OpStates \ {"prepared"} /\ OpRank[y.state] \in Nat
      BY <2>1 DEF Follows, OpStates, OpRank
  <2>5. ASSUME NEW v \in Versions(i)', NEW w \in Versions(i)', v.at < w.at
        PROVE  OpRank[v.state] <= OpRank[w.state]
    <3>1. CASE v \in Versions(i) /\ w \in Versions(i)
        BY <2>5, <3>1 DEF OrderedInv
    <3>2. CASE v = y
      <4>1. w.at \in Nat /\ w.at <= clock
          BY <2>1, <2>2, <2>3
      <4> QED
          BY <2>1, <2>3, <2>5, <3>2, <4>1
    <3>3. CASE v \in Versions(i) /\ w = y
        BY <2>1, <3>3 DEF Follows
    <3> QED
        BY <2>1, <3>1, <3>2, <3>3
  <2>6. ASSUME NEW v \in Versions(i)', NEW w \in Versions(i)', v.state = "acknowledged"
        PROVE  w.state \notin Later
      BY <2>1, <2>6 DEF OrderedInv, Follows, Later
  <2>7. ASSUME NEW v \in Versions(i)', v.state \in {"acknowledged", "reconciled"}
        PROVE  \E m \in host' : m.op = i
      BY <2>1, <2>7 DEF HistoryInv, Follows
  <2>8. ASSUME NEW v \in Versions(i)'
        PROVE  y.state # "prepared" /\ (y.state = "submitted" => v.state \notin Later)
      BY <2>1, <2>4, <2>8 DEF Follows, Later
  <2> QED
      BY <2>5, <2>6, <2>7, <2>8 DEF y
<1> QED
    BY <1>1, <1>2

\* When no start waits to write, the file has missed nothing.
Resting == \A d \in Calls : Starts(d) => pc[d] = "claiming" \/ pc[d] \notin Waiting

UpToDate(i) ==
  \A S \in {Begun \cup Later, Later} : \A v \in Versions(i) : v.state \in S => diskOp[i].state \in S

LEMMA Rested ==
  ASSUME IInv, SerialInv, SavedInv, Resting, NEW i \in Calls
  PROVE  UpToDate(i) /\ Behind(diskOp[i], i)
<1>1. \A S : ~Writing(i, S)
  <2>1. \A job \in Waits : pc[job.call] \in Waiting
      BY WaitsTyped DEF Awaited
  <2> QED
      BY <2>1 DEF Writing, Resting
<1>2. UpToDate(i)
    BY <1>1 DEF SavedInv, UpToDate
<1> QED
    BY <1>2, VersionsTyped DEF UpToDate, Behind, Begun, Later, OpStates

\* A file that missed nothing has not, as long as nothing new is learned.
LEMMA RestedStays ==
  ASSUME \A i \in Calls : UpToDate(i) /\ Versions(i)' \subseteq Versions(i), UNCHANGED diskOp
  PROVE  SavedInv'
BY DEF UpToDate, SavedInv

-----------------------------------------------------------------------------
(* What a save does to the versions.                                       *)

\* The merge takes no operation back: not from what the file says, and not from
\* what is written to it.
LEMMA MergeAdvances ==
  ASSUME IInv, SerialInv, OrderedInv, NEW job \in Waits, Merge(job), NEW i \in Calls
  PROVE  /\ OpRank[diskOp'[i].state] >= OpRank[diskOp[i].state]
         /\ \A S \in {Begun \cup Later, Later} :
              job.op[i].state \in S \/ diskOp[i].state \in S => diskOp'[i].state \in S
<1> DEFINE old == diskOp[i]
           new == job.op[i]
<1>1. old # NoOp => old \in Versions(i)
    BY DEF Versions
<1>2. new # NoOp => new \in Versions(i) /\ old # NoOp
    BY WaitsTyped DEF Versions, Agrees
<1>3. /\ diskOp'[i] \in {old, new} /\ diskOp'[i].at >= old.at
      /\ new = NoOp => diskOp'[i] = old
      /\ new # NoOp => diskOp'[i].at >= new.at
      /\ new # NoOp /\ diskOp'[i] # new /\ old.at = new.at => OpRank[old.state] >= OpRank[new.state]
      /\ diskOp'[i] = new /\ new # old =>
           \/ new.at > old.at
           \/ new.at = old.at /\ OpRank[new.state] > OpRank[old.state]
    BY MergedOp
<1> HIDE DEF old, new
<1>4. \A v \in {old, new} : v # NoOp => v.at \in Nat /\ v.state \in OpStates /\ OpRank[v.state] \in 1..6
    BY <1>1, <1>2, VersionsTyped
<1>5. NoOp.state \notin Begun \cup Later /\ OpRank[NoOp.state] = 0
    BY DEF NoOp, Begun, Later, OpRank
<1>6. ASSUME new # NoOp, diskOp'[i] = new, new # old PROVE OpRank[new.state] >= OpRank[old.state]
    BY <1>1, <1>2, <1>3, <1>4, <1>6 DEF OrderedInv
<1>7. ASSUME new # NoOp, diskOp'[i] # new
      PROVE  diskOp'[i] = old /\ OpRank[old.state] >= OpRank[new.state]
    BY <1>1, <1>2, <1>3, <1>4, <1>7 DEF OrderedInv
<1>8. \A v \in {old, new} : v # NoOp =>
        /\ v.state \in Begun \cup Later <=> OpRank[v.state] >= 2
        /\ v.state \in Later <=> OpRank[v.state] >= 3 /\ v.state # "acknowledged"
    BY <1>4 DEF Begun, Later, OpStates, OpRank
<1>9. OpRank[diskOp'[i].state] >= OpRank[old.state]
    BY <1>3, <1>4, <1>5, <1>6
<1>10. ASSUME new.state \in Begun \cup Later \/ old.state \in Begun \cup Later
       PROVE  diskOp'[i].state \in Begun \cup Later
  <2>1. old # NoOp
      BY <1>2, <1>5, <1>10
  <2>2. OpRank[diskOp'[i].state] >= 2
      BY <1>3, <1>4, <1>5, <1>7, <1>8, <1>9, <1>10, <2>1
  <2> QED
      BY <1>3, <1>8, <2>1, <2>2
<1>11. ASSUME new.state \in Later \/ old.state \in Later PROVE diskOp'[i].state \in Later
  <2>1. old # NoOp
      BY <1>2, <1>5, <1>11
  <2>2. CASE new = NoOp
      BY <1>3, <1>5, <1>11, <2>2
  <2>3. CASE new # NoOp
    <3>1. OpRank[diskOp'[i].state] >= 3
        BY <1>3, <1>4, <1>6, <1>7, <1>8, <1>11, <2>1, <2>3
    <3>2. old.state # "acknowledged" /\ new.state # "acknowledged"
      <4>1. "acknowledged" \notin Later
          BY DEF Later
      <4> QED
          BY <1>1, <1>2, <1>11, <2>1, <2>3, <4>1 DEF OrderedInv
    <3> QED
        BY <1>3, <1>8, <2>1, <2>3, <3>1, <3>2
  <2> QED
      BY <2>2, <2>3
<1> QED
    BY <1>9, <1>10, <1>11 DEF old, new

-----------------------------------------------------------------------------
(* A step that moves one call on.                                          *)

Turns(c, p) ==
  /\ Goes(c, p) /\ \A job \in Waits : job.call # c => job \in Waits'
  /\ UNCHANGED <<journal, opRef, loaded, clock, host>>
  /\ \A o \in Calls : obj'[o].id = obj[o].id
  /\ \A d \in Calls \ {c} : path'[d] = path[d]
  /\ path'[c] # "poll" => path[c] # "poll"
  /\ \/ pc[c] \notin Waiting /\ UNCHANGED diskOp
     \/ queue # <<>> /\ Head(queue).call = c /\ Merge(Head(queue))
  /\ \A m \in Sent' : m \in Sent \/ (pc[c] = "dispatch" /\ m = RequestOf(c))
  /\ pc[c] \notin {"idle", "done", "claiming"} /\ p \notin {"idle", "claiming", "loaded"}

\* The other starts are where they were, and about what they were about.
LEMMA TurnStarts ==
  ASSUME IInv, SerialInv, NEW c \in Calls, NEW p, Turns(c, p), NEW d \in Calls
  PROVE  /\ Starts(d)' => Starts(d)
         /\ Starts(d) /\ d # c => Starts(d)' /\ pc'[d] = pc[d] /\ ~Starts(c)
         /\ Starts(d) /\ pc[d] # "claiming" => IdOf(d)' = IdOf(d)
<1>1. Starts(d)' => Starts(d)
    BY DEF Turns, Goes, Starts
<1>2. Starts(d) /\ d # c => Starts(d)' /\ pc'[d] = pc[d] /\ ~Starts(c)
    BY DEF Turns, Goes, Starts, SerialInv, StartsInv
<1>3. Starts(d) /\ pc[d] # "claiming" => IdOf(d)' = IdOf(d)
    BY StartHolds DEF Turns, IdOf
<1> QED
    BY <1>1, <1>2, <1>3

\* A replay that has loaded something still has.
LEMMA TurnReplays ==
  ASSUME IInv, SerialInv, NEW c \in Calls, NEW p, Turns(c, p), NEW d \in Calls, NEW i \in Calls, Replays(d, i)'
  PROVE  d # c /\ Replays(d, i) /\ loaded'[d] = loaded[d] /\ ~Starts(c) /\ journal[i] # None
<1>1. pc'[d] = "loaded" /\ Starts(d)' /\ IdOf(d)' = i
    BY DEF Replays
<1>2. d # c
    BY <1>1 DEF Turns, Goes
<1>3. Starts(d) /\ pc[d] = "loaded" /\ ~Starts(c) /\ IdOf(d) = i
    BY <1>1, <1>2, TurnStarts
<1> QED
    BY <1>2, <1>3, StartHolds DEF Replays, Turns

LEMMA TurnLearns ==
  ASSUME IInv, SerialInv, NEW c \in Calls, NEW p, Turns(c, p)
  PROVE  Learns
<1> SUFFICES ASSUME NEW i \in Calls, NEW v \in Versions(i)'
             PROVE  v \in Versions(i) \/ (journal'[i] # None /\ v = InMemory(i)')
    BY DEF Learns
<1>1. v # NoOp
    BY DEF Versions
<1>2. ASSUME v = diskOp'[i] PROVE v \in Versions(i)
  <2>1. CASE UNCHANGED diskOp
      BY <1>1, <1>2, <2>1 DEF Versions
  <2>2. CASE queue # <<>> /\ Merge(Head(queue))
    <3>1. Head(queue) \in Waits
        BY <2>2, WritesWait
    <3>2. v \in {diskOp[i], Head(queue).op[i]}
        BY <1>2, <2>2, <3>1, MergedOp
    <3> QED
        BY <1>1, <3>1, <3>2 DEF Versions
  <2> QED
      BY <2>1, <2>2 DEF Turns
<1>3. ASSUME NEW job \in Waits', v = job.op[i]
      PROVE  v \in Versions(i) \/ (journal'[i] # None /\ v = InMemory(i)')
  <2>1. CASE job \in Waits
      BY <1>1, <1>3, <2>1 DEF Versions
  <2>2. CASE job = Snapshot(c)'
      BY <1>1, <1>3, <2>2 DEF Snapshot, OpView, InMemory
  <2> QED
      BY <2>1, <2>2 DEF Turns, Goes
<1>4. ASSUME NEW d \in Calls, Replays(d, i)', v = loaded'[d].op PROVE v \in Versions(i)
  <2>1. Replays(d, i) /\ v = loaded[d].op
      BY <1>4, TurnReplays
  <2> QED
      BY <1>1, <2>1 DEF Versions
<1> QED
    BY <1>2, <1>3, <1>4 DEF Versions

\* A write that a start waits for is still waiting, or it has just been made.
LEMMA TurnWriting ==
  ASSUME IInv, SerialInv, NEW c \in Calls, NEW p, Turns(c, p), NEW i \in Calls, NEW S, Writing(i, S)
  PROVE  \/ Writing(i, S)'
         \/ queue # <<>> /\ Merge(Head(queue)) /\ Head(queue).op[i].state \in S
<1>1. PICK d \in Calls : /\ Starts(d) /\ pc[d] # "claiming" /\ IdOf(d) = i
                         /\ \E job \in Waits : job.call = d /\ job.op[i].state \in S
    BY DEF Writing
<1>2. PICK job \in Waits : job.call = d /\ job.op[i].state \in S
    BY <1>1
<1>3. CASE d = c
  <2>1. pc[c] \in Waiting
      BY <1>2, <1>3, WaitsTyped DEF Awaited
  <2>2. queue # <<>> /\ Head(queue).call = c /\ Merge(Head(queue))
      BY <2>1 DEF Turns
  <2>3. job = Head(queue)
    <3>1. queue \in Seq(Job) /\ \A n, m \in 1..Len(queue) : queue[n].call = queue[m].call => n = m
        BY DEF IInv, QueueInv, QueueOK
    <3>2. Len(queue) \in Nat /\ 1 \in 1..Len(queue) /\ Head(queue) = queue[1]
        BY <2>2, <3>1
    <3>3. PICK n \in 1..Len(queue) : job = queue[n]
        BY DEF Waits, Elements
    <3> QED
        BY <1>2, <1>3, <2>2, <3>1, <3>2, <3>3
  <2> QED
      BY <1>2, <2>2, <2>3
<1>4. CASE d # c
  <2>1. Starts(d)' /\ pc'[d] # "claiming" /\ IdOf(d)' = i
      BY <1>1, <1>4, TurnStarts
  <2>2. job \in Waits'
      BY <1>2, <1>4 DEF Turns
  <2> QED
      BY <1>2, <2>1, <2>2 DEF Writing
<1> QED
    BY <1>3, <1>4

\* What a step of a call may do to an operation in memory: nothing; go back to a
\* version, for a start; or record a state, which a start waits to write and which
\* a poll gives only to what was sent.
NewlyWritten(c, i) == Starts(c)' /\ IdOf(c) = i /\ Snapshot(c)' \in Waits'

SettledByPoll(c, i) ==
  /\ ~Starts(c)
  /\ InMemory(i).state # "prepared" /\ InMemory(i)'.state # "submitted"
  /\ InMemory(i)'.state \in Later => InMemory(i).state \in Later

Effect(c, i) ==
  \/ InMemory(i)' = InMemory(i)
  \/ Starts(c) /\ Recalls(i)
  \/ Records(i) /\ (NewlyWritten(c, i) \/ SettledByPoll(c, i))

LEMMA TurnOrdered ==
  ASSUME IInv, SerialInv, OrderInv, IInv', SerialInv', NEW c \in Calls, NEW p, Turns(c, p),
         \A i \in Calls : journal[i] # None => Effect(c, i),
         Starts(c)' => SendingOK(c)'
  PROVE  OrderInv'
<1>1. Learns /\ UNCHANGED <<journal, opRef, loaded>>
    BY TurnLearns DEF Turns
<1>2. \A i \in Calls : Recalls(i) \/ Records(i)
  <2>1. SUFFICES ASSUME NEW i \in Calls, journal[i] # None PROVE Recalls(i) \/ Records(i)
      BY <1>1 DEF Recalls
  <2> QED
      BY <2>1, MemoryStays DEF Effect, OrderInv
<1>3. OrderedInv' /\ HistoryInv' /\ \A i \in Calls : journal'[i] # None => Behind(InMemory(i), i)'
    BY <1>1, <1>2, Remembers DEF OrderInv, Turns
<1>4. ASSUME NEW d \in Calls, NEW i \in Calls, Replays(d, i)'
      PROVE  Behind(loaded[d].op, i)'
  <2> DEFINE x == loaded[d].op
             y == InMemory(i)'
  <2>1. Replays(d, i) /\ loaded'[d] = loaded[d] /\ ~Starts(c) /\ journal[i] # None /\ Behind(x, i)
      BY <1>4, TurnReplays DEF OrderInv, BehindInv
  <2>2. Versions(i)' \subseteq Versions(i) \cup {y} /\ InMemory(i) \in Versions(i)
      BY <1>1, <2>1, MemoryHolds DEF Learns
  <2>3. y = InMemory(i) \/ (Records(i) /\ SettledByPoll(c, i))
      BY <2>1, TurnStarts DEF Effect, NewlyWritten
  <2>4. ASSUME NEW v \in Versions(i)'
        PROVE  /\ x.state = "prepared" => v.state = "prepared"
               /\ x.state = "submitted" => v.state \notin Later
    <3>1. CASE v \in Versions(i)
        BY <2>1, <3>1 DEF Behind
    <3>2. CASE v = y
        BY <2>1, <2>2, <2>3, <3>2 DEF Behind, SettledByPoll
    <3> QED
        BY <2>2, <3>1, <3>2
  <2> QED
      BY <2>1, <2>4 DEF Behind
<1>5. SavedInv'
  <2>1. SUFFICES ASSUME NEW i \in Calls, NEW S \in {Begun \cup Later, Later}, NEW v \in Versions(i)',
                        v.state \in S, diskOp'[i].state \notin S
                 PROVE  Writing(i, S)'
      BY DEF SavedInv
  <2>2. /\ diskOp[i].state \notin S
        /\ queue # <<>> /\ Merge(Head(queue)) => Head(queue).op[i].state \notin S
      BY <2>1, MergeAdvances, WritesWait DEF OrderInv, Turns
  <2>3. ASSUME NEW w \in Versions(i), w.state \in S PROVE Writing(i, S)'
      BY <2>2, <2>3, TurnWriting DEF OrderInv, SavedInv
  <2>4. CASE v \notin Versions(i)
    <3>1. journal[i] # None /\ v = InMemory(i)' /\ InMemory(i) \in Versions(i)
        BY <1>1, <2>4, MemoryHolds DEF Learns
    <3>2. Records(i) /\ (NewlyWritten(c, i) \/ SettledByPoll(c, i))
        BY <1>1, <2>4, <3>1 DEF Effect, Recalls
    <3>3. CASE NewlyWritten(c, i)
      <4>1. Snapshot(c)'.call = c /\ Snapshot(c)'.op[i] = v
          BY <1>1, <3>1 DEF Snapshot, OpView, InMemory
      <4>2. Starts(c)' /\ pc'[c] # "claiming" /\ IdOf(c)' = i
          BY <3>3, TurnStarts DEF NewlyWritten, Turns, Goes
      <4> QED
          BY <2>1, <3>3, <4>1, <4>2 DEF Writing, NewlyWritten
    <3>4. CASE SettledByPoll(c, i)
      <4>1. InMemory(i).state \in S
          BY <2>1, <3>1, <3>4, VersionsTyped DEF SettledByPoll, Begun, Later, OpStates
      <4> QED
          BY <2>3, <3>1, <4>1
    <3> QED
        BY <3>2, <3>3, <3>4
  <2> QED
      BY <2>1, <2>3, <2>4
<1>6. ASSUME NEW d \in Calls, d # c, Starts(d)' PROVE SendingOK(d)'
  <2>1. Starts(d) /\ SendingOK(d) /\ ~Starts(c) /\ pc'[d] = pc[d] /\ path'[d] = path[d]
      BY <1>6, TurnStarts DEF OrderInv, Turns
  <2>2. CASE pc[d] = "claiming"
      BY <2>1, <2>2 DEF SendingOK
  <2>3. CASE pc[d] # "claiming"
    <3> DEFINE i == IdOf(d)
               y == InMemory(i)'
    <3>1. i \in Calls /\ journal[i] # None /\ IdOf(d)' = i /\ InMemory(i) \in Versions(i)
        BY <2>1, <2>3, StartHolds, TurnStarts, MemoryHolds
    <3>2. Versions(i)' \subseteq Versions(i) \cup {y}
        BY <1>1, <3>1 DEF Learns
    <3>3. y = InMemory(i) \/ (Records(i) /\ SettledByPoll(c, i))
        BY <2>1, <3>1, TurnStarts DEF Effect, NewlyWritten
    <3>4. y.state = InMemory(i).state \/ y.state = "acknowledged" \/ y.state \in Later
        BY <3>3 DEF Records, Follows, OpStates, Later, SettledByPoll
    <3> QED
        BY <2>1, <3>1, <3>2, <3>3, <3>4 DEF SendingOK, SettledByPoll, Begun, Later
  <2> QED
      BY <2>2, <2>3
<1>7. SenderInv'
  <2>1. ASSUME NEW m \in Sent'
        PROVE  pc'[m.call] \notin {"idle", "claiming"} /\ (Starts(m.call)' => m.op = IdOf(m.call)')
    <3>1. m.call \in Calls
        BY DEF IInv, TypeOK, Sent, Request
    <3>2. CASE m \in Sent
      <4>1. pc[m.call] \notin {"idle", "claiming"} /\ (Starts(m.call) => m.op = IdOf(m.call))
          BY <3>2 DEF OrderInv, SenderInv
      <4> QED
          BY <3>1, <4>1, TurnStarts DEF Turns, Goes
    <3>3. CASE pc[c] = "dispatch" /\ m = RequestOf(c)
      <4>1. m.call = c /\ m.op = IdOf(c)
          BY <3>3 DEF RequestOf, IdOf
      <4> QED
          BY <3>3, <4>1, TurnStarts DEF Turns, Goes
    <3> QED
        BY <3>2, <3>3 DEF Turns
  <2> QED
      BY <2>1 DEF SenderInv
<1> QED
    BY <1>3, <1>4, <1>5, <1>6, <1>7 DEF OrderInv, BehindInv

-----------------------------------------------------------------------------
(* The states that may follow one another.                                 *)

LEMMA FollowsPrepared ==
  ASSUME IInv, SerialInv, NEW i \in Calls, NEW x, Behind(x, i), x.state = "prepared",
         NEW s \in {"submitted", "failed"}
  PROVE  Follows(i, s)
<1>1. \A v \in Versions(i) : v.state = "prepared"
    BY DEF Behind
<1> QED
    BY <1>1 DEF Follows, OpStates, OpRank, Later

LEMMA FollowsSubmitted ==
  ASSUME IInv, SerialInv, OrderInv, NEW i \in Calls, journal[i] # None, InMemory(i).state = "submitted",
         NEW s \in {"acknowledged", "failed", "unknown"},
         s = "acknowledged" => \E m \in host : m.op = i,
         s # "acknowledged" => \A v \in Versions(i) : v.state # "acknowledged"
  PROVE  Follows(i, s)
<1>1. \A v \in Versions(i) : v.state \in {"prepared", "submitted", "acknowledged"}
    BY VersionsTyped DEF OrderInv, BehindInv, Behind, Later, OpStates
<1> QED
    BY <1>1 DEF Follows, OpStates, OpRank, Later

LEMMA FollowsUnknown ==
  ASSUME IInv, SerialInv, OrderInv, NEW i \in Calls, journal[i] # None, InMemory(i).state = "unknown",
         NEW s \in {"reconciled", "failed"},
         s = "reconciled" <=> \E m \in host : m.op = i
  PROVE  Follows(i, s)
<1>1. \A v \in Versions(i) : v.state # "acknowledged" /\ v.state \in OpStates
    BY MemoryHolds, VersionsTyped DEF OrderInv, OrderedInv, Later
<1>2. s = "failed" => \A v \in Versions(i) : v.state # "reconciled"
    BY DEF OrderInv, HistoryInv
<1> QED
    BY <1>1, <1>2 DEF Follows, OpStates, OpRank, Later

-----------------------------------------------------------------------------
(* The fragments of the actions.                                           *)

\* The queue a call goes on with, and what its write did.
Writer(c, q) ==
  \/ q = queue /\ pc[c] \notin Waiting /\ UNCHANGED diskOp
  \/ q = Tail(queue) /\ queue # <<>> /\ Head(queue).call = c /\ Merge(Head(queue))

LEMMA Turning ==
  ASSUME IInv, NEW c \in Calls, NEW p, NEW q, Writer(c, q),
         Await(c, p, q) \/ Continue(c, p, q),
         pc[c] \notin {"idle", "done", "claiming"}, p \notin {"idle", "claiming", "loaded"},
         UNCHANGED <<journal, opRef, loaded, clock, host>>,
         \A d \in Calls \ {c} : path'[d] = path[d], path'[c] # "poll" => path[c] # "poll",
         \A o \in Calls : obj'[o].id = obj[o].id,
         \A m \in Sent' : m \in Sent \/ (pc[c] = "dispatch" /\ m = RequestOf(c))
  PROVE  Turns(c, p) /\ (Await(c, p, q) => Snapshot(c)' \in Waits')
<1>1. Goes(c, p)
    BY Going DEF Writer, Released
<1>2. queue \in Seq(Job) /\ Len(queue) \in Nat
    BY DEF IInv, QueueInv, QueueOK
<1>3. q \in Seq(Job) /\ \A job \in Waits : job.call # c => job \in Elements(q)
  <2>1. CASE q = queue
      BY <1>2, <2>1 DEF Waits
  <2>2. CASE q = Tail(queue) /\ queue # <<>> /\ Head(queue).call = c
    <3>1. Tail(queue) \in Seq(Job) /\ Len(Tail(queue)) = Len(queue) - 1 /\ Head(queue) = queue[1]
        BY <1>2, <2>2
    <3>2. \A n \in 1..Len(Tail(queue)) : Tail(queue)[n] = queue[n + 1]
        BY <1>2, <2>2
    <3>3. ASSUME NEW job \in Waits, job.call # c PROVE job \in Elements(q)
      <4>1. PICK n \in 1..Len(queue) : job = queue[n]
          BY DEF Waits, Elements
      <4>2. n # 1
          BY <2>2, <3>1, <3>3, <4>1
      <4>3. n - 1 \in 1..Len(q) /\ q[n - 1] = job
          BY <1>2, <2>2, <3>1, <3>2, <4>1, <4>2
      <4> QED
          BY <4>3 DEF Elements
    <3> QED
        BY <2>2, <3>1, <3>3
  <2> QED
      BY <2>1, <2>2 DEF Writer
<1>4. /\ Await(c, p, q) => Waits' = Elements(q) \cup {Snapshot(c)'}
      /\ Continue(c, p, q) => Waits' = Elements(q)
    BY <1>3, ElementsAppend DEF Await, Continue, Waits
<1> QED
    BY <1>1, <1>3, <1>4 DEF Turns, Writer

\* A step that leaves the operations in memory alone.
LEMMA QuietTurn ==
  ASSUME IInv, SerialInv, OrderInv, IInv', SerialInv', NEW c \in Calls, NEW p, Turns(c, p), UNCHANGED obj,
         Starts(c)' => SendingOK(c)'
  PROVE  OrderInv'
<1>1. \A i \in Calls : InMemory(i)' = InMemory(i)
    BY DEF InMemory, Turns
<1> QED
    BY <1>1, TurnOrdered DEF Effect

LEMMA QuietVersions ==
  ASSUME IInv, SerialInv, OrderInv, NEW c \in Calls, NEW p, Turns(c, p), UNCHANGED obj, NEW i \in Calls
  PROVE  InMemory(i)' = InMemory(i) /\ Versions(i)' \subseteq Versions(i)
<1>1. InMemory(i)' = InMemory(i) /\ journal' = journal
    BY DEF InMemory, Turns
<1> QED
    BY <1>1, TurnLearns, MemoryHolds DEF Learns

\* A step that gives an operation in memory its next state.
LEMMA MemorySet ==
  ASSUME IInv, SerialInv, NEW i \in Calls, journal[i] # None, UNCHANGED journal,
         NEW s \in OpStates, obj' = [obj EXCEPT ![journal[i]].state = s, ![journal[i]].at = clock]
  PROVE  /\ InMemory(i)'.state = s /\ InMemory(i)'.at = clock
         /\ \A j \in Calls \ {i} : journal[j] # None => InMemory(j)' = InMemory(j)
         /\ \A o \in Calls : obj'[o].id = obj[o].id
<1> DEFINE o == journal[i]
<1>1. o \in Calls /\ obj[o] \in OpObj /\ obj[o].id = i
    BY MemoryHolds
<1>2. obj'[o].state = s /\ obj'[o].at = clock /\ obj'[o].id = i /\ obj'[o].key = obj[o].key
  <2>1. obj'[o] = [[obj[o] EXCEPT !.state = s] EXCEPT !.at = clock]
      BY <1>1 DEF IInv, TypeOK
  <2> QED
      BY <1>1, <2>1 DEF OpObj
<1>3. \A x \in Calls \ {o} : obj'[x] = obj[x]
    BY <1>1 DEF IInv, TypeOK
<1>4. OpOf(obj'[o]).state = s /\ OpOf(obj'[o]).at = clock
  <2>1. obj'[o].id # None /\ NoObj.id = None
      BY <1>2, ConstantsAssumption DEF NoObj
  <2> QED
      BY <1>2, <2>1 DEF OpOf
<1>5. ASSUME NEW j \in Calls \ {i}, journal[j] # None PROVE InMemory(j)' = InMemory(j)
  <2>1. journal[j] \in Calls \ {o}
      BY <1>1, <1>5, MemoryHolds
  <2> QED
      BY <1>3, <2>1 DEF InMemory
<1> QED
    BY <1>1, <1>2, <1>3, <1>4, <1>5 DEF InMemory

LEMMA StateRecorded ==
  ASSUME IInv, SerialInv, OrderInv, IInv', SerialInv', NEW c \in Calls, NEW p, Turns(c, p),
         NEW i \in Calls, journal[i] # None, NEW s \in OpStates,
         obj' = [obj EXCEPT ![journal[i]].state = s, ![journal[i]].at = clock], Follows(i, s),
         Starts(c) => Starts(c)' /\ IdOf(c) = i /\ Snapshot(c)' \in Waits',
         ~Starts(c) => /\ InMemory(i).state # "prepared" /\ s # "submitted"
                       /\ s \in Later => InMemory(i).state \in Later,
         Starts(c)' => SendingOK(c)'
  PROVE  OrderInv'
<1>1. /\ UNCHANGED journal
      /\ InMemory(i)'.state = s /\ InMemory(i)'.at = clock
      /\ \A j \in Calls \ {i} : journal[j] # None => InMemory(j)' = InMemory(j)
    BY MemorySet DEF Turns
<1>2. Records(i)
    BY <1>1 DEF Records
<1>3. NewlyWritten(c, i) \/ SettledByPoll(c, i)
    BY <1>1 DEF NewlyWritten, SettledByPoll
<1> QED
    BY <1>1, <1>2, <1>3, TurnOrdered DEF Effect

\* A call that is not sending and not refreshing is owed nothing.
LEMMA NotSending ==
  ASSUME NEW c \in Calls, NEW p, Turns(c, p),
         p \notin {"savingSubmit", "dispatch", "answer"},
         p \in {"savingRefresh", "savingMissing"} => path'[c] # "replay"
  PROVE  SendingOK(c)'
BY DEF SendingOK, Turns, Goes

\* What is common to the steps of one call.
Calm(c) ==
  /\ UNCHANGED <<journal, path, opRef, loaded, clock, wire, host>>
  /\ pc[c] \notin {"idle", "done", "claiming"}

LEMMA CalmTurn ==
  ASSUME IInv, NEW c \in Calls, NEW p, NEW q, Writer(c, q), Calm(c),
         Await(c, p, q) \/ Continue(c, p, q), p \notin {"idle", "claiming", "loaded"},
         \A o \in Calls : obj'[o].id = obj[o].id
  PROVE  Turns(c, p) /\ (Await(c, p, q) => Snapshot(c)' \in Waits')
BY Turning DEF Calm, Sent

LEMMA CalmDone ==
  ASSUME IInv, SerialInv, OrderInv, IInv', SerialInv', NEW c \in Calls, NEW p, NEW q, Writer(c, q), Calm(c),
         Await(c, p, q) \/ Continue(c, p, q), UNCHANGED obj,
         p \notin {"idle", "claiming", "loaded", "savingSubmit", "dispatch", "answer", "savingRefresh", "savingMissing"}
  PROVE  OrderInv'
<1>1. Turns(c, p)
    BY CalmTurn
<1> QED
    BY <1>1, NotSending, QuietTurn

\* A replay sends its prompt again when no version says that the Host has it.
LEMMA RefreshedOrdered ==
  ASSUME IInv, SerialInv, OrderInv, IInv', SerialInv', NEW c \in Calls, NEW q, Writer(c, q), Calm(c),
         AfterRefresh(c, q), pc[c] \in RunPoints,
         Starts(c) /\ path[c] = "replay" /\ robj'[runRef[c]].status = "running" /\ obj[opRef[c]].state = "submitted"
           => \A v \in Versions(IdOf(c)) : v.state # "acknowledged"
  PROVE  OrderInv'
<1>1. UNCHANGED obj
    BY DEF AfterRefresh
<1>2. CASE Await(c, "savingFinal", q) \/ Continue(c, "done", q)
    BY <1>1, <1>2, CalmDone
<1>3. CASE /\ path[c] = "replay" /\ Continue(c, "dispatch", q)
           /\ robj'[runRef[c]].status = "running" /\ opRef[c] # None /\ obj[opRef[c]].state = "submitted"
  <2>1. Turns(c, "dispatch")
      BY <1>1, <1>3, CalmTurn
  <2>2. Starts(c) /\ IdOf(c) \in Calls /\ journal[IdOf(c)] = opRef[c] /\ journal[IdOf(c)] # None
      BY <1>3, StartHolds DEF Calm, Starts
  <2>3. InMemory(IdOf(c)).state = "submitted"
      BY <1>3, <2>2, MemoryHolds
  <2>4. IdOf(c)' = IdOf(c) /\ pc'[c] = "dispatch"
      BY <2>1, <2>2, TurnStarts DEF Calm, Turns, Goes
  <2>5. SendingOK(c)'
      BY <1>1, <1>3, <2>1, <2>2, <2>3, <2>4, QuietVersions DEF SendingOK, Begun
  <2> QED
      BY <1>1, <2>1, <2>5, QuietTurn
<1> QED
    BY <1>2, <1>3 DEF AfterRefresh, NoObj

-----------------------------------------------------------------------------
(* One lemma per action of a call that moves on.                           *)

LEMMA AnsweredOrdered ==
  ASSUME IInv, SerialInv, OrderInv, IInv', SerialInv', NEW c \in Calls,
         Accepted(c) \/ Rejected(c) \/ Unanswered(c)
  PROVE  OrderInv'
<1> DEFINE i == IdOf(c)
           o == opRef[c]
<1>1. /\ pc[c] = "answer" /\ path[c] # "poll" /\ Starts(c) /\ Writer(c, queue)
      /\ i \in Calls /\ journal[i] = o /\ journal[i] # None
  <2>1. pc[c] = "answer" /\ pc[c] \notin PollPoints /\ UNCHANGED diskOp
      BY DEF Accepted, Rejected, Unanswered, PollPoints, disk
  <2>2. path[c] # "poll"
      BY <2>1, NotPolling
  <2> QED
      BY <2>1, <2>2, StartHolds DEF Starts, Writer, Waiting
<1>2. /\ UNCHANGED <<path, opRef, loaded, clock, host>> /\ Sent' \subseteq Sent
    BY DEF Accepted, Rejected, Unanswered, bounds, Sent
<1>3. /\ InMemory(i).state = obj[o].state
      /\ InMemory(i).state \in Begun
      /\ InMemory(i).state = "submitted" => \A v \in Versions(i) : v.state # "acknowledged"
    BY <1>1, MemoryHolds DEF OrderInv, SendingOK
<1>4. ASSUME NEW s \in {"acknowledged", "failed", "unknown"},
             NEW p \in {"savingAck", "savingReject", "savingUnknown"},
             Transition(c, s, p, queue), s = "acknowledged" => \E m \in host : m.op = i
      PROVE  OrderInv'
  <2>1. /\ s \in Allowed[obj[o].state] /\ UNCHANGED journal
        /\ obj' = [obj EXCEPT ![o].state = s, ![o].at = clock] /\ Await(c, p, queue)
      BY <1>4 DEF Transition
  <2>2. obj[o].state = "submitted"
      BY <1>3, <2>1 DEF Begun, Allowed
  <2>3. Follows(i, s) /\ s \in OpStates
      BY <1>1, <1>3, <1>4, <2>2, FollowsSubmitted DEF OpStates
  <2>4. \A x \in Calls : obj'[x].id = obj[x].id
      BY <1>1, <2>1, <2>3, MemorySet
  <2>5. Turns(c, p) /\ Snapshot(c)' \in Waits'
      BY <1>1, <1>2, <2>1, <2>4, Turning
  <2>6. Starts(c)' /\ SendingOK(c)'
      BY <1>1, <1>2, <2>5, NotSending DEF Starts, Turns, Goes
  <2> QED
      BY <1>1, <2>1, <2>3, <2>5, <2>6, StateRecorded
<1>5. ASSUME NEW s, Conflict(c, s, queue) PROVE OrderInv'
  <2>1. Continue(c, "done", queue) /\ UNCHANGED <<obj, journal>>
      BY <1>5 DEF Conflict
  <2>2. Turns(c, "done")
      BY <1>1, <1>2, <2>1, Turning
  <2> QED
      BY <2>1, <2>2, NotSending, QuietTurn
<1>6. Accepted(c) => \E m \in host : m.op = i
    BY <1>1 DEF Accepted, OrderInv, SenderInv, Sent
<1> QED
    BY <1>4, <1>5, <1>6 DEF Accepted, Rejected, Unanswered

LEMMA DispatchOrdered ==
  ASSUME IInv, SerialInv, OrderInv, IInv', SerialInv', NEW c \in Calls, Dispatch(c)
  PROVE  OrderInv'
<1>1. /\ pc[c] = "dispatch" /\ path[c] # "poll" /\ Starts(c) /\ Writer(c, queue)
      /\ IdOf(c) \in Calls /\ journal[IdOf(c)] # None
  <2>1. pc[c] = "dispatch" /\ pc[c] \notin PollPoints /\ UNCHANGED diskOp
      BY DEF Dispatch, PollPoints, disk
  <2>2. path[c] # "poll"
      BY <2>1, NotPolling
  <2> QED
      BY <2>1, <2>2, StartHolds DEF Starts, Writer, Waiting
<1>2. /\ UNCHANGED <<obj, journal, path, opRef, loaded, clock, host>> /\ Continue(c, "answer", queue)
      /\ \A m \in Sent' : m \in Sent \/ (pc[c] = "dispatch" /\ m = RequestOf(c))
    BY <1>1 DEF Dispatch, memory, bounds, Continue, Sent
<1>3. Turns(c, "answer")
    BY <1>1, <1>2, Turning
<1>4. IdOf(c)' = IdOf(c) /\ pc'[c] = "answer"
    BY <1>1, <1>3, TurnStarts DEF Turns, Goes
<1>5. SendingOK(c)'
    BY <1>1, <1>2, <1>3, <1>4, QuietVersions DEF OrderInv, SendingOK
<1> QED
    BY <1>2, <1>3, <1>5, QuietTurn

LEMMA RefreshFailsOrdered ==
  ASSUME IInv, SerialInv, OrderInv, IInv', SerialInv', NEW c \in Calls, RefreshFails(c) \/ SetUpFailsEarly(c)
  PROVE  OrderInv'
<1>1. /\ Calm(c) /\ Writer(c, queue) /\ UNCHANGED obj /\ Continue(c, "done", queue)
    BY DEF RefreshFails, SetUpFailsEarly, Calm, Writer, Waiting, memory, bounds, disk, Continue
<1> QED
    BY <1>1, CalmDone

LEMMA SetUpOrdered ==
  ASSUME IInv, SerialInv, OrderInv, IInv', SerialInv', NEW c \in Calls, SetUp(c)
  PROVE  OrderInv'
<1>1. Calm(c) /\ Writer(c, queue) /\ UNCHANGED obj /\ Await(c, "savingRun", queue)
    BY DEF SetUp, Calm, Writer, Waiting, bounds, disk
<1> QED
    BY <1>1, CalmDone

\* An operation that was only prepared is submitted, or fails.
LEMMA PreparedOrdered ==
  ASSUME IInv, SerialInv, OrderInv, IInv', SerialInv', NEW c \in Calls, NEW q, Writer(c, q), Calm(c),
         pc[c] \in {"setup", "savingRun"},
         NEW s \in {"submitted", "failed"}, NEW p \in {"savingSubmit", "savingSetupFailure"},
         p = "savingSubmit" => s = "submitted",
         obj' = [obj EXCEPT ![opRef[c]].state = s, ![opRef[c]].at = clock], Await(c, p, q)
  PROVE  OrderInv'
<1>1. PICK i \in Calls : /\ Starts(c) /\ i = IdOf(c) /\ journal[i] = opRef[c] /\ journal[i] # None
                         /\ InMemory(i).state = "prepared"
  <2>1. path[c] # "poll"
      BY NotPolling DEF PollPoints
  <2>2. Starts(c) /\ IdOf(c) \in Calls /\ journal[IdOf(c)] = opRef[c] /\ journal[IdOf(c)] # None
      BY <2>1, StartHolds DEF Starts
  <2>3. obj[opRef[c]].state = "prepared"
      BY <2>2 DEF SerialInv, PhasesInv, SendOK
  <2> QED
      BY <2>2, <2>3, MemoryHolds
<1>2. Follows(i, s) /\ s \in OpStates
    BY <1>1, FollowsPrepared DEF OrderInv, BehindInv, OpStates
<1>3. InMemory(i)'.state = s /\ \A x \in Calls : obj'[x].id = obj[x].id
    BY <1>1, <1>2, MemorySet DEF Calm
<1>4. Turns(c, p) /\ Snapshot(c)' \in Waits'
    BY <1>3, CalmTurn
<1>5. Starts(c)' /\ pc'[c] = p /\ IdOf(c)' = i
    BY <1>1, <1>4, TurnStarts DEF Starts, Turns, Goes, Calm
<1>6. SendingOK(c)'
  <2>1. CASE p = "savingSetupFailure"
      BY <1>4, <2>1, NotSending
  <2>2. CASE p = "savingSubmit"
    <3>1. InMemory(i)'.state = "submitted"
        BY <1>3, <2>2
    <3>2. Versions(i)' \subseteq Versions(i) \cup {InMemory(i)'}
        BY <1>1, <1>4, <1>5, TurnLearns DEF Learns
    <3>3. \A v \in Versions(i)' : v.state # "acknowledged"
        BY <1>2, <2>2, <3>1, <3>2 DEF Follows
    <3> QED
        BY <1>5, <2>2, <3>1, <3>3 DEF SendingOK, Begun
  <2> QED
      BY <2>1, <2>2
<1> QED
    BY <1>1, <1>2, <1>4, <1>5, <1>6, StateRecorded

LEMMA SetUpFailsOrdered ==
  ASSUME IInv, SerialInv, OrderInv, IInv', SerialInv', NEW c \in Calls, SetUpFails(c)
  PROVE  OrderInv'
<1>1. Calm(c) /\ Writer(c, queue) /\ pc[c] = "setup" /\ Await(c, "savingSetupFailure", queue)
    BY DEF SetUpFails, Calm, Writer, Waiting, bounds, disk
<1>2. obj' = [obj EXCEPT ![opRef[c]].state = "failed", ![opRef[c]].at = clock]
    BY DEF SetUpFails
<1> QED
    BY <1>1, <1>2, PreparedOrdered

LEMMA RefreshConcludedOrdered ==
  ASSUME IInv, SerialInv, OrderInv, IInv', SerialInv', NEW c \in Calls, RefreshConcluded(c)
  PROVE  OrderInv'
<1>1. /\ Calm(c) /\ Writer(c, queue) /\ AfterRefresh(c, queue) /\ pc[c] \in RunPoints
      /\ robj'[runRef[c]].status # "running"
    BY DEF RefreshConcluded, AfterRefresh, Calm, Writer, Waiting, bounds, disk, RunPoints
<1> QED
    BY <1>1, RefreshedOrdered

\* What a call that refreshes a run knows of its operation.
LEMMA RefreshHolds ==
  ASSUME IInv, SerialInv, NEW c \in Calls, pc[c] \in RunPoints, NEW i, i = robj[runRef[c]].id
  PROVE  /\ i \in Calls /\ journal[i] # None /\ obj[journal[i]].state = InMemory(i).state
         /\ Starts(c) => IdOf(c) = i /\ journal[i] = opRef[c]
         /\ InHistory(robj[runRef[c]]) <=> \E m \in host : m.op = i
<1>1. runRef[c] \in Calls /\ robj[runRef[c]] # NoRun /\ i \in Calls /\ runs[i] = runRef[c]
    BY HoldsRun, Shapes DEF IInv, SerialInv, RunsInv
<1>2. journal[i] # None /\ obj[journal[i]].state = InMemory(i).state
  <2>1. journal[i] # None
      BY RefreshedOp, ConstantsAssumption
  <2> QED
      BY <1>1, <2>1, MemoryHolds
<1>3. Starts(c) => IdOf(c) = i /\ journal[i] = opRef[c]
    BY HoldsItsRun DEF SerialInv
<1>4. \A m \in host : m.op = i => m.session = robj[runRef[c]].session
    BY <1>1 DEF SerialInv, PromptsInv, Sent
<1> QED
    BY <1>1, <1>2, <1>3, <1>4 DEF InHistory

LEMMA SettledOrdered ==
  ASSUME IInv, SerialInv, OrderInv, IInv', SerialInv', NEW c \in Calls, Calm(c), Writer(c, queue),
         pc[c] \in RunPoints, NEW i, i = robj[runRef[c]].id,
         NEW s \in {"acknowledged", "reconciled", "failed"}, Follows(i, s),
         InMemory(i).state # "prepared", s \in Later => InMemory(i).state \in Later,
         obj' = [obj EXCEPT ![journal[i]].state = s, ![journal[i]].at = clock],
         NEW p \in {"savingRefresh", "savingMissing"}, Await(c, p, queue)
  PROVE  OrderInv'
<1>1. /\ i \in Calls /\ journal[i] # None /\ s \in OpStates
      /\ Starts(c) => IdOf(c) = i /\ pc[c] # "claiming"
    BY RefreshHolds DEF OpStates, Calm
<1>2. InMemory(i)'.state = s /\ \A x \in Calls : obj'[x].id = obj[x].id
    BY <1>1, MemorySet DEF Calm
<1>3. Turns(c, p) /\ Snapshot(c)' \in Waits'
    BY <1>2, CalmTurn
<1>4. pc'[c] = p /\ (Starts(c) <=> Starts(c)') /\ (Starts(c) => IdOf(c)' = i)
  <2>1. pc'[c] = p /\ path'[c] = path[c]
      BY <1>3 DEF Turns, Goes, Calm
  <2>2. Starts(c) <=> Starts(c)'
      BY <2>1 DEF Starts, Calm
  <2> QED
      BY <1>1, <1>3, <2>1, <2>2, TurnStarts
<1>5. Starts(c)' => SendingOK(c)'
  <2>1. SUFFICES ASSUME Starts(c)' PROVE SendingOK(c)'
      OBVIOUS
  <2>2. IdOf(c)' = i
      BY <1>4, <2>1
  <2> QED
      BY <1>2, <1>4, <2>2 DEF SendingOK
<1> QED
    BY <1>1, <1>3, <1>4, <1>5, StateRecorded

LEMMA RefreshFindsOrdered ==
  ASSUME IInv, SerialInv, OrderInv, IInv', SerialInv', NEW c \in Calls, RefreshFinds(c)
  PROVE  OrderInv'
<1>1. Calm(c) /\ Writer(c, queue) /\ pc[c] \in RunPoints /\ InHistory(robj[runRef[c]])
  <2>1. pc[c] = "refresh" /\ UNCHANGED <<disk, path, opRef, loaded, wire, host, bounds>> /\ UNCHANGED journal
      BY DEF RefreshFinds, AfterRefresh
  <2> QED
      BY <2>1 DEF RefreshFinds, Calm, Writer, Waiting, bounds, disk, RunPoints
<1>2. PICK i : i = robj[runRef[c]].id
    OBVIOUS
<1> DEFINE o == journal[i]
           s == IF obj[o].state = "unknown" THEN "reconciled" ELSE "acknowledged"
           waits == obj[o].state \in {"prepared", "submitted", "unknown"}
<1>3. /\ i \in Calls /\ o # None /\ obj[o].state = InMemory(i).state
      /\ Starts(c) => o = opRef[c]
      /\ \E m \in host : m.op = i
    BY <1>1, <1>2, RefreshHolds
<1>4. \/ /\ waits /\ s \in Allowed[obj[o].state]
         /\ obj' = [obj EXCEPT ![o].state = s, ![o].at = clock]
         /\ Await(c, "savingRefresh", queue)
      \/ UNCHANGED obj /\ Continue(c, "done", queue)
      \/ ~waits /\ AfterRefresh(c, queue)
    BY <1>2 DEF RefreshFinds
<1>5. ASSUME waits, s \in Allowed[obj[o].state] PROVE obj[o].state \in {"submitted", "unknown"}
    BY <1>5 DEF Allowed
<1>6. ASSUME obj[o].state \in {"submitted", "unknown"}
      PROVE  /\ Follows(i, s) /\ s \in {"acknowledged", "reconciled", "failed"}
             /\ InMemory(i).state # "prepared" /\ (s \in Later => InMemory(i).state \in Later)
  <2>1. CASE obj[o].state = "submitted"
      BY <1>3, <2>1, FollowsSubmitted DEF Later
  <2>2. CASE obj[o].state = "unknown"
      BY <1>3, <2>2, FollowsUnknown DEF Later
  <2> QED
      BY <1>6, <2>1, <2>2
<1> HIDE DEF s
<1>7. CASE /\ obj[o].state \in {"submitted", "unknown"}
           /\ obj' = [obj EXCEPT ![o].state = s, ![o].at = clock]
           /\ Await(c, "savingRefresh", queue)
    BY <1>1, <1>2, <1>6, <1>7, SettledOrdered
<1>8. CASE UNCHANGED obj /\ Continue(c, "done", queue)
    BY <1>1, <1>8, CalmDone
<1>9. CASE ~waits /\ AfterRefresh(c, queue)
    BY <1>1, <1>3, <1>9, RefreshedOrdered
<1> QED
    BY <1>4, <1>5, <1>7, <1>8, <1>9

LEMMA RefreshMissesOrdered ==
  ASSUME IInv, SerialInv, OrderInv, IInv', SerialInv', NEW c \in Calls, RefreshMisses(c)
  PROVE  OrderInv'
<1>1. Calm(c) /\ Writer(c, queue) /\ pc[c] \in RunPoints /\ ~InHistory(robj[runRef[c]])
  <2>1. pc[c] = "refresh" /\ UNCHANGED <<disk, path, opRef, loaded, wire, host, bounds>> /\ UNCHANGED journal
      BY DEF RefreshMisses, AfterRefresh
  <2> QED
      BY <2>1 DEF RefreshMisses, Calm, Writer, Waiting, bounds, disk, RunPoints
<1>2. PICK i : i = robj[runRef[c]].id
    OBVIOUS
<1> DEFINE o == journal[i]
<1>3. /\ i \in Calls /\ o # None /\ obj[o].state = InMemory(i).state
      /\ Starts(c) => IdOf(c) = i /\ o = opRef[c]
      /\ ~\E m \in host : m.op = i
    BY <1>1, <1>2, RefreshHolds
<1>4. \/ AfterRefresh(c, queue)
      \/ /\ obj[o].state = "unknown"
         /\ obj' = [obj EXCEPT ![o].state = "failed", ![o].at = clock]
         /\ Await(c, "savingMissing", queue)
      \/ UNCHANGED obj /\ Continue(c, "done", queue)
    BY <1>2 DEF RefreshMisses
<1>5. CASE AfterRefresh(c, queue)
  <2>1. Starts(c) => \A v \in Versions(IdOf(c)) : v.state # "acknowledged"
      BY <1>3 DEF OrderInv, HistoryInv
  <2> QED
      BY <1>1, <1>5, <2>1, RefreshedOrdered
<1>6. CASE /\ obj[o].state = "unknown"
           /\ obj' = [obj EXCEPT ![o].state = "failed", ![o].at = clock]
           /\ Await(c, "savingMissing", queue)
  <2>1. Follows(i, "failed") /\ "failed" \in Later /\ "unknown" \in Later
      BY <1>3, <1>6, FollowsUnknown DEF Later
  <2> QED
      BY <1>1, <1>2, <1>3, <1>6, <2>1, SettledOrdered
<1>7. CASE UNCHANGED obj /\ Continue(c, "done", queue)
    BY <1>1, <1>7, CalmDone
<1> QED
    BY <1>4, <1>5, <1>6, <1>7

LEMMA SaveDoneOrdered ==
  ASSUME IInv, SerialInv, OrderInv, IInv', SerialInv', NEW c \in Calls, SaveDone(c)
  PROVE  OrderInv'
<1> DEFINE q == Tail(queue)
<1>1. /\ Writer(c, q) /\ pc[c] \in Waiting \ {"claiming"}
      /\ UNCHANGED <<path, opRef, loaded, clock, wire, host>>
    BY TakenFromQueue DEF SaveDone, Writes, Writer, bounds
<1>2. UNCHANGED journal /\ Calm(c)
  <2>1. UNCHANGED journal
      BY DEF SaveDone, Resume, Submit, Transition, Conclude, AfterRefresh
  <2> QED
      BY <1>1, <2>1 DEF Calm, Waiting
<1>3. CASE pc[c] = "savingRun" /\ Submit(c, q)
  <2>1. path[c] # "poll"
      BY <1>3, NotPolling DEF PollPoints
  <2>2. Starts(c)
      BY <1>3, <2>1 DEF Starts
  <2>3. obj[opRef[c]].state = "prepared"
      BY <1>3, <2>2 DEF SerialInv, PhasesInv, SendOK
  <2>4. Transition(c, "submitted", "savingSubmit", q)
      BY <1>3, <2>3 DEF Submit
  <2>5. /\ obj' = [obj EXCEPT ![opRef[c]].state = "submitted", ![opRef[c]].at = clock]
        /\ Await(c, "savingSubmit", q)
      BY <2>4 DEF Transition
  <2> QED
      BY <1>1, <1>2, <1>3, <2>5, PreparedOrdered
<1>4. CASE pc[c] = "savingSubmit" /\ UNCHANGED obj /\ Continue(c, "dispatch", q)
  <2>1. Turns(c, "dispatch")
      BY <1>1, <1>2, <1>4, CalmTurn
  <2>2. path[c] # "poll"
      BY <1>4, NotPolling DEF PollPoints
  <2>3. Starts(c) /\ IdOf(c) \in Calls /\ IdOf(c)' = IdOf(c) /\ pc'[c] = "dispatch"
      BY <1>4, <2>1, <2>2, StartHolds, TurnStarts DEF Starts, Turns, Goes
  <2>4. SendingOK(c)'
      BY <1>4, <2>1, <2>3, QuietVersions DEF OrderInv, SendingOK
  <2> QED
      BY <1>4, <2>1, <2>4, QuietTurn
<1>5. CASE UNCHANGED obj /\ \E p \in {"refresh", "savingFinal", "done"} : Await(c, p, q) \/ Continue(c, p, q)
    BY <1>1, <1>2, <1>5, CalmDone
<1>6. CASE pc[c] \in {"savingRefresh", "savingMissing"} /\ AfterRefresh(c, q)
  <2>1. pc[c] \in RunPoints /\ pc[c] # "claiming"
      BY <1>6 DEF RunPoints
  <2>2. Starts(c) /\ path[c] = "replay" => obj[opRef[c]].state # "submitted"
    <3>1. SUFFICES ASSUME Starts(c), path[c] = "replay" PROVE obj[opRef[c]].state # "submitted"
        OBVIOUS
    <3>2. InMemory(IdOf(c)).state = obj[opRef[c]].state
        BY <2>1, <3>1, StartHolds, MemoryHolds
    <3> QED
        BY <1>6, <3>1, <3>2 DEF OrderInv, SendingOK
  <2> QED
      BY <1>1, <1>2, <1>6, <2>1, <2>2, RefreshedOrdered
<1>7. Resume(c, q)
    BY DEF SaveDone
<1> QED
    BY <1>3, <1>4, <1>5, <1>6, <1>7 DEF Resume, Conclude

-----------------------------------------------------------------------------
(* A replay, and the steps that make an operation or restore it.           *)

\* An object made from a version says what the version says.
LEMMA Copied ==
  ASSUME NEW v \in Op, NEW i \in Calls
  PROVE  OpOf([id |-> i, key |-> v.key, state |-> v.state, at |-> v.at]) = v
<1> DEFINE o == [id |-> i, key |-> v.key, state |-> v.state, at |-> v.at]
<1>1. o.id # NoObj.id
    BY ConstantsAssumption DEF NoObj
<1>2. o # NoObj
    BY <1>1
<1>3. v = [key |-> v.key, state |-> v.state, at |-> v.at]
    BY DEF Op
<1> QED
    BY <1>2, <1>3 DEF OpOf

LEMMA ReplayOrdered ==
  ASSUME IInv, SerialInv, OrderInv, IInv', SerialInv', NEW c \in Calls, Replay(c)
  PROVE  OrderInv'
<1> DEFINE o == opRef[c]
           x == loaded[c].op
<1>1. /\ pc[c] = "loaded" /\ path[c] # "poll" /\ Starts(c) /\ Writer(c, queue)
      /\ UNCHANGED <<opRef, loaded, clock, wire, host>>
  <2>1. pc[c] = "loaded" /\ pc[c] \notin PollPoints /\ UNCHANGED diskOp
      BY DEF Replay, PollPoints, disk
  <2>2. path[c] # "poll"
      BY <2>1, NotPolling
  <2> QED
      BY <2>1, <2>2 DEF Starts, Writer, Waiting, Replay, bounds
<1>2. PICK i \in Calls : /\ i = IdOf(c) /\ i = obj[o].id /\ journal[i] = o /\ journal[i] # None
                         /\ o \in Calls /\ obj[o] \in OpObj
    BY <1>1, StartHolds DEF IdOf
<1>3. x \in Op /\ x \in Versions(i) /\ Behind(x, i)
  <2>1. Replays(c, i) /\ x # NoOp
      BY <1>1, <1>2 DEF Replays, SerialInv, PhasesInv, LoadedOK
  <2>2. x \in Versions(i) /\ Behind(x, i)
      BY <2>1 DEF Versions, OrderInv, BehindInv
  <2> QED
      BY <2>2, VersionsTyped
<1> DEFINE rec  == [id |-> i, key |-> x.key, state |-> x.state, at |-> x.at]
           sent == [[rec EXCEPT !.state = "submitted"] EXCEPT !.at = clock]
<1> DEFINE To(p) ==
             /\ \/ p = "savingSubmit" /\ Await(c, p, queue) /\ x.state = "prepared" /\ obj' = [obj EXCEPT ![o] = sent]
                \/ p # "savingSubmit" /\ Continue(c, p, queue) /\ obj' = [obj EXCEPT ![o] = rec]
             /\ (UNCHANGED path) \/ (p = "setup" /\ path' = [path EXCEPT ![c] = "fresh"])
<1>4. journal' = [journal EXCEPT ![i] = o] /\ \E p \in {"savingSubmit", "done", "refresh", "setup"} : To(p)
  <2>1. x # NoOp
      BY <1>3 DEF Versions
  <2>2. journal' = [journal EXCEPT ![i] = o]
      BY <1>2, <2>1 DEF Replay
  <2>3. \/ x.state = "prepared" /\ obj' = [obj EXCEPT ![o] = sent] /\ Await(c, "savingSubmit", queue) /\ UNCHANGED path
        \/ obj' = [obj EXCEPT ![o] = rec] /\ Continue(c, "done", queue) /\ UNCHANGED path
        \/ obj' = [obj EXCEPT ![o] = rec] /\ Continue(c, "refresh", queue) /\ UNCHANGED path
        \/ obj' = [obj EXCEPT ![o] = rec] /\ Continue(c, "setup", queue) /\ path' = [path EXCEPT ![c] = "fresh"]
      BY <1>2, <2>1 DEF Replay
  <2> HIDE DEF sent, rec, x
  <2> QED
      BY <2>2, <2>3
<1>5. journal' = journal
    BY <1>2, <1>4 DEF IInv, TypeOK
<1>6. PICK p \in {"savingSubmit", "done", "refresh", "setup"} : To(p)
    BY <1>4
<1>7. OpOf(rec) = x /\ rec.id = i
    BY <1>2, <1>3, Copied
<1>8. sent.id = i /\ OpOf(sent).state = "submitted" /\ OpOf(sent).at = clock
  <2>1. sent.id = i /\ sent.state = "submitted" /\ sent.at = clock
      OBVIOUS
  <2> HIDE DEF sent
  <2>2. sent.id # NoObj.id
      BY <1>2, <2>1, ConstantsAssumption DEF NoObj
  <2>3. sent # NoObj
      BY <2>2
  <2> QED
      BY <2>1, <2>3 DEF OpOf
<1> HIDE DEF rec, sent, x
<1>9. /\ obj'[o] \in {rec, sent} /\ obj'[o].id = i /\ \A a \in Calls \ {o} : obj'[a] = obj[a]
      /\ p = "savingSubmit" => obj'[o] = sent
      /\ p # "savingSubmit" => obj'[o] = rec
    BY <1>2, <1>6, <1>7, <1>8 DEF IInv, TypeOK
<1>10. /\ \A a \in Calls : obj'[a].id = obj[a].id
       /\ \A d \in Calls \ {c} : path'[d] = path[d]
    BY <1>2, <1>6, <1>9 DEF IInv, TypeOK
<1>11. Turns(c, p) /\ (p = "savingSubmit" => Snapshot(c)' \in Waits')
    BY <1>1, <1>5, <1>6, <1>10, Turning DEF Sent
<1>12. InMemory(i)' = OpOf(obj'[o])
    BY <1>2, <1>5 DEF InMemory
<1>13. ASSUME NEW j \in Calls, journal[j] # None, j # i PROVE InMemory(j)' = InMemory(j)
  <2>1. journal[j] \in Calls \ {o}
      BY <1>2, <1>13, MemoryHolds
  <2> QED
      BY <1>5, <1>9, <2>1 DEF InMemory
<1>14. CASE p = "savingSubmit"
  <2>1. Follows(i, "submitted") /\ InMemory(i)'.state = "submitted" /\ InMemory(i)'.at = clock
      BY <1>3, <1>6, <1>8, <1>9, <1>12, <1>14, FollowsPrepared
  <2>2. Records(i)
      BY <1>2, <1>5, <2>1 DEF Records
  <2>3. pc'[c] = p /\ path'[c] = path[c]
      BY <1>6, <1>11, <1>14 DEF Turns, Goes
  <2>4. Starts(c)' /\ IdOf(c)' = i
      BY <1>1, <1>2, <1>11, <1>14, <2>3, TurnStarts DEF Starts
  <2>5. NewlyWritten(c, i)
      BY <1>2, <1>11, <1>14, <2>4 DEF NewlyWritten
  <2>6. SendingOK(c)'
    <3>1. Versions(i)' \subseteq Versions(i) \cup {InMemory(i)'}
        BY <1>11, TurnLearns DEF Learns
    <3>2. \A v \in Versions(i)' : v.state # "acknowledged"
        BY <2>1, <3>1 DEF Follows
    <3> QED
        BY <1>14, <2>1, <2>3, <2>4, <3>2 DEF SendingOK, Begun
  <2> QED
      BY <1>11, <1>13, <2>2, <2>5, <2>6, TurnOrdered DEF Effect
<1>15. CASE p # "savingSubmit"
  <2>1. Recalls(i)
      BY <1>3, <1>7, <1>9, <1>12, <1>15 DEF Recalls
  <2>2. SendingOK(c)'
      BY <1>11, <1>15, NotSending
  <2> QED
      BY <1>1, <1>11, <1>13, <2>1, <2>2, TurnOrdered DEF Effect
<1> QED
    BY <1>14, <1>15

\* A first claim makes an operation of which there is one version.
LEMMA ClaimCreatesOrdered ==
  ASSUME IInv, SerialInv, OrderInv, IInv', SerialInv', NEW c \in Calls, ClaimCreates(c)
  PROVE  OrderInv'
<1> DEFINE job == Head(queue)
           record == [key |-> job.key, state |-> "prepared", at |-> job.at]
           object == [id |-> c, key |-> job.key, state |-> "prepared", at |-> job.at]
<1>1. /\ pc[c] = "claiming" /\ obj[c] = NoObj /\ path[c] = "fresh" /\ diskOp[c] = NoOp
      /\ job \in Waits /\ job \in Job /\ job.key \in Keys /\ queue # <<>>
  <2>1. pc[c] = "claiming" /\ queue # <<>> /\ job \in Waits /\ job \in Job /\ job.key \in Keys
      BY TakenFromQueue, WritesWait DEF ClaimCreates, Writes
  <2> QED
      BY <2>1 DEF IInv, CallInv, CallOK
<1>2. /\ diskOp' = [diskOp EXCEPT ![c] = record]
      /\ obj' = [obj EXCEPT ![c] = object]
      /\ journal' = [journal EXCEPT ![c] = c] /\ opRef' = [opRef EXCEPT ![c] = c]
      /\ pc' = [pc EXCEPT ![c] = "setup"] /\ queue' = Tail(queue)
      /\ UNCHANGED <<path, loaded, wire, host, clock>>
    BY DEF ClaimCreates, Continue, Goto, bounds
<1>3. record \in Op /\ record.state = "prepared" /\ OpOf(object) = record /\ object.id = c
  <2>1. record \in Op
      BY <1>1 DEF Job, Op, OpStates
  <2> QED
      BY <2>1, Copied
<1> HIDE DEF record, object
<1>4. /\ diskOp'[c] = record /\ obj'[c] = object /\ journal'[c] = c /\ pc'[c] = "setup"
      /\ \A d \in Calls \ {c} : /\ diskOp'[d] = diskOp[d] /\ obj'[d] = obj[d]
                                /\ journal'[d] = journal[d] /\ pc'[d] = pc[d]
    BY <1>2 DEF IInv, TypeOK
<1>5. Waits' \subseteq Waits
    BY <1>1, <1>2, ElementsTail DEF Waits, IInv, QueueInv, QueueOK
<1>6. Starts(c) /\ \A d \in Calls : (Starts(d) => d = c) /\ (Starts(d)' => d = c)
  <2>1. Starts(c)
      BY <1>1 DEF Starts
  <2> QED
      BY <1>2, <1>4, <2>1, OneStart DEF SerialInv, StartsInv
<1>7. \A d, i \in Calls : ~Replays(d, i)'
    BY <1>4, <1>6 DEF Replays
<1>8. \A i \in Calls : UpToDate(i)
    BY <1>1, <1>6, Rested DEF Resting, OrderInv
<1>9. Versions(c)' = {record} /\ InMemory(c)' = record
  <2>1. InMemory(c)' = record
      BY <1>3, <1>4 DEF InMemory
  <2>2. \A w \in Waits' : w.op[c] = NoOp
      BY <1>1, <1>5, WaitsTyped DEF Agrees
  <2>3. record # NoOp
      BY <1>3, ConstantsAssumption DEF Op, NoOp
  <2> QED
      BY <1>4, <1>7, <2>1, <2>2, <2>3, ConstantsAssumption DEF Versions
<1>10. ASSUME NEW i \in Calls \ {c}
       PROVE  Versions(i)' \subseteq Versions(i) /\ (journal'[i] # None => InMemory(i)' = InMemory(i))
  <2>1. journal'[i] # None => InMemory(i)' = InMemory(i)
    <3>1. SUFFICES ASSUME journal[i] # None PROVE InMemory(i)' = InMemory(i)
        BY <1>4
    <3>2. journal[i] \in Calls \ {c}
        BY <1>1, <3>1 DEF IInv, TypeOK, MemInv, MemOK
    <3> QED
        BY <1>4, <3>2 DEF InMemory
  <2> QED
      BY <1>4, <1>5, <1>7, <2>1 DEF Versions
<1>11. OrderedInv' /\ HistoryInv'
  <2>1. record.at \in Nat /\ record.state \notin {"acknowledged", "reconciled"}
      BY <1>3 DEF Op
  <2>2. ASSUME NEW i \in Calls
        PROVE  /\ \A v, w \in Versions(i)' : /\ v.at < w.at => OpRank[v.state] <= OpRank[w.state]
                                             /\ v.state = "acknowledged" => w.state \notin Later
               /\ \A v \in Versions(i)' : v.state \in {"acknowledged", "reconciled"} => \E m \in host : m.op = i
    <3>1. CASE i = c
        BY <1>9, <2>1, <3>1
    <3>2. CASE i # c
        BY <1>10, <3>2 DEF OrderInv, OrderedInv, HistoryInv
    <3> QED
        BY <3>1, <3>2
  <2> QED
      BY <1>2, <2>2 DEF OrderedInv, HistoryInv
<1>12. BehindInv'
  <2>1. ASSUME NEW i \in Calls, journal'[i] # None
        PROVE  \A v \in Versions(i)' : /\ InMemory(i)'.state = "prepared" => v.state = "prepared"
                                       /\ InMemory(i)'.state = "submitted" => v.state \notin Later
    <3>1. CASE i = c
        BY <1>3, <1>9, <3>1
    <3>2. CASE i # c
        BY <1>4, <1>10, <2>1, <3>2 DEF OrderInv, BehindInv, Behind
    <3> QED
        BY <3>1, <3>2
  <2> QED
      BY <1>7, <2>1 DEF BehindInv, Behind
<1>13. SavedInv'
    BY <1>4, <1>8, <1>9, <1>10 DEF SavedInv, UpToDate
<1>14. SenderInv'
  <2>1. \A m \in Sent : m.call \in Calls /\ m.call # c /\ pc[m.call] \notin {"idle", "claiming"}
      BY <1>1, Shapes DEF OrderInv, SenderInv, IInv, Request
  <2> QED
      BY <1>2, <1>4, <1>6, <2>1 DEF SenderInv, Sent
<1>15. \A d \in Calls : Starts(d)' => SendingOK(d)'
    BY <1>4, <1>6 DEF SendingOK
<1> QED
    BY <1>11, <1>12, <1>13, <1>14, <1>15 DEF OrderInv

\* A later claim recalls what is on disk, which has missed nothing.
LEMMA ClaimFindsOrdered ==
  ASSUME IInv, SerialInv, OrderInv, IInv', SerialInv', NEW c \in Calls, NEW i \in Calls, ClaimFinds(c, i)
  PROVE  OrderInv'
<1> DEFINE copy == [id |-> i, key |-> diskOp[i].key, state |-> diskOp[i].state, at |-> diskOp[i].at]
<1>1. /\ pc[c] = "claiming" /\ obj[c] = NoObj /\ path[c] = "fresh" /\ diskOp[i] # NoOp /\ diskOp[i] \in Op
      /\ queue # <<>>
  <2>1. pc[c] = "claiming" /\ queue # <<>> /\ Head(queue).key \in Keys
      BY TakenFromQueue DEF ClaimFinds, Writes
  <2>2. diskOp[i] # NoOp
      BY <2>1, ConstantsAssumption DEF ClaimFinds, Claimed, NoOp
  <2> QED
      BY <2>1, <2>2 DEF IInv, CallInv, CallOK, TypeOK
<1>2. /\ obj' = [obj EXCEPT ![c] = copy]
      /\ journal' = [journal EXCEPT ![i] = c] /\ opRef' = [opRef EXCEPT ![c] = c]
      /\ path' = [path EXCEPT ![c] = "replay"]
      /\ pc' = [pc EXCEPT ![c] = "loading"] /\ queue' = Tail(queue)
      /\ UNCHANGED <<diskOp, loaded, wire, host, clock>>
    BY DEF ClaimFinds, Continue, Goto, bounds, disk
<1>3. OpOf(copy) = diskOp[i] /\ copy.id = i
    BY <1>1, Copied
<1> HIDE DEF copy
<1>4. /\ obj'[c] = copy /\ journal'[i] = c /\ pc'[c] = "loading"
      /\ \A d \in Calls \ {c} : obj'[d] = obj[d] /\ pc'[d] = pc[d] /\ path'[d] = path[d]
      /\ \A d \in Calls \ {i} : journal'[d] = journal[d]
    BY <1>2 DEF IInv, TypeOK
<1>5. Waits' \subseteq Waits
    BY <1>1, <1>2, ElementsTail DEF Waits, IInv, QueueInv, QueueOK
<1>6. Starts(c) /\ \A d \in Calls : (Starts(d) => d = c) /\ (Starts(d)' => d = c)
  <2>1. Starts(c)
      BY <1>1 DEF Starts
  <2> QED
      BY <1>4, <2>1, OneStart DEF SerialInv, StartsInv
<1>7. \A d, j \in Calls : ~Replays(d, j)'
    BY <1>4, <1>6 DEF Replays
<1>8. \A j \in Calls : UpToDate(j) /\ Behind(diskOp[j], j)
    BY <1>1, <1>6, Rested DEF Resting, OrderInv
<1>9. \A j \in Calls : Recalls(j)
  <2>1. InMemory(i)' = diskOp[i] /\ diskOp[i] \in Versions(i)
      BY <1>1, <1>3, <1>4 DEF InMemory, Versions
  <2>2. ASSUME NEW j \in Calls, j # i, journal[j] # None PROVE InMemory(j)' = InMemory(j)
    <3>1. journal[j] \in Calls \ {c}
        BY <1>1, <2>2 DEF IInv, TypeOK, MemInv, MemOK
    <3> QED
        BY <1>4, <2>2, <3>1 DEF InMemory
  <2>3. ASSUME NEW j \in Calls, j # i PROVE Recalls(j)
    <3>1. CASE journal[j] = None
        BY <1>4, <2>3, <3>1 DEF Recalls
    <3>2. CASE journal[j] # None
        BY <2>2, <2>3, <3>2, MemoryStays DEF OrderInv
    <3> QED
        BY <3>1, <3>2
  <2> QED
      BY <1>8, <2>1, <2>3 DEF Recalls
<1>10. \A j \in Calls : Versions(j)' \subseteq Versions(j)
    BY <1>2, <1>5, <1>7, <1>9 DEF Versions, Recalls
<1>11. OrderedInv' /\ HistoryInv' /\ BehindInv'
  <2>1. Learns
      BY <1>10 DEF Learns
  <2> QED
      BY <1>2, <1>7, <1>9, <2>1, Remembers DEF OrderInv, BehindInv
<1>12. SavedInv'
    BY <1>2, <1>8, <1>10, RestedStays
<1>13. SenderInv'
  <2>1. \A m \in Sent : m.call \in Calls /\ m.call # c /\ pc[m.call] \notin {"idle", "claiming"}
      BY <1>1, Shapes DEF OrderInv, SenderInv, IInv, Request
  <2> QED
      BY <1>2, <1>4, <1>6, <2>1 DEF SenderInv, Sent
<1>14. \A d \in Calls : Starts(d)' => SendingOK(d)'
    BY <1>4, <1>6 DEF SendingOK
<1> QED
    BY <1>11, <1>12, <1>13, <1>14 DEF OrderInv

\* After a crash the file is all there is.
LEMMA CrashOrdered ==
  ASSUME IInv, SerialInv, OrderInv, IInv', SerialInv', Crash
  PROVE  OrderInv'
<1> DEFINE Restored(i) == [id |-> i, key |-> diskOp[i].key, state |-> diskOp[i].state, at |-> diskOp[i].at]
<1>1. /\ obj' = [i \in Calls |-> IF diskOp[i] = NoOp THEN NoObj ELSE Restored(i)]
      /\ journal' = [i \in Calls |-> IF diskOp[i] = NoOp THEN None ELSE i]
      /\ queue' = <<>>
      /\ pc' = [c \in Calls |-> IF pc[c] = "idle" THEN "idle" ELSE "done"]
      /\ UNCHANGED <<diskOp, wire, host>>
    BY DEF Crash, disk
<1>2. \A i \in Calls : diskOp[i] # NoOp => OpOf(Restored(i)) = diskOp[i]
    BY Copied DEF IInv, TypeOK
<1> HIDE DEF Restored
<1>3. Waits' = {} /\ Sent' = Sent /\ \A d \in Calls : ~Starts(d)'
    BY <1>1 DEF Waits, Elements, Sent, Starts
<1>4. \A i \in Calls : journal'[i] # None => InMemory(i)' = diskOp[i] /\ diskOp[i] # NoOp
    BY <1>1, <1>2 DEF InMemory
<1>5. \A i \in Calls : Versions(i)' = {diskOp[i]} \ {NoOp}
    BY <1>1, <1>3, <1>4 DEF Versions, Replays
<1>6. \A i \in Calls : Versions(i)' \subseteq Versions(i) \cap {diskOp[i]} /\ diskOp[i].at \in Nat
    BY <1>5, Shapes DEF Versions, IInv
<1>7. OrderedInv' /\ HistoryInv'
    BY <1>1, <1>6 DEF OrderInv, OrderedInv, HistoryInv
<1>8. BehindInv' /\ SavedInv'
  <2>1. "submitted" \notin Later
      BY DEF Later
  <2> QED
      BY <1>1, <1>3, <1>4, <1>6, <2>1 DEF BehindInv, Behind, SavedInv, Replays
<1>9. SenderInv'
    BY <1>1, <1>3, Shapes DEF OrderInv, SenderInv, IInv, Request
<1> QED
    BY <1>3, <1>7, <1>8, <1>9 DEF OrderInv

-----------------------------------------------------------------------------
(* The steps that leave every operation as it is.                          *)

LEMMA NothingLearned ==
  ASSUME IInv, SerialInv, OrderInv, UNCHANGED <<diskOp, obj, journal>>, host \subseteq host',
         \A job \in Waits' : job \in Waits \/ \A i \in Calls : job.op[i] = NoOp,
         \A d, i \in Calls : Replays(d, i)' =>
           loaded'[d].op \in Versions(i) \cup {NoOp} /\ Behind(loaded'[d].op, i)
  PROVE  /\ OrderedInv' /\ HistoryInv' /\ BehindInv'
         /\ \A i \in Calls : Versions(i)' \subseteq Versions(i) /\ InMemory(i)' = InMemory(i)
<1>1. \A i \in Calls : InMemory(i)' = InMemory(i)
    BY DEF InMemory
<1>2. \A i \in Calls : Versions(i)' \subseteq Versions(i)
    BY <1>1 DEF Versions
<1>3. Learns /\ \A i \in Calls : Recalls(i)
    BY <1>1, <1>2, MemoryStays DEF Learns, Recalls, OrderInv
<1>4. OrderedInv' /\ HistoryInv' /\ \A i \in Calls : journal'[i] # None => Behind(InMemory(i), i)'
    BY <1>3, Remembers DEF OrderInv
<1>5. \A d, i \in Calls : Replays(d, i)' => Behind(loaded[d].op, i)'
    BY <1>2 DEF Behind
<1> QED
    BY <1>1, <1>2, <1>4, <1>5 DEF BehindInv

\* The starts, and the writes they wait for, are what they were.
LEMMA SameStarts ==
  ASSUME IInv, SerialInv, OrderInv, UNCHANGED <<diskOp, obj, journal, queue>>,
         host \subseteq host', Sent' \subseteq Sent,
         \A d \in Calls : Starts(d)' <=> Starts(d),
         \A d \in Calls : Starts(d) =>
           pc'[d] = pc[d] /\ path'[d] = path[d] /\ opRef'[d] = opRef[d] /\ loaded'[d] = loaded[d],
         \A d \in Calls : pc[d] \notin {"idle", "claiming"} => pc'[d] \notin {"idle", "claiming"}
  PROVE  OrderInv'
<1>1. \A d \in Calls : Starts(d) => IdOf(d)' = IdOf(d)
    BY DEF IdOf
<1>2. \A d, i \in Calls : Replays(d, i)' => Replays(d, i) /\ loaded'[d] = loaded[d]
    BY <1>1 DEF Replays
<1>3. Waits' = Waits
    BY DEF Waits
<1>4. \A d, i \in Calls : Replays(d, i)' =>
        loaded'[d].op \in Versions(i) \cup {NoOp} /\ Behind(loaded'[d].op, i)
    BY <1>2 DEF Versions, OrderInv, BehindInv
<1>5. /\ OrderedInv' /\ HistoryInv' /\ BehindInv'
      /\ \A i \in Calls : Versions(i)' \subseteq Versions(i) /\ InMemory(i)' = InMemory(i)
    BY <1>3, <1>4, NothingLearned
<1>6. \A i \in Calls, S \in {Begun \cup Later, Later} : Writing(i, S) => Writing(i, S)'
    BY <1>1, <1>3 DEF Writing
<1>7. SavedInv'
    BY <1>5, <1>6 DEF OrderInv, SavedInv
<1>8. ASSUME NEW d \in Calls, Starts(d)' PROVE SendingOK(d)'
  <2>1. Starts(d) /\ SendingOK(d) /\ pc'[d] = pc[d] /\ path'[d] = path[d] /\ IdOf(d)' = IdOf(d)
      BY <1>1, <1>8 DEF OrderInv
  <2>2. CASE pc[d] = "claiming"
      BY <2>1, <2>2 DEF SendingOK
  <2>3. CASE pc[d] # "claiming"
    <3>1. IdOf(d) \in Calls
        BY <2>1, <2>3, StartHolds
    <3> QED
        BY <1>5, <2>1, <3>1 DEF SendingOK
  <2> QED
      BY <2>2, <2>3
<1>9. SenderInv'
    BY <1>1, Shapes DEF OrderInv, SenderInv, IInv, Request
<1> QED
    BY <1>5, <1>7, <1>8, <1>9 DEF OrderInv

LEMMA HostOrdered ==
  ASSUME IInv, SerialInv, OrderInv, NEW m \in wire, HostPersists(m) \/ HostLoses(m)
  PROVE  OrderInv'
<1>1. /\ UNCHANGED <<diskOp, obj, journal, queue, pc, path, opRef, loaded>>
      /\ host \subseteq host' /\ Sent' \subseteq Sent
    BY DEF HostPersists, HostLoses, Sent, disk, memory, calls
<1> QED
    BY <1>1, SameStarts DEF Starts

LEMMA TickOrdered ==
  ASSUME IInv, SerialInv, OrderInv, Tick \/ UNCHANGED vars
  PROVE  OrderInv'
<1>1. /\ UNCHANGED <<diskOp, obj, journal, queue, pc, path, opRef, loaded>>
      /\ host \subseteq host' /\ Sent' \subseteq Sent
    BY DEF Tick, vars, Sent, disk, memory, calls
<1> QED
    BY <1>1, SameStarts DEF Starts

LEMMA CallPollsOrdered ==
  ASSUME IInv, SerialInv, OrderInv, NEW c \in Calls, NEW i \in Calls, CallPolls(c, i)
  PROVE  OrderInv'
<1>1. /\ UNCHANGED <<diskOp, obj, journal, queue, opRef, loaded>>
      /\ host \subseteq host' /\ Sent' \subseteq Sent
      /\ pc[c] = "idle" /\ pc'[c] = "refresh" /\ path'[c] = "poll"
      /\ \A d \in Calls \ {c} : pc'[d] = pc[d] /\ path'[d] = path[d]
    BY DEF CallPolls, Goto, Sent, disk, memory, bounds, IInv, TypeOK
<1>2. \A d \in Calls : Starts(d)' <=> Starts(d)
    BY <1>1 DEF Starts
<1> QED
    BY <1>1, <1>2, SameStarts DEF Starts

\* A start that has yet to write anything.
LEMMA FreshStart ==
  ASSUME IInv, SerialInv, OrderInv, NEW c \in Calls, Resting, UNCHANGED <<diskOp, obj, journal, host>>,
         \A job \in Waits' : job \in Waits \/ \A i \in Calls : job.op[i] = NoOp,
         \A d \in Calls : Starts(d)' => d = c,
         pc'[c] \in {"claiming", "loading", "loaded"},
         \A i \in Calls : Replays(c, i)' => loaded'[c].op = diskOp[i],
         SenderInv'
  PROVE  OrderInv'
<1>1. \A i \in Calls : UpToDate(i) /\ Behind(diskOp[i], i)
    BY Rested DEF OrderInv
<1>2. \A d, i \in Calls : Replays(d, i)' =>
        loaded'[d].op \in Versions(i) \cup {NoOp} /\ Behind(loaded'[d].op, i)
    BY <1>1 DEF Replays, Versions
<1>3. /\ OrderedInv' /\ HistoryInv' /\ BehindInv'
      /\ \A i \in Calls : Versions(i)' \subseteq Versions(i)
    BY <1>2, NothingLearned
<1>4. SavedInv'
    BY <1>1, <1>3, RestedStays
<1>5. \A d \in Calls : Starts(d)' => SendingOK(d)'
    BY DEF SendingOK
<1> QED
    BY <1>3, <1>4, <1>5 DEF OrderInv

LEMMA CallStartsOrdered ==
  ASSUME IInv, SerialInv, OrderInv, ~Overlap, NEW c \in Calls, NEW k \in Keys, CallClaims(c, k) \/ CallReplays(c, k)
  PROVE  OrderInv'
<1>1. /\ pc[c] = "idle" /\ MayStart(c) /\ pc'[c] \in {"claiming", "loading"}
      /\ \A d \in Calls \ {c} : pc'[d] = pc[d] /\ path'[d] = path[d]
    BY DEF CallClaims, CallReplays, Goto, MayStart, IInv, TypeOK
<1>2. \A d \in Calls : ~Starts(d) /\ (Starts(d)' => d = c)
  <2>1. \A d \in Calls : ~Starts(d)
      BY <1>1 DEF MayStart, Starts
  <2> QED
      BY <1>1, <2>1 DEF Starts
<1>3. UNCHANGED <<diskOp, obj, journal, host>> /\ Sent' = Sent
    BY DEF CallClaims, CallReplays, disk, memory, Sent
<1>4. \A job \in Waits' : job \in Waits \/ \A i \in Calls : job.op[i] = NoOp
  <2>1. CASE CallClaims(c, k)
    <3>1. Waits' = Waits \cup {ClaimOf(c, k)}
        BY <2>1, ElementsAppend DEF CallClaims, Waits, IInv, QueueInv, QueueOK
    <3> QED
        BY <3>1 DEF ClaimOf
  <2>2. CASE CallReplays(c, k)
      BY <2>2 DEF CallReplays, memory, Waits
  <2> QED
      BY <2>1, <2>2
<1>5. SenderInv'
  <2>1. \A m \in Sent : m.call \in Calls /\ m.call # c /\ pc[m.call] \notin {"idle", "claiming"}
      BY <1>1, Shapes DEF OrderInv, SenderInv, IInv, Request
  <2> QED
      BY <1>1, <1>2, <1>3, <2>1 DEF SenderInv
<1> QED
    BY <1>1, <1>2, <1>3, <1>4, <1>5, FreshStart DEF Resting, Replays

LEMMA LoadOrdered ==
  ASSUME IInv, SerialInv, OrderInv, NEW c \in Calls, Load(c)
  PROVE  OrderInv'
<1>1. pc[c] = "loading" /\ path[c] # "poll" /\ Starts(c)
  <2>1. pc[c] = "loading" /\ pc[c] \notin PollPoints
      BY DEF Load, PollPoints
  <2> QED
      BY <2>1, NotPolling DEF Starts
<1>2. /\ pc'[c] = "loaded" /\ loaded'[c].op = diskOp[IdOf(c)]
      /\ \A d \in Calls \ {c} : pc'[d] = pc[d]
      /\ UNCHANGED <<path, opRef, diskOp, obj, journal, queue, host, wire>>
    BY DEF Load, Goto, IInv, TypeOK, IdOf, memory, disk
<1>3. \A d \in Calls : (Starts(d) => d = c) /\ (Starts(d)' => d = c)
    BY <1>1, <1>2 DEF SerialInv, StartsInv, Starts
<1>4. \A d \in Calls : IdOf(d)' = IdOf(d)
    BY <1>2 DEF IdOf
<1>5. SenderInv'
    BY <1>1, <1>2, <1>3, <1>4, Shapes DEF OrderInv, SenderInv, IInv, Request, Sent
<1>6. Resting /\ Waits' = Waits
    BY <1>1, <1>2, <1>3 DEF Resting, Waiting, Waits
<1>7. \A i \in Calls : Replays(c, i)' => loaded'[c].op = diskOp[i]
    BY <1>2, <1>4 DEF Replays
<1> QED
    BY <1>2, <1>3, <1>5, <1>6, <1>7, FreshStart

-----------------------------------------------------------------------------
(* The file moves forward.                                                 *)

LEMMA OrderInitially ==
  ASSUME Init
  PROVE  OrderInv
<1>1. Waits = {} /\ Sent = {} /\ \A c \in Calls : ~Starts(c)
    BY DEF Init, Waits, Elements, Sent, Starts
<1>2. \A i \in Calls : Versions(i) = {}
    BY <1>1 DEF Init, Versions, Replays
<1>3. \A i \in Calls : journal[i] = None
    BY DEF Init
<1> QED
    BY <1>1, <1>2, <1>3 DEF OrderInv, OrderedInv, HistoryInv, BehindInv, Replays, SavedInv, SenderInv

LEMMA OrderInductive ==
  ASSUME ~Overlap, IInv, SerialInv, failures = 0 => OrderInv, [Next]_vars, failures' = 0
  PROVE  OrderInv'
<1>1. IInv' /\ SerialInv'
    BY SerialInductive
<1>2. failures \in Nat
    BY ConstantsAssumption DEF IInv, TypeOK
<1>3. ASSUME NEW c \in Calls, WriteFails(c) PROVE FALSE
    BY <1>2, <1>3 DEF WriteFails
<1>4. ASSUME NEW c \in Calls, StartRun(c) PROVE OrderInv'
  <2>1. failures = 0
      BY <1>4 DEF StartRun, CallClaims, CallReplays, Load, Replay, ClaimCreates, ClaimFinds, SetUp,
                  SetUpFailsEarly, SetUpFails, Dispatch, Accepted, Rejected, Unanswered, bounds
  <2> QED
      BY <1>1, <1>4, <2>1, CallStartsOrdered, LoadOrdered, ReplayOrdered, ClaimCreatesOrdered,
         ClaimFindsOrdered, SetUpOrdered, RefreshFailsOrdered, SetUpFailsOrdered, DispatchOrdered,
         AnsweredOrdered DEF StartRun
<1>5. ASSUME NEW c \in Calls, Refresh(c) PROVE OrderInv'
  <2>1. failures = 0
      BY <1>5 DEF Refresh, CallPolls, RefreshConcluded, RefreshFails, RefreshFinds, RefreshMisses, bounds
  <2> QED
      BY <1>1, <1>5, <2>1, CallPollsOrdered, RefreshConcludedOrdered, RefreshFailsOrdered,
         RefreshFindsOrdered, RefreshMissesOrdered DEF Refresh
<1>6. ASSUME NEW c \in Calls, SaveDone(c) PROVE OrderInv'
    BY <1>1, <1>6, SaveDoneOrdered DEF SaveDone, bounds
<1>7. ASSUME NEW m \in wire, HostPersists(m) \/ HostLoses(m) PROVE OrderInv'
    BY <1>7, HostOrdered DEF HostPersists, HostLoses, bounds
<1>8. CASE Crash
    BY <1>1, <1>8, CrashOrdered DEF Crash
<1>9. CASE Tick \/ UNCHANGED vars
    BY <1>9, TickOrdered DEF Tick, vars, bounds
<1> QED
    BY <1>3, <1>4, <1>5, <1>6, <1>7, <1>8, <1>9 DEF Next

\* The operations of the file change in a merge or where a claim adds one.
LEMMA FileWrites ==
  ASSUME IInv, [Next]_vars
  PROVE  \/ UNCHANGED diskOp
         \/ \E c \in Calls : ClaimCreates(c)
         \/ \E job \in Waits : Merge(job)
<1>1. ASSUME NEW c \in Calls, StartRun(c) PROVE UNCHANGED diskOp \/ ClaimCreates(c)
    BY <1>1 DEF StartRun, CallClaims, CallReplays, Load, Replay, ClaimFinds, SetUp, SetUpFailsEarly,
                SetUpFails, Dispatch, Accepted, Rejected, Unanswered, disk
<1>2. ASSUME NEW c \in Calls, Refresh(c) PROVE UNCHANGED diskOp
    BY <1>2 DEF Refresh, CallPolls, RefreshConcluded, RefreshFails, RefreshFinds, RefreshMisses, disk
<1>3. ASSUME NEW c \in Calls, SaveDone(c) PROVE \E job \in Waits : Merge(job)
  <2>1. queue # <<>> /\ Merge(Head(queue))
      BY <1>3 DEF SaveDone, Writes
  <2>2. Head(queue) \in Waits
      BY <2>1, ElementsTail DEF Waits, IInv, QueueInv, QueueOK
  <2> QED
      BY <2>1, <2>2
<1>4. ASSUME NEW c \in Calls, WriteFails(c) PROVE UNCHANGED diskOp
    BY <1>4 DEF WriteFails, disk
<1>5. ASSUME NEW m \in wire, HostPersists(m) \/ HostLoses(m) PROVE UNCHANGED diskOp
    BY <1>5 DEF HostPersists, HostLoses, disk
<1>6. CASE Crash \/ Tick \/ UNCHANGED vars
    BY <1>6 DEF Crash, Tick, vars, disk
<1> QED
    BY <1>1, <1>2, <1>3, <1>4, <1>5, <1>6 DEF Next

LEMMA RanksNeverFall ==
  ASSUME IInv, SerialInv, OrderInv, [Next]_vars, NEW i \in Calls
  PROVE  OpRank[diskOp'[i].state] >= OpRank[diskOp[i].state]
<1>1. OpRank["none"] = 0
    BY DEF OpRank
<1>2. OpRank[diskOp[i].state] \in Nat
  <2>1. CASE diskOp[i] = NoOp
      BY <1>1, <2>1 DEF NoOp
  <2>2. CASE diskOp[i] \in Op
      BY <2>2 DEF Op, OpStates, OpRank
  <2> QED
      BY <2>1, <2>2 DEF IInv, TypeOK
<1>3. ASSUME NEW c \in Calls, ClaimCreates(c) PROVE OpRank[diskOp'[i].state] >= OpRank[diskOp[i].state]
  <2>1. pc[c] = "claiming"
      BY <1>3, TakenFromQueue DEF ClaimCreates, Writes
  <2>2. diskOp[c] = NoOp
      BY <2>1 DEF IInv, CallInv, CallOK
  <2> QED
      BY <1>1, <1>2, <1>3, <2>2 DEF ClaimCreates, IInv, TypeOK, NoOp, OpRank
<1>4. ASSUME NEW job \in Waits, Merge(job) PROVE OpRank[diskOp'[i].state] >= OpRank[diskOp[i].state]
    BY <1>4, MergeAdvances DEF OrderInv
<1> QED
    BY <1>2, <1>3, <1>4, FileWrites

\* What the invariant of the serial case holds before the first write has failed.
OrderedCasesInv == case = "serial" => IInv /\ SerialInv /\ (failures = 0 => OrderInv)

LEMMA OrderedCasesInductive ==
  ASSUME ~Overlap
  PROVE  OrderedCasesInv /\ [CasesNext]_<<vars, case>> => OrderedCasesInv'
<1> SUFFICES ASSUME OrderedCasesInv, [CasesNext]_<<vars, case>>, case' = "serial"
             PROVE  IInv' /\ SerialInv' /\ (failures' = 0 => OrderInv')
    BY DEF OrderedCasesInv
<1>1. case = "serial" /\ [Next]_vars
    BY DEF CasesNext
<1> QED
    BY <1>1, SerialInductive, OrderInductive DEF OrderedCasesInv

\* When starts follow one another, with polls at any time, no write of a snapshot
\* takes an operation of the state file back to a state it had left, as long as no
\* write has failed: for any number of calls and crashes (the merge of
\* RelayStateStore.save, which keeps the later of two versions of an operation).
THEOREM OperationsAdvance == ASSUME ~Overlap PROVE CasesSpec => DiskAdvances
<1>1. CasesInit => OrderedCasesInv
    BY Initially, SerialInitially, OrderInitially DEF CasesInit, OrderedCasesInv
<1>2. OrderedCasesInv /\ [CasesNext]_<<vars, case>> =>
        [case = "serial" /\ failures = 0 =>
           \A i \in Calls : OpRank[diskOp'[i].state] >= OpRank[diskOp[i].state]]_vars
  <2>1. SUFFICES ASSUME OrderedCasesInv, [CasesNext]_<<vars, case>>, case = "serial", failures = 0,
                        NEW i \in Calls
                 PROVE  OpRank[diskOp'[i].state] >= OpRank[diskOp[i].state]
      OBVIOUS
  <2>2. [Next]_vars
      BY <2>1 DEF CasesNext
  <2>3. IInv /\ SerialInv /\ OrderInv
      BY <2>1 DEF OrderedCasesInv
  <2> QED
      BY <2>2, <2>3, RanksNeverFall
<1> QED
    BY <1>1, <1>2, OrderedCasesInductive, PTL DEF CasesSpec, DiskAdvances
=============================================================================
