---------------------------- MODULE RunAdmission ----------------------------
(***************************************************************************)
(* The write path of one Relay process from a start_run request to the     *)
(* prompt the Harness Host receives: idempotency claim, operation journal, *)
(* the FIFO of state-file writes with its merge, prompt admission, replays *)
(* of a key that is already known, polls, and process crashes.             *)
(*                                                                         *)
(* A call is one request of a client.  The identifiers a call would mint   *)
(* (operationId, runId, rpcId, the session it creates) are all named by    *)
(* the call itself.  JavaScript objects have an identity of their own: an  *)
(* operation record is the object of the call whose prepare() produced it, *)
(* and the operations Map points at one object per operationId.            *)
(***************************************************************************)
EXTENDS Integers, Sequences, FiniteSets

CONSTANTS
  Calls,             \* requests of clients; each is made at most once
  Keys,              \* idempotency keys
  None,              \* "no object"
  RpcTimeout,        \* config.rpcTimeoutMs, in ticks
  MaxClock,          \* bound: ticks of the clock in a behaviour
  MaxCrashes,        \* bound: crashes of the process
  MaxWriteFailures,  \* bound: state-file writes that fail
  Overlap            \* may a call be made while another one is in flight?

ASSUME ConstantsAssumption ==
  /\ None \notin Calls \cup Keys
  /\ RpcTimeout \in Nat \ {0}
  /\ MaxClock \in Nat /\ MaxCrashes \in Nat /\ MaxWriteFailures \in Nat
  /\ Overlap \in BOOLEAN

VARIABLES
  diskOp,    \* operationId -> persisted operation, or NoOp
  diskRun,   \* runId -> persisted run, or NoRun
  obj,       \* operation record objects in memory
  journal,   \* RelayFacade.operations: operationId -> object
  index,     \* OperationJournal.byIdempotency: key -> operationId
  robj,      \* run record objects in memory
  runs,      \* RelayFacade.runs: runId -> object
  queue,     \* RelayStateStore.writes
  pc,        \* where a call awaits
  path,      \* which branch of the code a call is on
  opRef,     \* the operation object a call holds
  runRef,    \* the run object a call holds
  loaded,    \* what a replay's stateStore.load() returned
  wire,      \* session.prompt requests sent and not yet processed
  host,      \* session.prompt requests that became durable in the Host
  clock, crashes, failures

memory == <<obj, journal, index, robj, runs, queue>>
calls  == <<pc, path, opRef, runRef, loaded>>
disk   == <<diskOp, diskRun>>
bounds == <<clock, crashes, failures>>
vars   == <<disk, memory, calls, wire, host, bounds>>

-----------------------------------------------------------------------------
OpStates   == {"prepared", "submitted", "unknown", "failed", "acknowledged", "reconciled"}
Admissions == {"pending", "accepted", "unknown", "rejected"}
Statuses   == {"running", "succeeded", "failed"}

NoOp  == [key |-> None, state |-> "none", at |-> 0]
Op    == [key: Keys, state: OpStates, at: 0..MaxClock]
OpObj == [id: Calls, key: Keys, state: OpStates, at: 0..MaxClock]
NoObj == [id |-> None, key |-> None, state |-> "none", at |-> 0]

Run   == [id: Calls, session: Calls, admission: Admissions, status: Statuses,
          seq: 0..1, started: 0..MaxClock]
NoRun == [id |-> None, session |-> None, admission |-> "none", status |-> "none",
          seq |-> 0, started |-> 0]

Request == [call: Calls, op: Calls, session: Calls]

Waiting == {"claiming", "savingRun", "savingSubmit", "savingAck", "savingUnknown",
            "savingReject", "savingRefresh", "savingMissing", "savingSetupFailure",
            "savingFailure", "savingFinal"}
Points  == Waiting \cup {"idle", "loading", "loaded", "setup", "dispatch", "answer",
                         "refresh", "done"}

\* The transitions an operation may make; each one awaits a save.
Allowed == [ prepared     |-> {"submitted", "failed", "reconciled"},
             submitted    |-> {"acknowledged", "unknown", "failed", "reconciled"},
             unknown      |-> {"acknowledged", "reconciled", "failed"},
             acknowledged |-> {"reconciled"},
             reconciled   |-> {},
             failed       |-> {} ]

-----------------------------------------------------------------------------
(* What the state file keeps of two versions of a record.                  *)

OpRank == [ prepared |-> 1, submitted |-> 2, unknown |-> 3, failed |-> 4,
            acknowledged |-> 5, reconciled |-> 6, none |-> 0 ]

FreshestOperationByTime(left, right) == IF right = NoOp \/ left.at >= right.at THEN left ELSE right
FreshestOperationIncoming(left, right) == IF right = NoOp THEN left ELSE right

FreshestOperation(left, right) ==
  IF \/ right = NoOp
     \/ left.at > right.at
     \/ left.at = right.at /\ OpRank[left.state] >= OpRank[right.state]
  THEN left ELSE right

Stable(r) == r.status # "running"

\* The last tie is broken by JSON text, which starts with random identifiers
\* and free text: rightWins says which version that happens to favour.
FreshestRun(left, right, rightWins) ==
  IF right = NoRun THEN left
  ELSE IF left = NoRun THEN right
  ELSE IF Stable(left) # Stable(right) THEN IF Stable(left) THEN left ELSE right
  ELSE IF left.seq # right.seq THEN IF left.seq > right.seq THEN left ELSE right
  ELSE IF rightWins THEN right ELSE left

-----------------------------------------------------------------------------
(* Views of the memory that persistState() takes when it is called.        *)

OpOf(o) == IF o = NoObj THEN NoOp ELSE [key |-> o.key, state |-> o.state, at |-> o.at]

OpView(objects, map)  == [i \in Calls |-> IF map[i] = None THEN NoOp ELSE OpOf(objects[map[i]])]
RunViewAdmitted(objects, map) ==
  [i \in Calls |-> IF map[i] = None THEN NoRun
                   ELSE IF objects[map[i]].admission = "pending" THEN NoRun ELSE objects[map[i]]]
RunView(objects, map) == [i \in Calls |-> IF map[i] = None THEN NoRun ELSE objects[map[i]]]

\* persistState() copies every record when it is called; the write happens later.
Snapshot(c) == [kind |-> "save", call |-> c, key |-> None, at |-> 0,
                op |-> OpView(obj, journal), run |-> RunView(robj, runs)]

ClaimOf(c, k) == [kind |-> "claim", call |-> c, key |-> k, at |-> clock,
                  op |-> [i \in Calls |-> NoOp], run |-> [i \in Calls |-> NoRun]]

Goto(c, p)       == pc' = [pc EXCEPT ![c] = p]
Await(c, p, q)   == Goto(c, p) /\ queue' = Append(q, Snapshot(c)')
Continue(c, p, q) == Goto(c, p) /\ queue' = q

Recent(at) == clock - at < RpcTimeout

-----------------------------------------------------------------------------
Init ==
  /\ diskOp = [i \in Calls |-> NoOp] /\ diskRun = [i \in Calls |-> NoRun]
  /\ obj = [i \in Calls |-> NoObj] /\ journal = [i \in Calls |-> None]
  /\ index = [k \in Keys |-> None]
  /\ robj = [i \in Calls |-> NoRun] /\ runs = [i \in Calls |-> None]
  /\ queue = <<>>
  /\ pc = [c \in Calls |-> "idle"] /\ path = [c \in Calls |-> "fresh"]
  /\ opRef = [c \in Calls |-> None] /\ runRef = [c \in Calls |-> None]
  /\ loaded = [c \in Calls |-> [op |-> NoOp, run |-> NoRun]]
  /\ wire = {} /\ host = {}
  /\ clock = 0 /\ crashes = 0 /\ failures = 0

MayStart(c) ==
  /\ pc[c] = "idle"
  /\ Overlap \/ \A d \in Calls : pc[d] \in {"idle", "done"} \/ path[d] = "poll"

\* start_run with a key the journal does not know: claim it in the state file.
CallClaims(c, k) ==
  /\ MayStart(c) /\ index[k] = None
  /\ Goto(c, "claiming") /\ queue' = Append(queue, ClaimOf(c, k))
  /\ UNCHANGED <<disk, obj, journal, index, robj, runs, path, opRef, runRef, loaded, wire, host, bounds>>

\* start_run with a key the journal knows: a replay that shares its record.
CallReplays(c, k) ==
  /\ MayStart(c) /\ index[k] # None
  /\ opRef' = [opRef EXCEPT ![c] = journal[index[k]]]
  /\ path' = [path EXCEPT ![c] = "replay"]
  /\ Goto(c, "loading")
  /\ UNCHANGED <<disk, memory, runRef, loaded, wire, host, bounds>>

\* get_run: refresh the run, then persist.
CallPolls(c, i) ==
  /\ pc[c] = "idle" /\ runs[i] # None
  /\ runRef' = [runRef EXCEPT ![c] = runs[i]]
  /\ path' = [path EXCEPT ![c] = "poll"]
  /\ Goto(c, "refresh")
  /\ UNCHANGED <<disk, memory, opRef, loaded, wire, host, bounds>>

-----------------------------------------------------------------------------
(* Replays.                                                                *)

\* A prepared operation without a run that its caller must have abandoned.
LostByAge(ref, rec) == rec.state = "prepared" /\ ~Recent(rec.at)
Lost(ref, rec) == ref = None /\ rec.state = "prepared" /\ ~Recent(rec.at)

\* stateStore.load() reads the state file outside the queue and the lock.
Load(c) ==
  /\ pc[c] = "loading"
  /\ LET id == obj[opRef[c]].id
     IN  loaded' = [loaded EXCEPT ![c] = [op |-> diskOp[id], run |-> diskRun[id]]]
  /\ Goto(c, "loaded")
  /\ UNCHANGED <<disk, memory, path, opRef, runRef, wire, host, bounds>>

\* Object.assign() overwrites the shared record with what was loaded, a run
\* that is missing in memory is adopted, and the replay is classified.
Replay(c) ==
  LET o       == opRef[c]
      id      == obj[o].id
      fromDisk == loaded[c].op
      rec     == IF fromDisk = NoOp THEN obj[o]
                 ELSE [id |-> id, key |-> fromDisk.key, state |-> fromDisk.state, at |-> fromDisk.at]
      adopt   == loaded[c].run # NoRun /\ runs[id] = None
      ref     == IF adopt THEN c ELSE runs[id]
      run     == IF adopt THEN loaded[c].run ELSE IF ref = None THEN NoRun ELSE robj[ref]
      waiting == run.status = "running" /\ run.admission # "accepted" /\ rec.state = "prepared"
      lost    == Lost(ref, rec)
  IN
  /\ pc[c] = "loaded"
  /\ journal' = IF fromDisk = NoOp THEN journal ELSE [journal EXCEPT ![id] = o]
  /\ robj' = IF adopt THEN [robj EXCEPT ![c] = loaded[c].run] ELSE robj
  /\ runs' = IF adopt THEN [runs EXCEPT ![id] = c] ELSE runs
  /\ runRef' = [runRef EXCEPT ![c] = ref]
  /\ UNCHANGED index
  /\ \/ /\ waiting /\ ~Recent(rec.at)                 \* resume the prepared prompt
        /\ obj' = [obj EXCEPT ![o] = [rec EXCEPT !.state = "submitted", !.at = clock]]
        /\ Await(c, "savingSubmit", queue) /\ UNCHANGED path
     \/ /\ waiting /\ Recent(rec.at)                  \* OPERATION_IN_PROGRESS
        /\ obj' = [obj EXCEPT ![o] = rec]
        /\ Continue(c, "done", queue) /\ UNCHANGED path
     \/ /\ ref # None /\ ~waiting
        /\ obj' = [obj EXCEPT ![o] = rec]
        /\ Continue(c, "refresh", queue) /\ UNCHANGED path
     \/ /\ lost                                       \* start over with the same record
        /\ obj' = [obj EXCEPT ![o] = rec]
        /\ Continue(c, "setup", queue) /\ path' = [path EXCEPT ![c] = "fresh"]
     \/ /\ ref = None /\ ~lost                        \* in progress, or OPERATION_UNKNOWN
        /\ obj' = [obj EXCEPT ![o] = rec]
        /\ Continue(c, "done", queue) /\ UNCHANGED path
  /\ UNCHANGED <<disk, opRef, loaded, wire, host, bounds>>

-----------------------------------------------------------------------------
(* The body of startRun from the service lookup to the answer of the Host. *)

\* Everything between the claim and the first save of the run: service,
\* catalog, session, model and permission selection, baseline sequence.
SetUp(c) ==
  LET id == obj[opRef[c]].id
      run == [id |-> id, session |-> c, admission |-> "pending", status |-> "running",
              seq |-> 0, started |-> clock]
  IN
  /\ pc[c] = "setup"
  /\ robj' = [robj EXCEPT ![c] = run] /\ runs' = [runs EXCEPT ![id] = c]
  /\ runRef' = [runRef EXCEPT ![c] = c]
  /\ UNCHANGED <<obj, journal, index>>
  /\ Await(c, "savingRun", queue)
  /\ UNCHANGED <<disk, path, opRef, loaded, wire, host, bounds>>

\* A failure before the session is reserved leaves the operation as it is.
SetUpFailsEarly(c) ==
  /\ pc[c] = "setup"
  /\ Goto(c, "done")
  /\ UNCHANGED <<disk, memory, path, opRef, runRef, loaded, wire, host, bounds>>

\* A failure after that, before the run exists, fails a prepared operation.
SetUpFails(c) ==
  LET o == opRef[c] IN
  /\ pc[c] = "setup"
  /\ obj[o].state = "prepared"
  /\ obj' = [obj EXCEPT ![o].state = "failed", ![o].at = clock]
  /\ UNCHANGED <<journal, index, robj, runs>>
  /\ Await(c, "savingSetupFailure", queue)
  /\ UNCHANGED <<disk, path, opRef, runRef, loaded, wire, host, bounds>>

\* OperationJournal.transition: change the record, then await the save ...
Transition(c, state, p, q) ==
  LET o == opRef[c] IN
  /\ state \in Allowed[obj[o].state]
  /\ obj' = [obj EXCEPT ![o].state = state, ![o].at = clock]
  /\ UNCHANGED <<journal, index, runs>>
  /\ Await(c, p, q)

\* ... or throw OPERATION_STATE_CONFLICT to the client.
Conflict(c, state, q) ==
  /\ state \notin Allowed[obj[opRef[c]].state]
  /\ UNCHANGED <<obj, journal, index, runs>>
  /\ Continue(c, "done", q)

SubmitUnjournalled(c, q) ==
  UNCHANGED <<obj, journal, index, robj, runs>> /\ Continue(c, "dispatch", q)

\* PromptAdmissionController.submit up to the session.prompt request.
Submit(c, q) ==
  /\ UNCHANGED robj
  /\ \/ obj[opRef[c]].state = "prepared" /\ Transition(c, "submitted", "savingSubmit", q)
     \/ /\ obj[opRef[c]].state # "prepared"
        /\ UNCHANGED <<obj, journal, index, runs>>
        /\ Continue(c, "dispatch", q)

RequestOf(c) == [call |-> c, op |-> obj[opRef[c]].id, session |-> robj[runRef[c]].session]

Dispatch(c) ==
  /\ pc[c] = "dispatch"
  /\ wire' = wire \cup {RequestOf(c)}
  /\ Goto(c, "answer")
  /\ UNCHANGED <<disk, memory, path, opRef, runRef, loaded, host, bounds>>

\* The Host makes the prompt durable, now or after the client gave up.
HostPersists(m) ==
  /\ m \in wire
  /\ wire' = wire \ {m} /\ host' = host \cup {m}
  /\ UNCHANGED <<disk, memory, calls, bounds>>

HostLoses(m) ==
  /\ m \in wire
  /\ wire' = wire \ {m}
  /\ UNCHANGED <<disk, memory, calls, host, bounds>>

Admit(c, admission) == robj' = [robj EXCEPT ![runRef[c]].admission = admission]

Accepted(c) ==
  /\ pc[c] = "answer" /\ \E m \in host : m.call = c
  /\ Admit(c, "accepted")
  /\ \/ Transition(c, "acknowledged", "savingAck", queue)
     \/ Conflict(c, "acknowledged", queue)
  /\ UNCHANGED <<disk, path, opRef, runRef, loaded, wire, host, bounds>>

\* A definitive rejection: the Host processed the request and refused it.
Rejected(c) ==
  /\ pc[c] = "answer"
  /\ \E m \in wire : m.call = c /\ wire' = wire \ {m}
  /\ Admit(c, "rejected")
  /\ \/ Transition(c, "failed", "savingReject", queue)
     \/ Conflict(c, "failed", queue)
  /\ UNCHANGED <<disk, path, opRef, runRef, loaded, host, bounds>>

\* No answer within the RPC timeout, or a transport error.
Unanswered(c) ==
  /\ pc[c] = "answer"
  /\ Admit(c, "unknown")
  /\ \/ Transition(c, "unknown", "savingUnknown", queue)
     \/ Conflict(c, "unknown", queue)
  /\ UNCHANGED <<disk, path, opRef, runRef, loaded, wire, host, bounds>>

-----------------------------------------------------------------------------
(* RunReconciler.refresh, with the Host read in one step.                  *)

\* What the caller of refresh does when it returns.
AfterRefresh(c, q) ==
  LET run == robj'[runRef[c]]
      op  == IF opRef[c] = None THEN NoObj ELSE obj[opRef[c]]
      retry == run.status = "running" /\ run.admission # "accepted" /\ op.state = "submitted"
  IN
  /\ UNCHANGED <<obj, journal, index, runs>>
  /\ \/ path[c] \in {"fresh", "poll"} /\ Await(c, "savingFinal", q)
     \/ path[c] = "replay" /\ retry /\ ~Recent(op.at) /\ Continue(c, "dispatch", q)
     \/ path[c] = "replay" /\ ~(retry /\ ~Recent(op.at)) /\ Continue(c, "done", q)

FinalizeAdmission(c, status) == robj' = [robj EXCEPT ![runRef[c]].admission = status]
Finalize(c, status) == robj' = [robj EXCEPT ![runRef[c]].status = status]

\* A turn of the run may have ended by now.
Conclude(c, q) ==
  /\ \E status \in {robj[runRef[c]].status, "succeeded"} : Finalize(c, status)
  /\ AfterRefresh(c, q)

InHistory(run) == \E m \in host : m.op = run.id /\ m.session = run.session

RefreshConcluded(c) ==
  /\ pc[c] = "refresh" /\ robj[runRef[c]].status # "running"
  /\ UNCHANGED robj /\ AfterRefresh(c, queue)
  /\ UNCHANGED <<disk, path, opRef, runRef, loaded, wire, host, bounds>>

\* The Host cannot be read: refresh throws.
RefreshFails(c) ==
  /\ pc[c] = "refresh" /\ robj[runRef[c]].status = "running"
  /\ Goto(c, "done")
  /\ UNCHANGED <<disk, memory, path, opRef, runRef, loaded, wire, host, bounds>>

\* The prompt is in the history: the run is accepted, and an operation that
\* was waiting for this is settled.
RefreshFinds(c) ==
  LET r   == runRef[c]
      o   == journal[robj[r].id]
      state == IF obj[o].state = "unknown" THEN "reconciled" ELSE "acknowledged"
      waits == obj[o].state \in {"prepared", "submitted", "unknown"}
      seen  == [robj EXCEPT ![r].admission = "accepted", ![r].seq = 1]
  IN
  /\ pc[c] = "refresh" /\ robj[r].status = "running" /\ InHistory(robj[r])
  /\ \/ /\ waits /\ state \in Allowed[obj[o].state]
        /\ robj' = seen
        /\ obj' = [obj EXCEPT ![o].state = state, ![o].at = clock]
        /\ UNCHANGED <<journal, index, runs>>
        /\ Await(c, "savingRefresh", queue)
     \/ /\ waits /\ state \notin Allowed[obj[o].state]
        /\ robj' = seen
        /\ UNCHANGED <<obj, journal, index, runs>>
        /\ Continue(c, "done", queue)
     \/ /\ ~waits
        /\ \E status \in {"running", "succeeded"} : robj' = [seen EXCEPT ![r].status = status]
        /\ AfterRefresh(c, queue)
  /\ UNCHANGED <<disk, path, opRef, runRef, loaded, wire, host, bounds>>

\* The prompt is not in the history; once the admission has expired in an idle
\* session, an operation that nobody can still submit is failed.
RefreshMisses(c) ==
  LET r == runRef[c]
      o == journal[robj[r].id]
      expired == /\ robj[r].admission # "accepted" /\ ~Recent(robj[r].started)
                 /\ obj[o].state \notin {"prepared", "submitted"}
      rejected == [robj EXCEPT ![r].admission = "rejected"]
  IN
  /\ pc[c] = "refresh" /\ robj[r].status = "running" /\ ~InHistory(robj[r])
  /\ \/ /\ UNCHANGED robj                     \* not expired, or the session is busy
        /\ AfterRefresh(c, queue)
     \/ /\ expired /\ obj[o].state = "unknown"
        /\ robj' = rejected
        /\ obj' = [obj EXCEPT ![o].state = "failed", ![o].at = clock]
        /\ UNCHANGED <<journal, index, runs>>
        /\ Await(c, "savingMissing", queue)
     \/ /\ expired /\ obj[o].state = "failed"
        /\ robj' = [rejected EXCEPT ![r].status = "failed"]
        /\ AfterRefresh(c, queue)
     \/ /\ expired /\ obj[o].state \in {"acknowledged", "reconciled"}   \* throws
        /\ robj' = rejected
        /\ UNCHANGED <<obj, journal, index, runs>>
        /\ Continue(c, "done", queue)
  /\ UNCHANGED <<disk, path, opRef, runRef, loaded, wire, host, bounds>>

-----------------------------------------------------------------------------
(* The write queue.  The head write ends, and the call that awaits it runs *)
(* on to its next await before any other call does.                        *)

Writes(c, kind) == queue # <<>> /\ Head(queue).kind = kind /\ Head(queue).call = c

ClaimedUnchecked(key) == {}
Claimed(key) == {i \in Calls : diskOp[i].key = key}

\* claimOperation: the first claim of a key creates the operation ...
ClaimCreates(c) ==
  LET job == Head(queue)
      record == [key |-> job.key, state |-> "prepared", at |-> job.at]
  IN
  /\ Writes(c, "claim")
  /\ Claimed(job.key) = {}
  /\ diskOp' = [diskOp EXCEPT ![c] = record]
  /\ obj' = [obj EXCEPT ![c] = [id |-> c, key |-> job.key, state |-> "prepared", at |-> job.at]]
  /\ journal' = [journal EXCEPT ![c] = c] /\ index' = [index EXCEPT ![job.key] = c]
  /\ opRef' = [opRef EXCEPT ![c] = c]
  /\ Continue(c, "setup", Tail(queue))
  /\ UNCHANGED <<diskRun, robj, runs, path, runRef, loaded, wire, host, bounds>>

\* ... a later one returns a copy, which replaces the object in the Map.
ClaimFinds(c, i) ==
  LET job == Head(queue)
      copy == [id |-> i, key |-> diskOp[i].key, state |-> diskOp[i].state, at |-> diskOp[i].at]
  IN
  /\ Writes(c, "claim")
  /\ i \in Claimed(job.key)
  /\ obj' = [obj EXCEPT ![c] = copy]
  /\ journal' = [journal EXCEPT ![i] = c] /\ index' = [index EXCEPT ![job.key] = i]
  /\ opRef' = [opRef EXCEPT ![c] = c] /\ path' = [path EXCEPT ![c] = "replay"]
  /\ Continue(c, "loading", Tail(queue))
  /\ UNCHANGED <<disk, robj, runs, runRef, loaded, wire, host, bounds>>

\* save(): merge the snapshot into the file.
Merge(job) ==
  /\ diskOp' = [i \in Calls |-> FreshestOperation(diskOp[i], job.op[i])]
  /\ \E rightWins \in [Calls -> BOOLEAN] :
       diskRun' = [i \in Calls |-> FreshestRun(diskRun[i], job.run[i], rightWins[i])]

\* What a call does when the save it awaited succeeded.
Resume(c, q) ==
  \/ /\ pc[c] = "savingRun"
     /\ Submit(c, q)
  \/ /\ pc[c] = "savingSubmit"
     /\ UNCHANGED <<obj, journal, index, robj, runs>> /\ Continue(c, "dispatch", q)
  \/ /\ pc[c] \in {"savingAck", "savingUnknown"} /\ path[c] = "fresh"
     /\ UNCHANGED <<obj, journal, index, robj, runs>> /\ Continue(c, "refresh", q)
  \/ /\ pc[c] \in {"savingAck", "savingUnknown"} /\ path[c] = "replay"
     /\ UNCHANGED <<obj, journal, index, robj, runs>> /\ Await(c, "savingFinal", q)
  \/ /\ pc[c] \in {"savingReject", "savingFailure"}
     /\ Finalize(c, "failed")
     /\ UNCHANGED <<obj, journal, index, runs>> /\ Await(c, "savingFinal", q)
  \/ /\ pc[c] = "savingRefresh"
     /\ Conclude(c, q)
  \/ /\ pc[c] = "savingMissing"
     /\ Finalize(c, "failed") /\ AfterRefresh(c, q)
  \/ /\ pc[c] \in {"savingSetupFailure", "savingFinal"}
     /\ UNCHANGED <<obj, journal, index, robj, runs>> /\ Continue(c, "done", q)

SaveDone(c) ==
  /\ Writes(c, "save")
  /\ Merge(Head(queue))
  /\ Resume(c, Tail(queue))
  /\ UNCHANGED <<path, opRef, runRef, loaded, wire, host, bounds>>

\* startRun's catch block for a run whose prompt was never sent.
CatchPending(c, q) ==
  /\ Admit(c, "rejected")
  /\ \/ Transition(c, "failed", "savingFailure", q)
     \/ obj[opRef[c]].state # "failed" /\ Conflict(c, "failed", q)

\* The write fails (lock timeout, I/O error): the file stays as it was and the
\* call sees an exception.
WriteFails(c) ==
  LET caught == /\ pc[c] \in {"savingRun", "savingSubmit"} /\ path[c] = "fresh"
                /\ robj[runRef[c]].admission = "pending"
  IN
  /\ queue # <<>> /\ Head(queue).call = c
  /\ failures < MaxWriteFailures /\ failures' = failures + 1
  /\ \/ caught /\ obj[opRef[c]].state # "failed" /\ CatchPending(c, Tail(queue))
     \/ /\ caught /\ obj[opRef[c]].state = "failed"
        /\ robj' = [robj EXCEPT ![runRef[c]].admission = "rejected", ![runRef[c]].status = "failed"]
        /\ UNCHANGED <<obj, journal, index, runs>>
        /\ Await(c, "savingFinal", Tail(queue))
     \/ /\ ~caught
        /\ UNCHANGED <<obj, journal, index, robj, runs>>
        /\ Continue(c, "done", Tail(queue))
  /\ UNCHANGED <<disk, path, opRef, runRef, loaded, wire, host, clock, crashes>>

-----------------------------------------------------------------------------
(* The process dies and starts again; restoreState() reads the file.       *)

Crash ==
  /\ crashes < MaxCrashes /\ crashes' = crashes + 1
  /\ obj' = [i \in Calls |-> IF diskOp[i] = NoOp THEN NoObj
       ELSE [id |-> i, key |-> diskOp[i].key, state |-> diskOp[i].state, at |-> diskOp[i].at]]
  /\ journal' = [i \in Calls |-> IF diskOp[i] = NoOp THEN None ELSE i]
  /\ index' \in [Keys -> Calls \cup {None}]
  /\ \A k \in Keys : \/ index'[k] # None /\ diskOp[index'[k]].key = k
                     \/ index'[k] = None /\ \A i \in Calls : diskOp[i].key # k
  /\ robj' = diskRun
  /\ runs' = [i \in Calls |-> IF diskRun[i] = NoRun THEN None ELSE i]
  /\ queue' = <<>>
  /\ pc' = [c \in Calls |-> IF pc[c] = "idle" THEN "idle" ELSE "done"]
  /\ UNCHANGED <<disk, path, opRef, runRef, loaded, wire, host, clock, failures>>

Tick ==
  /\ clock < MaxClock /\ clock' = clock + 1
  /\ UNCHANGED <<disk, memory, calls, wire, host, crashes, failures>>

StartRun(c) ==
  \/ \E k \in Keys : CallClaims(c, k) \/ CallReplays(c, k)
  \/ Load(c) \/ Replay(c)
  \/ ClaimCreates(c) \/ \E i \in Calls : ClaimFinds(c, i)
  \/ SetUp(c) \/ SetUpFailsEarly(c) \/ SetUpFails(c)
  \/ Dispatch(c) \/ Accepted(c) \/ Rejected(c) \/ Unanswered(c)

Refresh(c) ==
  \/ \E i \in Calls : CallPolls(c, i)
  \/ RefreshConcluded(c) \/ RefreshFails(c) \/ RefreshFinds(c) \/ RefreshMisses(c)

Next ==
  \/ \E c \in Calls : StartRun(c) \/ Refresh(c) \/ SaveDone(c) \/ WriteFails(c)
  \/ \E m \in wire : HostPersists(m) \/ HostLoses(m)
  \/ Crash \/ Tick

Spec == Init /\ [][Next]_vars

-----------------------------------------------------------------------------
(* Properties.                                                             *)

\* Every session.prompt request that left the process.
Sent == wire \cup host

\* Every variable keeps its shape.
TypeOK ==
  /\ diskOp \in [Calls -> Op \cup {NoOp}] /\ diskRun \in [Calls -> Run \cup {NoRun}]
  /\ obj \in [Calls -> OpObj \cup {NoObj}] /\ robj \in [Calls -> Run \cup {NoRun}]
  /\ journal \in [Calls -> Calls \cup {None}] /\ runs \in [Calls -> Calls \cup {None}]
  /\ index \in [Keys -> Calls \cup {None}]
  /\ pc \in [Calls -> Points] /\ path \in [Calls -> {"fresh", "replay", "poll"}]
  /\ opRef \in [Calls -> Calls \cup {None}] /\ runRef \in [Calls -> Calls \cup {None}]
  /\ loaded \in [Calls -> [op: Op \cup {NoOp}, run: Run \cup {NoRun}]]
  /\ wire \subseteq Request /\ host \subseteq Request
  /\ clock \in 0..MaxClock /\ crashes \in 0..MaxCrashes /\ failures \in 0..MaxWriteFailures

\* One key stands for one operation, however calls, crashes and failed writes
\* interleave: in the state file (claimOperation looks the key up under the
\* lock), in memory, and in what the Host was sent, so that one rpcId finds
\* every prompt of the key.
OneOperationPerKey ==
  /\ \A i, j \in Calls : diskOp[i] # NoOp /\ diskOp[i].key = diskOp[j].key => i = j
  /\ \A o, p \in Calls : obj[o] # NoObj /\ obj[o].key = obj[p].key => obj[o].id = obj[p].id
  /\ \A m, n \in Sent : diskOp[m.op] # NoOp /\ (diskOp[m.op].key = diskOp[n.op].key => m.op = n.op)

\* Write-ahead of the run: startRun persists the run before it submits the
\* prompt, so a crash never leaves a prompt the state file knows nothing of.
RunBeforePrompt == \A m \in Sent : diskRun[m.op] # NoRun

\* Write-ahead of the journal: an operation the file still calls prepared has
\* sent nothing, which is why a replay may submit it again.
JournalBeforePrompt == \A m \in Sent : diskOp[m.op].state # "prepared"

\* All prompts of one operation go to one session: a retry returns the
\* original operation instead of starting a second session.
OneSessionPerKey == \A m, n \in Sent : m.op = n.op => m.session = n.session

\* The session the state file names for a run is the one its prompt went to,
\* through replays, adopted runs and restarts.
RunNamesSession == \A m \in Sent : diskRun[m.op].session = m.session

\* A durable prompt can be settled: refresh finds it in the history and moves
\* the operation of the journal on, which it cannot do from "prepared".
SettleableFromHistory ==
  \A i \in Calls : runs[i] # None /\ InHistory(robj[runs[i]]) => obj[journal[i]].state # "prepared"

=============================================================================
