----------------------------- MODULE StateFile -----------------------------
(***************************************************************************)
(* The state file of one authority, seen as one run, under the saves of    *)
(* Relay processes: RelayStateStore.save() and migrateFrom() from the lock *)
(* to the rename, what they read, and how two copies of a run are merged.  *)
(***************************************************************************)
EXTENDS Integers

CONSTANTS
  Relays,        \* processes; the first evolves the run, others hold copies
  Worker,        \* the process whose run it is
  Foreign,       \* a process of another authority with the same file
  None,          \* "nothing"
  MaxSeq,        \* bound: events of the run
  MaxMishaps     \* bound: crashes, failed writes and corruptions

VARIABLES
  disk,        \* the state file
  quarantine,  \* the files quarantined as corrupt
  memory,      \* the run in each process, or None
  saving,      \* where the save of a process is
  job,         \* what it saves
  text,        \* the state it will write, and has written to its temporary file
  holder,      \* who holds the lock of the state file
  saved,       \* the newest run whose save has returned
  mishaps

stateVars == <<disk, quarantine, memory, saving, job, text, holder, saved, mishaps>>

-----------------------------------------------------------------------------
Statuses == {"running", "needs_attention", "succeeded", "failed"}
Stable   == {"needs_attention", "succeeded", "failed"}
Terminal == {"succeeded", "failed"}
Run(status, seq) == [status |-> status, seq |-> seq]

runStatusRank(s) == CASE s = "succeeded" -> 7 [] s = "failed" -> 5
                      [] s = "needs_attention" -> 3 [] s = "running" -> 2

\* Does freshestRun() keep the left run?
KeepsLeft(l, r) ==
  IF (l.status \in Stable) # (r.status \in Stable) THEN l.status \in Stable
  ELSE IF l.seq # r.seq THEN l.seq > r.seq
  ELSE IF (l.status \in Terminal) # (r.status \in Terminal) THEN l.status \in Terminal
  ELSE runStatusRank(l.status) >= runStatusRank(r.status)

\* The bug: the newer sequence wins, whatever the status.
freshestBySeq(l, r) == IF l.seq > r.seq THEN l ELSE r

freshestRun(l, r) == IF KeepsLeft(l, r) THEN l ELSE r

\* A file: who it belongs to, its run, whether it was migrated, and its mode.
File(kind, by, run, marked, closed) ==
  [kind |-> kind, authority |-> by, run |-> run, marked |-> marked, closed |-> closed]

Missing == File("missing", None, None, FALSE, TRUE)
Authority(p) == IF p = Foreign THEN "other" ELSE "own"

\* parseAndNormalizeState(): a state of an older schema is adopted, with a marker.
Normalized(p, f) ==
  IF f.kind = "legacy" THEN File("v3", Authority(p), f.run, TRUE, FALSE) ELSE f

\* The bug: the state saved replaces the one in the file.
mergeIncoming(f, p, run) == File("v3", Authority(p), run, FALSE, FALSE)

\* mergeStates(): the run of the file and the one to be saved.
mergeStates(f, p, run) ==
  IF f.kind = "missing" THEN File("v3", Authority(p), run, FALSE, FALSE)
  ELSE [f EXCEPT !.run = freshestRun(f.run, run), !.closed = FALSE]

-----------------------------------------------------------------------------
StateInit ==
  /\ disk \in {Missing, File("legacy", None, Run("needs_attention", 0), FALSE, TRUE)}
  /\ quarantine = {}
  /\ memory = [p \in Relays |-> IF p = Worker THEN Run("running", 0) ELSE None]
  /\ saving = [p \in Relays |-> "idle"] /\ job = [p \in Relays |-> None]
  /\ text = [p \in Relays |-> Missing]
  /\ holder = None /\ saved = None /\ mishaps = 0

Goes(p, from, to) == saving[p] = from /\ saving' = [saving EXCEPT ![p] = to]
Fault == mishaps < MaxMishaps /\ mishaps' = mishaps + 1

\* The run progresses, stalls, recovers from a stall, and ends.
Evolve ==
  /\ LET r == memory[Worker]
         next == {Run(s, n) : s \in Statuses, n \in {r.seq, r.seq + 1} \cap 0 .. MaxSeq}
     IN  /\ r.status \in {"running", "needs_attention"}
         /\ memory' \in {[memory EXCEPT ![Worker] = n] : n \in
              {n \in next : n # r /\ (r.status = "needs_attention" => n = Run("running", r.seq + 1))}}
  /\ UNCHANGED <<disk, quarantine, saving, job, text, holder, saved, mishaps>>

\* save() takes a copy of the state; the write waits for its turn and the lock.
Save(p) ==
  /\ memory[p] # None /\ Goes(p, "idle", "waiting")
  /\ job' = [job EXCEPT ![p] = memory[p]]
  /\ UNCHANGED <<disk, quarantine, memory, text, holder, saved, mishaps>>

Lock(p) ==
  /\ holder = None /\ holder' = p /\ Goes(p, "waiting", "reading")
  /\ UNCHANGED <<disk, quarantine, memory, job, text, saved, mishaps>>

\* The save returns, with or without an error, and the lock is released.
Ends(p) == /\ saving' = [saving EXCEPT ![p] = "idle"] /\ holder' = None
           /\ job' = [job EXCEPT ![p] = None] /\ text' = [text EXCEPT ![p] = Missing]

\* The bug: whatever cannot be used is quarantined.
ReadAnything(p) ==
  /\ Goes(p, "reading", "writing")
  /\ LET f == Normalized(p, disk)
         usable == f.kind = "missing" \/ (f.kind = "v3" /\ f.authority = Authority(p))
     IN  /\ text' = [text EXCEPT ![p] = mergeStates(IF usable THEN f ELSE Missing, p, job[p])]
         /\ IF usable THEN UNCHANGED <<disk, quarantine>>
            ELSE disk' = Missing /\ quarantine' = quarantine \cup {disk}
  /\ UNCHANGED <<memory, job, holder, saved, mishaps>>

\* readState(true): the invalid is quarantined, the foreign is an error.
Read(p) ==
  /\ saving[p] = "reading"
  /\ LET f == Normalized(p, disk)
     IN  IF f.kind = "v3" /\ f.authority # Authority(p)
         THEN Ends(p) /\ UNCHANGED <<disk, quarantine>>
         ELSE /\ saving' = [saving EXCEPT ![p] = "writing"]
              /\ text' = [text EXCEPT ![p] = mergeStates(IF f.kind = "invalid" THEN Missing ELSE f, p, job[p])]
              /\ IF f.kind = "invalid" THEN disk' = Missing /\ quarantine' = quarantine \cup {disk}
                 ELSE UNCHANGED <<disk, quarantine>>
              /\ UNCHANGED <<job, holder>>
  /\ UNCHANGED <<memory, saved, mishaps>>

\* migrateFrom(): a target that exists is an error.
Migrate(p) ==
  /\ saving[p] = "idle" /\ holder = None /\ disk.kind = "missing" /\ p # Foreign
  /\ holder' = p /\ saving' = [saving EXCEPT ![p] = "writing"]
  /\ text' = [text EXCEPT ![p] = File("v3", "own", Run("needs_attention", 0), TRUE, FALSE)]
  /\ UNCHANGED <<disk, quarantine, memory, job, saved, mishaps>>

\* The bug: the mode is set after the rename.
RestrictLater(p) ==
  /\ Goes(p, "writing", "restricted")
  /\ UNCHANGED <<disk, quarantine, memory, job, text, holder, saved, mishaps>>

\* atomicWriteJson(): the temporary file is restricted before the rename ...
Restrict(p) ==
  /\ Goes(p, "writing", "restricted") /\ text' = [text EXCEPT ![p].closed = TRUE]
  /\ UNCHANGED <<disk, quarantine, memory, job, holder, saved, mishaps>>

Rename(p) ==
  /\ Goes(p, "restricted", "renamed") /\ disk' = text[p]
  /\ UNCHANGED <<quarantine, memory, job, text, holder, saved, mishaps>>

\* ... and the directory is synchronised, and the lock released.
Done(p) ==
  /\ saving[p] = "renamed" /\ Ends(p)
  /\ saved' = IF job[p] = None \/ p # Worker THEN saved ELSE job[p]
  /\ UNCHANGED <<disk, quarantine, memory, mishaps>>

\* A step of the write throws, or the process dies; the lock is recovered.
Fails(p) ==
  /\ saving[p] \notin {"idle", "waiting"} /\ Fault /\ Ends(p)
  /\ UNCHANGED <<disk, quarantine, memory, saved>>

\* A process that has a copy of the run loads the state.
Loads(p) ==
  /\ p # Worker /\ memory[p] = None /\ disk.kind \in {"v3", "legacy"}
  /\ Normalized(p, disk).authority = Authority(p)
  /\ memory' = [memory EXCEPT ![p] = disk.run]
  /\ UNCHANGED <<disk, quarantine, saving, job, text, holder, saved, mishaps>>

\* Something else damages the file.
Damage ==
  /\ disk.kind = "v3" /\ Fault /\ disk' = [disk EXCEPT !.kind = "invalid"]
  /\ UNCHANGED <<quarantine, memory, saving, job, text, holder, saved>>

StateNext ==
  \/ Evolve \/ Damage
  \/ \E p \in Relays : \/ Save(p) \/ Lock(p) \/ Read(p) \/ Migrate(p) \/ Restrict(p) \/ Rename(p)
                       \/ Done(p) \/ Fails(p) \/ Loads(p)

StateSpec == StateInit /\ [][StateNext]_stateVars

-----------------------------------------------------------------------------
\* What a save has returned for is not lost to the save of a process with an
\* older copy, nor to a write that fails: an ended run stays ended on disk, and
\* the events it had seen are not forgotten but for the ones after a stall that
\* is still on disk.
SavedIsKept ==
  saved # None /\ quarantine = {} /\ disk.kind = "v3" =>
    /\ saved.status \in Terminal => disk.run = saved
    /\ saved.status \notin Terminal => disk.run.seq >= saved.seq \/ disk.run.status = "needs_attention"

\* "a failed ACL never swaps in an open file" (atomic-json-file.ts:25).
NeverOpen == disk.kind = "v3" => disk.closed

\* The file of one authority is neither overwritten nor quarantined by another,
\* and only what was damaged is quarantined.
ForeignIsRefused ==
  [][/\ disk.kind = "v3" /\ disk'.kind = "v3" => disk'.authority = disk.authority
     /\ quarantine' # quarantine => disk.kind = "invalid"]_stateVars

\* The marker of a migration stays while its file does.
MarkerStays == [][disk.kind = "v3" /\ disk.marked /\ disk'.kind = "v3" => disk'.marked]_stateVars
=============================================================================
