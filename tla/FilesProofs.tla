---------------------------- MODULE FilesProofs ----------------------------
(***************************************************************************)
(* Proofs about the protocols on files that MCFiles composes, for any       *)
(* number of processes, failures and crashes: the bearer token, the guard   *)
(* of the authority registry, the state file, the lock of a build and the   *)
(* lock whose recoverers hold no fence.                                     *)
(* Each part of the state space keeps the invariant of its protocol         *)
(* whether it moves or not.                                                 *)
(***************************************************************************)
EXTENDS MCFiles, TLAPS

-----------------------------------------------------------------------------
(* The bearer token: what the hard link publishes is whole, and it is what  *)
(* everyone is given.                                                      *)

TokenPlaces == {"start", "opened", "written", "linked", "late", "reading", "done", "failed"}

TokenTypes ==
  /\ tokenFile \in Procs \cup {None}
  /\ temp \in [Procs -> Procs \cup {None, "half"}]
  /\ tokenAt \in [Procs -> TokenPlaces]
  /\ token \in [Procs -> Procs \cup {None}]
  /\ tokenErrors \in Nat /\ removals \in Nat

\* What a process links is its own whole token; a process that came late has
\* found a token, which nobody but the user takes away.
Linking(p) ==
  /\ tokenAt[p] = "written" => temp[p] = p
  /\ tokenAt[p] = "linked" => removals > 0 \/ tokenFile = p
  /\ tokenAt[p] \in {"late", "reading"} => removals > 0 \/ tokenFile # None

TokenInv ==
  /\ TokenTypes
  /\ \A p \in Procs : Linking(p)
  /\ Tokens!OneToken /\ Tokens!TokenIsWhole /\ Tokens!NoLitter

\* "No token", and a file that is not yet written, are not tokens.
LEMMA TokensDiffer == None \notin Procs /\ "half" \notin Procs /\ None # "half"
BY FilesAssumption, FileLockAssumption

LEMMA TokenInitially == ASSUME Tokens!TokenInit PROVE TokenInv
BY TokensDiffer DEF Tokens!TokenInit, TokenInv, TokenTypes, TokenPlaces, Linking,
   Tokens!OneToken, Tokens!TokenIsWhole, Tokens!NoLitter, Tokens!Half

LEMMA TokenInductive ==
  ASSUME TokenInv, [Tokens!TokenNext]_tokenVars
  PROVE  TokenInv'
<1> USE TokensDiffer DEF TokenInv, TokenTypes, TokenPlaces, Linking, Tokens!OneToken,
        Tokens!TokenIsWhole, Tokens!NoLitter, Tokens!Goes, Tokens!Half
<1>1. ASSUME NEW p \in Procs, Tokens!Open(p) PROVE TokenInv'
  BY <1>1 DEF Tokens!Open
<1>2. ASSUME NEW p \in Procs, Tokens!Write(p) PROVE TokenInv'
  BY <1>2 DEF Tokens!Write
<1>3. ASSUME NEW p \in Procs, Tokens!Link(p) PROVE TokenInv'
  <2>1. CASE tokenFile = None
    BY <1>3, <2>1 DEF Tokens!Link
  <2>2. CASE tokenFile # None
    BY <1>3, <2>2 DEF Tokens!Link
  <2>3. QED BY <2>1, <2>2
<1>4. ASSUME NEW p \in Procs, Tokens!Unlink(p) PROVE TokenInv'
  BY <1>4 DEF Tokens!Unlink
<1>5. ASSUME NEW p \in Procs, Tokens!Fails(p) PROVE TokenInv'
  BY <1>5 DEF Tokens!Fails
<1>6. ASSUME NEW p \in Procs, Tokens!Late(p) PROVE TokenInv'
  BY <1>6 DEF Tokens!Late
<1>7. ASSUME NEW p \in Procs, Tokens!Read(p) PROVE TokenInv'
  BY <1>7 DEF Tokens!Read
<1>8. ASSUME Tokens!Remove PROVE TokenInv'
  BY <1>8 DEF Tokens!Remove
<1>9. CASE UNCHANGED tokenVars
  BY <1>9 DEF tokenVars
<1>10. QED
  BY <1>1, <1>2, <1>3, <1>4, <1>5, <1>6, <1>7, <1>8, <1>9 DEF Tokens!TokenNext

\* However many Hosts and proxies race for the first token, everyone who is given
\* one is given the one in the file, whole, nobody fails by the race itself, and
\* no copy of a token stays behind (token-store-facade.ts:13-52).
THEOREM TokenShared == FilesSpec => []TokenIsShared
<1>1. FilesInit => TokenInv
  BY TokenInitially DEF FilesInit
<1>2. TokenInv /\ [FilesNext]_filesVars => TokenInv'
  <2>1. [FilesNext]_filesVars => [Tokens!TokenNext]_tokenVars
    BY DEF FilesNext, Frame, filesVars
  <2>2. QED BY <2>1, TokenInductive
<1>3. TokenInv => TokenIsShared
  BY DEF TokenInv, TokenIsShared
<1>4. QED BY <1>1, <1>2, <1>3, PTL DEF FilesSpec

-----------------------------------------------------------------------------
(* The guard of the authority registry: while no reclaim has displaced a    *)
(* guard it had not read, the guard file excludes, and the owner record is  *)
(* true to the leases.                                                     *)

GuardPlaces == {"idle", "timedOut", "reclaim", "compare", "over"} \cup Registry!Guarded

GuardTypes ==
  /\ guard \in Procs \cup {None} /\ tombstone \in [Procs -> Procs \cup {None}]
  /\ owner \in [by : Procs \cup {None}, epoch : Nat]
  /\ alive \in [Procs -> BOOLEAN] /\ at \in [Procs -> GuardPlaces]
  /\ purpose \in [Procs -> {"acquire", "hold", "release"}]
  /\ seen \in [Procs -> Procs \cup {None}]
  /\ base \in [Procs -> Nat] /\ lease \in [Procs -> Nat]
  /\ displaced \in BOOLEAN

\* The guard file is that of the living process at work on the owner record.
Exclusive == \A p \in Procs : alive[p] /\ at[p] \in Registry!Guarded => guard = p

\* A reclaim moves the guard of a process that is dead for good.
Reclaims ==
  \A p \in Procs :
    /\ at[p] = "reclaim" => seen[p] \in Procs /\ ~alive[seen[p]]
    /\ at[p] = "compare" => tombstone[p] = seen[p]

Mine(p) == [by |-> p, epoch |-> lease[p]]

\* What a living process knows of the owner record stays true under its guard.
Known(p) ==
  /\ at[p] = "write" => Registry!MayTake /\ purpose[p] = "acquire"
  /\ at[p] = "unlinkOwner" => owner = Mine(p) /\ purpose[p] = "release"
  /\ purpose[p] = "hold" => at[p] = "idle" /\ owner = Mine(p)
  /\ purpose[p] = "acquire" /\ lease[p] # 0 => at[p] \in {"unguard", "unlink"} /\ owner = Mine(p)

GuardInv ==
  /\ GuardTypes
  /\ ~displaced =>
       /\ Exclusive /\ Reclaims /\ Registry!GuardHasKeeper
       /\ \A p \in Procs : alive[p] => Known(p)

LEMMA GuardInitially == ASSUME Registry!GuardInit PROVE GuardInv
BY FileLockAssumption DEF Registry!GuardInit, GuardInv, GuardTypes, GuardPlaces, Registry!Guarded,
   Registry!NoOwner, Exclusive, Reclaims, Registry!GuardHasKeeper, Known

LEMMA GuardInductive ==
  ASSUME GuardInv, [Registry!GuardNext]_guardVars
  PROVE  GuardInv'
<1> USE FileLockAssumption DEF GuardInv, GuardTypes, GuardPlaces, Registry!Guarded, Exclusive,
        Reclaims, Registry!GuardHasKeeper, Known, Mine, Registry!MayTake, Registry!To,
        Registry!UnchangedOwner, Registry!UnchangedReclaim
<1>1. ASSUME NEW p \in Procs, alive[p], purpose[p] # "hold", Registry!LinkGuard(p) PROVE GuardInv'
  BY <1>1 DEF Registry!LinkGuard
<1>2. ASSUME NEW p \in Procs, alive[p], purpose[p] # "hold", Registry!Occupied(p) PROVE GuardInv'
  BY <1>2 DEF Registry!Occupied
<1>3. ASSUME NEW p \in Procs, alive[p], Registry!Reclaim(p) PROVE GuardInv'
  BY <1>3 DEF Registry!Reclaim
<1>4. ASSUME NEW p \in Procs, alive[p], Registry!CompareTombstone(p) PROVE GuardInv'
  BY <1>4 DEF Registry!CompareTombstone
<1>5. ASSUME NEW p \in Procs, alive[p], Registry!ReadOwner(p) PROVE GuardInv'
  BY <1>5 DEF Registry!ReadOwner
<1>6. ASSUME NEW p \in Procs, alive[p], Registry!WriteOwner(p) PROVE GuardInv'
  BY <1>6 DEF Registry!WriteOwner
<1>7. ASSUME NEW p \in Procs, alive[p], Registry!UnlinkOwner(p) PROVE GuardInv'
  BY <1>7 DEF Registry!UnlinkOwner, Registry!NoOwner
<1>8. ASSUME NEW p \in Procs, alive[p], Registry!Unguard(p) PROVE GuardInv'
  BY <1>8 DEF Registry!Unguard
<1>9. ASSUME NEW p \in Procs, alive[p], Registry!Release(p) PROVE GuardInv'
  BY <1>9 DEF Registry!Release
<1>10. ASSUME NEW p \in Procs, Registry!Crash(p) PROVE GuardInv'
  BY <1>10 DEF Registry!Crash
<1>11. CASE UNCHANGED guardVars
  BY <1>11 DEF guardVars
<1>12. QED
  BY <1>1, <1>2, <1>3, <1>4, <1>5, <1>6, <1>7, <1>8, <1>9, <1>10, <1>11 DEF Registry!GuardNext

\* Two Hosts are never both the authority, whoever dies or fails to write, and a
\* living process removes the guard it has published, while no reclaim has taken
\* away a guard other than the one it had read (registry-guard.ts:18-100).
THEOREM AuthorityGuarded == FilesSpec => []AuthorityIsGuarded
<1>1. FilesInit => GuardInv
  BY GuardInitially DEF FilesInit
<1>2. GuardInv /\ [FilesNext]_filesVars => GuardInv'
  <2>1. [FilesNext]_filesVars => [Registry!GuardNext]_guardVars
    BY DEF FilesNext, Frame, filesVars
  <2>2. QED BY <2>1, GuardInductive
<1>3. GuardInv => AuthorityIsGuarded
  BY DEF GuardInv, Known, Mine, Registry!LeaseIsRecorded, Registry!GuardHasKeeper, AuthorityIsGuarded
<1>4. QED BY <1>1, <1>2, <1>3, PTL DEF FilesSpec

-----------------------------------------------------------------------------
(* The state file.  Every copy of the run is one of its past, so that the   *)
(* merge of two copies forgets nothing that either had ended with.          *)

RunSet  == [status : State!Statuses, seq : Nat]
FileSet == [kind : {"missing", "legacy", "v3", "invalid"}, authority : {None, "own", "other"},
            run : RunSet \cup {None}, marked : BOOLEAN, closed : BOOLEAN]

StateTypes ==
  /\ disk \in FileSet /\ text \in [Relays -> FileSet]
  /\ memory \in [Relays -> RunSet \cup {None}] /\ memory[Worker] \in RunSet
  /\ job \in [Relays -> RunSet \cup {None}] /\ saved \in RunSet \cup {None}
  /\ saving \in [Relays -> {"idle", "waiting", "reading", "writing", "restricted", "renamed"}]
  /\ holder \in Relays \cup {None}

\* A copy of the run, as it is in its process or was earlier.
Older(c) == /\ c \in RunSet /\ c.seq <= memory[Worker].seq
            /\ c.status \in State!Terminal => c = memory[Worker]

\* What is to be kept of old is in c.
Keeps(old, c) ==
  /\ old.status \in State!Terminal => c = old
  /\ old.status \notin State!Terminal => c.seq >= old.seq \/ c.status = "needs_attention"

Writing(p) == saving[p] \in {"writing", "restricted", "renamed"}

\* Every copy is older than the run.
CopiesInv ==
  /\ disk.kind # "missing" => Older(disk.run)
  /\ saved # None => Older(saved)
  /\ \A p \in Relays : /\ memory[p] # None => Older(memory[p])
                       /\ job[p] # None => Older(job[p])
                       /\ Writing(p) => Older(text[p].run)

\* One save at a time is between the lock and its release.
SavesInv ==
  \A p \in Relays :
    /\ saving[p] \notin {"idle", "waiting"} => holder = p
    /\ saving[p] \in {"waiting", "reading"} => job[p] # None
    /\ saving[p] = "idle" => job[p] = None
    /\ Writing(p) => text[p].kind = "v3" /\ text[p].authority = State!Authority(p)
    /\ saving[p] \in {"restricted", "renamed"} => text[p].closed
    /\ saving[p] = "renamed" => disk = text[p] \/ disk.kind = "invalid"

\* A save replaces the file of its own authority only, and keeps its marker.
OwnInv ==
  \A p \in Relays : saving[p] \in {"writing", "restricted"} /\ disk.kind = "v3" =>
    /\ disk.authority = State!Authority(p)
    /\ disk.marked => text[p].marked

\* What a save returned for is in the file, and in what will replace it.
KeptInv ==
  /\ saved # None /\ quarantine = {} =>
       /\ disk.kind \in {"v3", "invalid"}
       /\ disk.kind = "v3" => disk.authority = "own" /\ Keeps(saved, disk.run)
       /\ \A p \in Relays : Writing(p) => p # Foreign /\ Keeps(saved, text[p].run)
  /\ Writing(Worker) /\ job[Worker] # None => Keeps(job[Worker], text[Worker].run)

FileInv == StateTypes /\ CopiesInv /\ SavesInv /\ OwnInv /\ KeptInv /\ State!NeverOpen

\* freshestRun() returns one of two copies, and keeps what either has.
LEMMA FreshestKeeps ==
  ASSUME memory[Worker] \in RunSet, NEW l, NEW r, Older(l), Older(r)
  PROVE  LET f == State!freshestRun(l, r) IN
         /\ f \in {l, r} /\ Keeps(r, f)
         /\ \A s : Older(s) /\ Keeps(s, l) => Keeps(s, f)
<1> DEFINE f == State!freshestRun(l, r)
<1> USE DEF State!Terminal, State!Stable, State!Statuses
<1>1. f \in {l, r} BY DEF State!freshestRun
<1>2. f = l => State!KeepsLeft(l, r) \/ l = r BY DEF State!freshestRun
<1>3. f = r => ~State!KeepsLeft(l, r) \/ l = r BY DEF State!freshestRun
<1> HIDE DEF f
<1>4. Keeps(r, f)
  BY <1>1, <1>2 DEF State!KeepsLeft, Keeps, Older, RunSet
<1>5. ASSUME NEW s, Older(s), Keeps(s, l) PROVE Keeps(s, f)
  BY <1>1, <1>3, <1>5 DEF State!KeepsLeft, Keeps, Older, RunSet
<1>6. QED BY <1>1, <1>4, <1>5 DEF f

LEMMA FileInitially == ASSUME State!StateInit PROVE FileInv
<1> USE FilesAssumption DEF State!StateInit
<1> DEFINE legacy == State!File("legacy", None, State!Run("needs_attention", 0), FALSE, TRUE)
<1>1. /\ State!Missing \in FileSet /\ State!Missing.kind = "missing"
      /\ legacy \in FileSet /\ legacy.kind = "legacy" /\ legacy.run = State!Run("needs_attention", 0)
  BY DEF State!Missing, State!File, State!Run, FileSet, RunSet, State!Statuses
<1> HIDE DEF legacy
<1>0. disk \in {State!Missing, legacy} BY DEF legacy
<1>2. /\ State!Run("needs_attention", 0) \in RunSet /\ State!Run("needs_attention", 0).seq = 0
      /\ State!Run("needs_attention", 0).status = "needs_attention"
      /\ memory[Worker] \in RunSet /\ memory[Worker].seq = 0 /\ memory[Worker].status = "running"
  BY DEF State!Run, RunSet, State!Statuses
<1>3. memory \in [Relays -> RunSet \cup {None}] /\ \A p \in Relays : memory[p] # None => p = Worker
  BY <1>2
<1>4. StateTypes BY <1>0, <1>1, <1>2, <1>3 DEF StateTypes
<1>5. CopiesInv BY <1>0, <1>1, <1>2, <1>3 DEF CopiesInv, Older, State!Terminal, Writing
<1>6. SavesInv /\ OwnInv /\ KeptInv /\ State!NeverOpen
  BY <1>0, <1>1 DEF SavesInv, OwnInv, KeptInv, State!NeverOpen, Writing
<1>7. QED BY <1>4, <1>5, <1>6 DEF FileInv

LEMMA EvolvePreserves == ASSUME FileInv, State!Evolve PROVE FileInv'
<1> USE FilesAssumption DEF FileInv, State!Evolve
<1>1. /\ memory[Worker].status \notin State!Terminal
      /\ memory'[Worker] \in RunSet /\ memory'[Worker].seq >= memory[Worker].seq
      /\ \A p \in Relays \ {Worker} : memory'[p] = memory[p]
      /\ memory' \in [Relays -> RunSet \cup {None}]
  BY DEF StateTypes, RunSet, State!Run, State!Statuses, State!Terminal
<1>2. StateTypes' BY <1>1 DEF StateTypes
<1>3. \A c : Older(c) => Older(c)' BY <1>1 DEF Older, StateTypes, RunSet
<1>4. Older(memory[Worker])' BY <1>1 DEF Older, RunSet
<1>5. CopiesInv' BY <1>1, <1>3, <1>4 DEF CopiesInv, Writing
<1>6. (SavesInv /\ OwnInv /\ KeptInv /\ State!NeverOpen)'
  BY DEF SavesInv, OwnInv, KeptInv, State!NeverOpen, Writing, Keeps
<1>7. QED BY <1>2, <1>5, <1>6

LEMMA SavePreserves == ASSUME FileInv, NEW p \in Relays, State!Save(p) \/ State!Lock(p) PROVE FileInv'
<1> USE FilesAssumption DEF FileInv, State!Save, State!Lock, State!Goes
<1>1. StateTypes' BY DEF StateTypes
<1>2. CopiesInv' BY DEF CopiesInv, Older, Writing, StateTypes
<1>3. SavesInv' BY DEF SavesInv, Writing, StateTypes
<1>4. (OwnInv /\ KeptInv /\ State!NeverOpen)'
  BY DEF OwnInv, KeptInv, State!NeverOpen, Writing, Keeps, StateTypes
<1>5. QED BY <1>1, <1>2, <1>3, <1>4

\* The end of a save, with nothing written since.
LEMMA EndsPreserves ==
  ASSUME FileInv, NEW p \in Relays, saving[p] \notin {"idle", "waiting"}, State!Ends(p),
         disk' = disk, memory' = memory, quarantine' = quarantine, saved' = saved
  PROVE  FileInv'
<1> USE FilesAssumption DEF FileInv, State!Ends
<1>1. StateTypes' BY DEF StateTypes, State!Missing, State!File, FileSet
<1>2. CopiesInv'
  <2>1. \A c : Older(c)' <=> Older(c) BY DEF Older
  <2>2. \A q \in Relays : /\ Writing(q)' => Writing(q) /\ text'[q] = text[q]
                          /\ job'[q] # None => job'[q] = job[q]
    BY DEF Writing, StateTypes
  <2>3. QED BY <2>1, <2>2 DEF CopiesInv
<1>3. SavesInv' BY DEF SavesInv, Writing, StateTypes
<1>4. (OwnInv /\ KeptInv /\ State!NeverOpen)'
  BY DEF OwnInv, KeptInv, State!NeverOpen, Writing, Keeps, StateTypes
<1>5. QED BY <1>1, <1>2, <1>3, <1>4

\* What p will write when it has read the file.
Merged(p) == LET f == State!Normalized(p, disk)
             IN  State!mergeStates(IF f.kind = "invalid" THEN State!Missing ELSE f, p, job[p])

LEMMA MergedIs ==
  ASSUME FileInv, NEW p \in Relays, saving[p] = "reading",
         disk.kind = "v3" => disk.authority = State!Authority(p)
  PROVE  /\ Merged(p) \in FileSet /\ Merged(p).kind = "v3"
         /\ Merged(p).authority = State!Authority(p)
         /\ disk.kind = "v3" /\ disk.marked => Merged(p).marked
         /\ Older(Merged(p).run) /\ Keeps(job[p], Merged(p).run)
         /\ disk.kind \in {"v3", "legacy"} =>
              \A s : Older(s) /\ Keeps(s, disk.run) => Keeps(s, Merged(p).run)
<1> DEFINE f == State!freshestRun(disk.run, job[p])
<1>1. disk \in FileSet /\ job[p] \in RunSet /\ Older(job[p]) /\ Keeps(job[p], job[p])
  BY DEF FileInv, StateTypes, CopiesInv, SavesInv, Older, Keeps, RunSet
<1>2. State!Authority(p) \in {"own", "other"} BY DEF State!Authority
<1>3. CASE disk.kind \in {"missing", "invalid"}
  <2>1. Merged(p) = [kind |-> "v3", authority |-> State!Authority(p), run |-> job[p], marked |-> FALSE, closed |-> FALSE]
    BY <1>3 DEF Merged, State!Normalized, State!mergeStates, State!Missing, State!File
  <2>2. QED BY <1>1, <1>2, <1>3, <2>1 DEF FileSet
<1>4. CASE disk.kind \in {"v3", "legacy"}
  <2>1. Older(disk.run) BY <1>4 DEF FileInv, CopiesInv
  <2>2. Older(f) /\ Keeps(job[p], f) /\ \A s : Older(s) /\ Keeps(s, disk.run) => Keeps(s, f)
    BY <1>1, <2>1, FreshestKeeps DEF FileInv, StateTypes
  <2>3. f \in RunSet BY <2>2 DEF Older
  <2>4. \E b \in BOOLEAN :
          /\ Merged(p) = [kind |-> "v3", authority |-> State!Authority(p), run |-> f, marked |-> b, closed |-> FALSE]
          /\ disk.kind = "v3" => b = disk.marked
    <3>1. CASE disk.kind = "v3"
      <4>1. State!Normalized(p, disk) = disk BY <3>1 DEF State!Normalized
      <4>2. Merged(p) = [disk EXCEPT !.run = f, !.closed = FALSE]
        BY <3>1, <4>1 DEF Merged, State!mergeStates
      <4>3. QED BY <1>1, <3>1, <4>2 DEF FileSet
    <3>2. CASE disk.kind = "legacy"
      <4> DEFINE g == [kind |-> "v3", authority |-> State!Authority(p), run |-> disk.run, marked |-> TRUE, closed |-> FALSE]
      <4>1. State!Normalized(p, disk) = g BY <3>2 DEF State!Normalized, State!File
      <4>2. Merged(p) = [g EXCEPT !.run = f, !.closed = FALSE]
        BY <4>1 DEF Merged, State!mergeStates
      <4>3. QED BY <3>2, <4>2
    <3>3. QED BY <1>4, <3>1, <3>2
  <2> HIDE DEF f
  <2>5. QED BY <1>2, <1>4, <2>2, <2>3, <2>4 DEF FileSet
<1>5. QED BY <1>1, <1>3, <1>4 DEF FileSet

LEMMA ReadPreserves == ASSUME FileInv, NEW p \in Relays, State!Read(p) PROVE FileInv'
<1> USE FilesAssumption
<1>1. saving[p] = "reading" /\ memory' = memory /\ saved' = saved /\ disk \in FileSet
  BY DEF State!Read, FileInv, StateTypes
<1>2. CASE disk.kind = "v3" /\ disk.authority # State!Authority(p)
  <2>1. State!Ends(p) /\ disk' = disk /\ quarantine' = quarantine
    BY <1>2 DEF State!Read, State!Normalized
  <2>2. QED BY <1>1, <2>1, EndsPreserves
<1>3. CASE disk.kind = "v3" => disk.authority = State!Authority(p)
  <2> DEFINE f == State!Normalized(p, disk)
  <2>1. /\ f.kind = "invalid" <=> disk.kind = "invalid"
        /\ ~(f.kind = "v3" /\ f.authority # State!Authority(p))
    BY <1>3 DEF State!Normalized, State!File
  <2>2. /\ saving' = [saving EXCEPT ![p] = "writing"]
        /\ text' = [text EXCEPT ![p] = Merged(p)]
        /\ job' = job /\ holder' = holder
        /\ disk.kind = "invalid" => disk' = State!Missing /\ quarantine' = quarantine \cup {disk}
        /\ disk.kind # "invalid" => disk' = disk /\ quarantine' = quarantine
    BY <1>3, <2>1 DEF State!Read, Merged
  <2> HIDE DEF f
  <2>3. /\ Merged(p) \in FileSet /\ Merged(p).kind = "v3" /\ Merged(p).authority = State!Authority(p)
        /\ disk.kind = "v3" /\ disk.marked => Merged(p).marked
        /\ Older(Merged(p).run) /\ Keeps(job[p], Merged(p).run)
        /\ disk.kind \in {"v3", "legacy"} =>
             \A s : Older(s) /\ Keeps(s, disk.run) => Keeps(s, Merged(p).run)
    BY <1>1, <1>3, MergedIs
  <2>4. State!Missing \in FileSet /\ State!Missing.kind = "missing" BY DEF State!Missing, State!File, FileSet
  <2>5. \A c : Older(c)' <=> Older(c) BY <1>1 DEF Older
  <2>6. \A q \in Relays \ {p} : Writing(q)' = Writing(q) /\ text'[q] = text[q] /\ saving'[q] = saving[q]
    BY <2>2 DEF Writing, FileInv, StateTypes
  <2>7. text'[p] = Merged(p) /\ saving'[p] = "writing"
    BY <2>2 DEF FileInv, StateTypes
  <2>8. \A q \in Relays \ {p} : saving[q] \in {"idle", "waiting"} /\ ~Writing(q)
    BY <1>1 DEF FileInv, SavesInv, StateTypes, Writing
  <2>9. StateTypes' BY <1>1, <2>2, <2>3, <2>4 DEF FileInv, StateTypes
  <2>10. CopiesInv'
    BY <1>1, <2>2, <2>3, <2>4, <2>5, <2>6, <2>7 DEF FileInv, CopiesInv
  <2>11. SavesInv'
    BY <1>1, <2>2, <2>3, <2>6, <2>7, <2>8 DEF FileInv, SavesInv, State!Authority, Writing
  <2>12. OwnInv' /\ State!NeverOpen'
    BY <1>1, <1>3, <2>2, <2>3, <2>4, <2>6, <2>7, <2>8 DEF FileInv, OwnInv, State!NeverOpen, State!Authority, Writing
  <2>13. KeptInv'
    <3>1. ASSUME saved # None, quarantine' = {} PROVE p # Foreign /\ Keeps(saved, Merged(p).run) /\ disk' = disk /\ quarantine = {}
      BY <1>1, <1>3, <2>2, <2>3, <3>1 DEF FileInv, KeptInv, CopiesInv, State!Authority
    <3>2. \A old, c : Keeps(old, c)' <=> Keeps(old, c) BY DEF Keeps
    <3>3. QED BY <1>1, <2>2, <2>3, <2>6, <2>7, <2>8, <3>1, <3>2 DEF FileInv, KeptInv
  <2>14. QED BY <2>9, <2>10, <2>11, <2>12, <2>13 DEF FileInv
<1>4. QED BY <1>2, <1>3

LEMMA MigratePreserves == ASSUME FileInv, NEW p \in Relays, State!Migrate(p) PROVE FileInv'
<1> USE FilesAssumption
<1> DEFINE t == State!File("v3", "own", State!Run("needs_attention", 0), TRUE, FALSE)
<1>1. /\ t \in FileSet /\ t.kind = "v3" /\ t.authority = "own" /\ t.marked /\ t.run \in RunSet
      /\ t.run.seq = 0 /\ t.run.status = "needs_attention"
  BY DEF State!File, State!Run, FileSet, RunSet, State!Statuses
<1> HIDE DEF t
<1>2. /\ saving' = [saving EXCEPT ![p] = "writing"] /\ text' = [text EXCEPT ![p] = t] /\ holder' = p
      /\ saving[p] = "idle" /\ holder = None /\ disk.kind = "missing" /\ p # Foreign
      /\ disk' = disk /\ quarantine' = quarantine /\ memory' = memory /\ job' = job /\ saved' = saved
  BY DEF State!Migrate, t
<1>3. Older(t.run)
  BY <1>1 DEF FileInv, StateTypes, Older, State!Terminal, RunSet
<1>4. \A c : Older(c)' <=> Older(c) BY <1>2 DEF Older
<1>5. \A q \in Relays : saving[q] \in {"idle", "waiting"} /\ ~Writing(q)
  BY <1>2 DEF FileInv, SavesInv, StateTypes, Writing
<1>6. \A q \in Relays \ {p} : ~Writing(q)' /\ saving'[q] = saving[q]
  BY <1>2, <1>5 DEF FileInv, StateTypes, Writing
<1>7. text'[p] = t /\ saving'[p] = "writing" BY <1>2 DEF FileInv, StateTypes
<1>8. StateTypes' BY <1>1, <1>2 DEF FileInv, StateTypes
<1>9. CopiesInv' BY <1>2, <1>3, <1>4, <1>6, <1>7 DEF FileInv, CopiesInv
<1>10. SavesInv' BY <1>1, <1>2, <1>5, <1>6, <1>7 DEF FileInv, SavesInv, State!Authority, Writing
<1>11. OwnInv' /\ State!NeverOpen' BY <1>2, <1>5, <1>6 DEF FileInv, OwnInv, State!NeverOpen
<1>12. KeptInv' BY <1>1, <1>2, <1>6, <1>7 DEF FileInv, SavesInv, KeptInv, Keeps
<1>13. QED BY <1>8, <1>9, <1>10, <1>11, <1>12 DEF FileInv

LEMMA RestrictPreserves == ASSUME FileInv, NEW p \in Relays, State!Restrict(p) PROVE FileInv'
<1> USE FilesAssumption
<1>1. /\ saving[p] = "writing" /\ saving' = [saving EXCEPT ![p] = "restricted"] /\ text[p] \in FileSet
      /\ disk' = disk /\ quarantine' = quarantine /\ memory' = memory /\ job' = job
      /\ saved' = saved /\ holder' = holder
  BY DEF State!Restrict, State!Goes, FileInv, StateTypes
<1> DEFINE t == [text[p] EXCEPT !.closed = TRUE]
<1>2. /\ t \in FileSet /\ t.kind = text[p].kind /\ t.authority = text[p].authority
      /\ t.run = text[p].run /\ t.marked = text[p].marked /\ t.closed
  BY <1>1 DEF FileSet
<1>3. text' = [text EXCEPT ![p] = t] BY DEF State!Restrict
<1> HIDE DEF t
<1>4. \A q \in Relays : Writing(q)' = Writing(q) /\ text'[q].run = text[q].run
  BY <1>1, <1>2, <1>3 DEF FileInv, StateTypes, Writing
<1>5. \A c : Older(c)' <=> Older(c) BY <1>1 DEF Older
<1>6. text'[p] = t /\ saving'[p] = "restricted" /\ \A q \in Relays \ {p} : text'[q] = text[q] /\ saving'[q] = saving[q]
  BY <1>1, <1>3 DEF FileInv, StateTypes
<1>7. StateTypes' BY <1>1, <1>2, <1>3 DEF FileInv, StateTypes
<1>8. CopiesInv' BY <1>1, <1>4, <1>5 DEF FileInv, CopiesInv
<1>9. SavesInv' BY <1>1, <1>2, <1>4, <1>6 DEF FileInv, SavesInv, State!Authority, Writing
<1>10. OwnInv' /\ State!NeverOpen' BY <1>1, <1>2, <1>6 DEF FileInv, OwnInv, State!NeverOpen, State!Authority
<1>11. KeptInv' BY <1>1, <1>4 DEF FileInv, KeptInv, Keeps
<1>12. QED BY <1>7, <1>8, <1>9, <1>10, <1>11 DEF FileInv

LEMMA RenamePreserves == ASSUME FileInv, NEW p \in Relays, State!Rename(p) PROVE FileInv'
<1> USE FilesAssumption
<1>1. /\ saving[p] = "restricted" /\ saving' = [saving EXCEPT ![p] = "renamed"] /\ disk' = text[p]
      /\ text' = text /\ quarantine' = quarantine /\ memory' = memory /\ job' = job
      /\ saved' = saved /\ holder' = holder /\ text[p] \in FileSet
  BY DEF State!Rename, State!Goes, FileInv, StateTypes
<1>2. \A q \in Relays : Writing(q)' = Writing(q)
  BY <1>1 DEF FileInv, StateTypes, Writing
<1>3. \A q \in Relays \ {p} : saving[q] \in {"idle", "waiting"} /\ saving'[q] = saving[q]
  BY <1>1 DEF FileInv, SavesInv, StateTypes
<1>4. \A c : Older(c)' <=> Older(c) BY <1>1 DEF Older
<1>5. /\ Writing(p) /\ text[p].kind = "v3" /\ text[p].authority = State!Authority(p) /\ text[p].closed
      /\ saving'[p] = "renamed"
  BY <1>1 DEF FileInv, SavesInv, Writing, StateTypes
<1>6. StateTypes' BY <1>1 DEF FileInv, StateTypes
<1>7. CopiesInv' BY <1>1, <1>2, <1>4, <1>5 DEF FileInv, CopiesInv
<1>8. SavesInv' BY <1>1, <1>2, <1>3, <1>5 DEF FileInv, SavesInv, State!Authority, Writing
<1>9. OwnInv' /\ State!NeverOpen' BY <1>1, <1>3, <1>5 DEF FileInv, OwnInv, State!NeverOpen
<1>10. KeptInv' BY <1>1, <1>2, <1>5 DEF FileInv, KeptInv, Keeps, State!Authority
<1>11. QED BY <1>6, <1>7, <1>8, <1>9, <1>10 DEF FileInv

\* A save of the Worker that returns has what it saved in the file.
LEMMA DonePreserves == ASSUME FileInv, NEW p \in Relays, State!Done(p) PROVE FileInv'
<1> USE FilesAssumption
<1>1. /\ saving[p] = "renamed" /\ State!Ends(p) /\ disk' = disk /\ quarantine' = quarantine /\ memory' = memory
      /\ saved' = IF job[p] = None \/ p # Worker THEN saved ELSE job[p]
  BY DEF State!Done
<1>2. CASE saved' = saved BY <1>1, <1>2, EndsPreserves
<1>3. CASE p = Worker /\ job[p] # None /\ saved' = job[p]
  <2>1. \A q \in Relays : /\ Writing(q)' => q # p /\ Writing(q) /\ text'[q] = text[q]
                          /\ job'[q] # None => job'[q] = job[q] /\ q # p
                          /\ q # p => saving'[q] = saving[q] /\ text'[q] = text[q] /\ job'[q] = job[q]
    BY <1>1 DEF Writing, FileInv, StateTypes, State!Ends
  <2>2. \A q \in Relays \ {p} : saving[q] \in {"idle", "waiting"} /\ ~Writing(q)
    BY <1>1 DEF FileInv, SavesInv, StateTypes, Writing
  <2>3. \A c : Older(c)' <=> Older(c) BY <1>1 DEF Older
  <2>4. Older(job[p]) /\ job[p] \in RunSet /\ saving'[p] = "idle"
    BY <1>1, <1>3 DEF FileInv, CopiesInv, Older, State!Ends, StateTypes
  <2>5. StateTypes' BY <1>1, <1>3, <2>4 DEF FileInv, StateTypes, State!Ends, State!Missing, State!File, FileSet
  <2>6. CopiesInv' BY <1>1, <1>3, <2>1, <2>3, <2>4 DEF FileInv, CopiesInv
  <2>7. SavesInv' BY <1>1, <2>1, <2>2, <2>4 DEF FileInv, SavesInv, Writing
  <2>8. OwnInv' /\ State!NeverOpen' BY <1>1, <2>1, <2>2, <2>4 DEF FileInv, OwnInv, State!NeverOpen
  <2>9. \A q \in Relays : ~Writing(q)' BY <2>1, <2>2
  <2>10. disk.kind \in {"v3", "invalid"} /\ (disk.kind = "v3" => disk.authority = "own" /\ Keeps(job[p], disk.run))
    BY <1>1, <1>3 DEF FileInv, SavesInv, KeptInv, Writing, State!Authority
  <2>11. KeptInv' BY <1>1, <1>3, <2>9, <2>10 DEF KeptInv, Keeps
  <2>12. QED BY <2>5, <2>6, <2>7, <2>8, <2>11 DEF FileInv
<1>4. QED BY <1>1, <1>2, <1>3

LEMMA LoadsPreserves == ASSUME FileInv, NEW p \in Relays, State!Loads(p) PROVE FileInv'
<1> USE FilesAssumption
<1>1. /\ p # Worker /\ disk.kind \in {"v3", "legacy"} /\ memory' = [memory EXCEPT ![p] = disk.run]
      /\ disk' = disk /\ quarantine' = quarantine /\ saving' = saving /\ job' = job /\ text' = text
      /\ holder' = holder /\ saved' = saved
  BY DEF State!Loads
<1>2. memory'[Worker] = memory[Worker] /\ disk.run \in RunSet
  BY <1>1 DEF FileInv, StateTypes, CopiesInv, Older
<1>3. \A c : Older(c)' <=> Older(c) BY <1>2 DEF Older
<1>4. StateTypes' BY <1>1, <1>2 DEF FileInv, StateTypes
<1>5. CopiesInv' BY <1>1, <1>3 DEF FileInv, CopiesInv, Writing, StateTypes
<1>6. (SavesInv /\ OwnInv /\ KeptInv /\ State!NeverOpen)'
  BY <1>1 DEF FileInv, SavesInv, OwnInv, KeptInv, State!NeverOpen, Writing, Keeps
<1>7. QED BY <1>4, <1>5, <1>6 DEF FileInv

LEMMA DamagePreserves == ASSUME FileInv, State!Damage PROVE FileInv'
<1>1. /\ disk.kind = "v3" /\ disk' = [disk EXCEPT !.kind = "invalid"] /\ disk \in FileSet
      /\ memory' = memory /\ quarantine' = quarantine /\ saving' = saving /\ job' = job /\ text' = text
      /\ holder' = holder /\ saved' = saved
  BY DEF State!Damage, FileInv, StateTypes
<1>2. disk' \in FileSet /\ disk'.kind = "invalid" /\ disk'.run = disk.run BY <1>1 DEF FileSet
<1>3. StateTypes' BY <1>1, <1>2 DEF FileInv, StateTypes
<1>4. CopiesInv' BY <1>1, <1>2 DEF FileInv, CopiesInv, Writing, Older
<1>5. (SavesInv /\ OwnInv /\ KeptInv /\ State!NeverOpen)'
  BY <1>1, <1>2 DEF FileInv, SavesInv, OwnInv, KeptInv, State!NeverOpen, Writing, Keeps
<1>6. QED BY <1>3, <1>4, <1>5 DEF FileInv

LEMMA FileInductive ==
  ASSUME FileInv, [State!StateNext]_stateVars
  PROVE  FileInv'
<1>1. ASSUME NEW p \in Relays, State!Fails(p) PROVE FileInv'
  BY <1>1, EndsPreserves DEF State!Fails
<1>2. CASE UNCHANGED stateVars
  BY <1>2 DEF stateVars, FileInv, StateTypes, CopiesInv, SavesInv, OwnInv, KeptInv, State!NeverOpen,
     Writing, Older, Keeps
<1>3. QED
  BY <1>1, <1>2, EvolvePreserves, DamagePreserves, SavePreserves, ReadPreserves, MigratePreserves,
     RestrictPreserves, RenamePreserves, DonePreserves, LoadsPreserves DEF State!StateNext

LEMMA FileAlways == FilesSpec => []FileInv
<1>1. FilesInit => FileInv
  BY FileInitially DEF FilesInit
<1>2. FileInv /\ [FilesNext]_filesVars => FileInv'
  <2>1. [FilesNext]_filesVars => [State!StateNext]_stateVars
    BY DEF FilesNext, Frame, filesVars
  <2>2. QED BY <2>1, FileInductive
<1>3. QED BY <1>1, <1>2, PTL DEF FilesSpec

\* What a save returned for is not undone by the save of a process with an older
\* copy, nor by a write that fails, and the file is never readable by others
\* (state-store.ts, run-merge.ts, atomic-json-file.ts).
THEOREM StateKept == FilesSpec => []StateIsKept
<1>1. FileInv => StateIsKept
  BY DEF FileInv, KeptInv, Keeps, StateIsKept, State!SavedIsKept
<1>2. QED BY <1>1, FileAlways, PTL

\* The file of one authority is neither overwritten nor quarantined by another,
\* and a migrated one keeps its marker.
THEOREM StateRespected == FilesSpec => StateIsRespected
<1>1. FileInv /\ [FilesNext]_filesVars =>
        /\ disk.kind = "v3" /\ disk'.kind = "v3" => disk'.authority = disk.authority
        /\ quarantine' # quarantine => disk.kind = "invalid"
        /\ disk.kind = "v3" /\ disk.marked /\ disk'.kind = "v3" => disk'.marked
  <2> SUFFICES ASSUME FileInv, [FilesNext]_filesVars
               PROVE  /\ disk.kind = "v3" /\ disk'.kind = "v3" => disk'.authority = disk.authority
                      /\ quarantine' # quarantine => disk.kind = "invalid"
                      /\ disk.kind = "v3" /\ disk.marked /\ disk'.kind = "v3" => disk'.marked
    OBVIOUS
  <2>1. [State!StateNext]_stateVars BY DEF FilesNext, Frame, filesVars
  <2>2. ASSUME NEW p \in Relays, State!Read(p)
        PROVE  /\ disk' = disk \/ disk'.kind = "missing"
               /\ quarantine' # quarantine => disk.kind = "invalid"
    BY <2>2 DEF State!Read, State!Ends, State!Missing, State!File, State!Normalized
  <2>3. ASSUME NEW p \in Relays, State!Rename(p)
        PROVE  /\ disk.kind = "v3" => disk'.authority = disk.authority
               /\ disk.kind = "v3" /\ disk.marked => disk'.marked
               /\ quarantine' = quarantine
    BY <2>3 DEF State!Rename, State!Goes, FileInv, SavesInv, OwnInv, Writing
  <2>4. ASSUME State!Damage PROVE disk'.kind = "invalid" /\ quarantine' = quarantine
    BY <2>4 DEF State!Damage, FileInv, StateTypes, FileSet
  <2>5. ASSUME NEW p \in Relays,
               \/ State!Save(p) \/ State!Lock(p) \/ State!Migrate(p) \/ State!Restrict(p)
               \/ State!Done(p) \/ State!Fails(p) \/ State!Loads(p)
        PROVE  disk' = disk /\ quarantine' = quarantine
    BY <2>5 DEF State!Save, State!Lock, State!Migrate, State!Restrict, State!Done, State!Fails, State!Loads
  <2>6. QED BY <2>1, <2>2, <2>3, <2>4, <2>5 DEF State!StateNext, State!Evolve, stateVars
<1>2. QED BY <1>1, FileAlways, PTL DEF FilesSpec, StateIsRespected, State!ForeignIsRefused, State!MarkerStays

-----------------------------------------------------------------------------
(* Builds.  A record leaves its path only into the claim of a builder, and  *)
(* a claim is deleted only if its builder has ended or reclaims its own.    *)

Stages == {"staged", "writing", "locked", "reclaiming", "claimed", "releasing", "swapping",
           "promoted", "restoring", "dead", "done", "failed"}

BuildTypes ==
  /\ lockFile \in Builders \cup {None} /\ buildClaim \in [Builders -> Builders \cup {None}]
  /\ written \subseteq Builders
  /\ target \in [Builders -> Builders \cup {None}] /\ stage \in [Builders -> Stages]
  /\ dist \in Builders \cup {None, Previous}
  /\ backup \in [Builders -> Builders \cup {None, Previous}]

\* What a builder reclaims has ended, unless it is its own; it has a claim and a
\* backup only while it reclaims and promotes, and its record is kept as long as
\* it has the lock.
Claiming(p) ==
  /\ stage[p] \in {"reclaiming", "claimed"} /\ target[p] # p =>
       /\ target[p] \in Builders /\ stage[target[p]] \in {"dead", "done", "failed"}
       /\ backup[p] = None
  /\ stage[p] \notin {"claimed", "dead", "done", "failed"} => buildClaim[p] = None
  /\ stage[p] \in {"staged", "writing", "locked"} => backup[p] = None
  /\ stage[p] \in {"writing"} \cup Build!Promoting => Build!Kept(p)

\* When nothing is in place, some builder has set it aside and not yet promoted.
Remains == dist # None \/ \E p \in Builders : backup[p] # None /\ stage[p] # "promoted"

BuildInv == BuildTypes /\ Remains /\ \A p \in Builders : Claiming(p)

LEMMA BuildInitially == ASSUME Build!BuildInit PROVE BuildInv
BY FilesAssumption DEF Build!BuildInit, BuildInv, BuildTypes, Stages, Claiming, Remains, Build!Promoting

LEMMA BuildInductive ==
  ASSUME BuildInv, [Build!BuildNext]_buildVars
  PROVE  BuildInv'
<1> USE FilesAssumption DEF BuildInv, BuildTypes, Stages, Claiming, Remains, Build!Promoting, Build!Kept,
        Build!Goes, Build!claims, Build!artifacts
<1>1. ASSUME NEW p \in Builders, Build!Create(p) PROVE BuildInv'
  BY <1>1 DEF Build!Create
<1>2. ASSUME NEW p \in Builders, Build!Write(p) PROVE BuildInv'
  BY <1>2 DEF Build!Write
<1>3. ASSUME NEW p \in Builders, Build!Inspect(p) PROVE BuildInv'
  BY <1>3 DEF Build!Inspect
<1>4. ASSUME NEW p \in Builders, Build!TimesOut(p) PROVE BuildInv'
  BY <1>4 DEF Build!TimesOut
<1>5. ASSUME NEW p \in Builders, Build!Claim(p) PROVE BuildInv'
  BY <1>5 DEF Build!Claim
<1>6. ASSUME NEW p \in Builders, Build!Delete(p) PROVE BuildInv'
  BY <1>6 DEF Build!Delete, Build!Matches
<1>7. ASSUME NEW p \in Builders, Build!PutBack(p) PROVE BuildInv'
  BY <1>7 DEF Build!PutBack, Build!Ended
<1>8. ASSUME NEW p \in Builders, Build!Release(p) PROVE BuildInv'
  BY <1>8 DEF Build!Release
<1>9. ASSUME NEW p \in Builders, Build!SetAside(p) PROVE BuildInv'
  BY <1>9 DEF Build!SetAside
<1>10. ASSUME NEW p \in Builders, Build!Promote(p) PROVE BuildInv'
  BY <1>10 DEF Build!Promote
<1>11. ASSUME NEW p \in Builders, Build!PromoteFails(p) PROVE BuildInv'
  BY <1>11 DEF Build!PromoteFails
<1>12. ASSUME NEW p \in Builders, Build!Restore(p) PROVE BuildInv'
  BY <1>12 DEF Build!Restore
<1>13. ASSUME NEW p \in Builders, Build!Clean(p) PROVE BuildInv'
  BY <1>13 DEF Build!Clean
<1>14. ASSUME NEW p \in Builders, Build!Die(p) PROVE BuildInv'
  BY <1>14 DEF Build!Die
<1>15. CASE UNCHANGED buildVars
  BY <1>15 DEF buildVars
<1>16. QED
  BY <1>1, <1>2, <1>3, <1>4, <1>5, <1>6, <1>7, <1>8, <1>9, <1>10, <1>11, <1>12, <1>13, <1>14, <1>15
     DEF Build!BuildNext

\* However many builders of one checkout race, die or fail to rename: one that
\* holds the lock has its record at the path or in a claim, two that hold it
\* leave such a claim, and some whole build remains (build-lib.mjs:32-221).
THEOREM BuildsSafe == FilesSpec => []BuildsAreSafe
<1>1. FilesInit => BuildInv
  BY BuildInitially DEF FilesInit
<1>2. BuildInv /\ [FilesNext]_filesVars => BuildInv'
  <2>1. [FilesNext]_filesVars => [Build!BuildNext]_buildVars
    BY DEF FilesNext, Frame, filesVars
  <2>2. QED BY <2>1, BuildInductive
<1>3. BuildInv => BuildsAreSafe
  <2> SUFFICES ASSUME BuildInv PROVE BuildsAreSafe
    OBVIOUS
  <2>1. Build!HolderHasRecord BY DEF BuildInv, Claiming, Build!HolderHasRecord, Build!Holders
  <2>2. Build!OverlapLeavesClaim
    BY <2>1 DEF Build!HolderHasRecord, Build!OverlapLeavesClaim, Build!Kept
  <2>3. Build!ABuildRemains BY DEF BuildInv, Remains, Build!ABuildRemains
  <2>4. QED BY <2>1, <2>2, <2>3 DEF BuildsAreSafe
<1>4. QED BY <1>1, <1>2, <1>3, PTL DEF FilesSpec

-----------------------------------------------------------------------------
(* The lock whose recoverers hold no fence, like the start lock: what        *)
(* FileLockProofs shows of any of its recoveries.                           *)

Shown == INSTANCE FileLockProofs WITH
  Fenced <- FALSE, Prompt <- FALSE, MaxCrashes <- MaxDeaths,
  lock <- uLock, tombstones <- uTombstones, claim <- uClaim, mine <- uMine, expected <- uExpected, pc <- uPc,
  links <- uLinks, crashes <- uCrashes, reuses <- uReuses, leaks <- uLeaks

LEMMA LockConstants == Shown!ConstantsOK
BY FileLockAssumption DEF Shown!ConstantsOK

LEMMA LocksStartAlike == Unfenced!Init => Shown!Init
BY DEF Unfenced!Init, Shown!Init, Unfenced!NoLock, Shown!NoLock

LEMMA LocksStepAlike == [Unfenced!Next]_unfencedVars => [Shown!Next]_(Shown!vars)
<1> USE DEF Unfenced!Goto, Shown!Goto, Unfenced!files, Shown!files, Unfenced!bounds, Shown!bounds,
        Unfenced!NoLock, Shown!NoLock, Unfenced!Alive, Shown!Alive, Unfenced!Matches, Shown!Matches
<1>1. ASSUME NEW p \in Procs
      PROVE  /\ Unfenced!Acquire(p) => Shown!Acquire(p)
             /\ Unfenced!GiveUp(p) => Shown!GiveUp(p)
             /\ Unfenced!Release(p) => Shown!Release(p)
             /\ Unfenced!Inspect(p) => Shown!Inspect(p)
    BY DEF Unfenced!Acquire, Shown!Acquire, Unfenced!GiveUp, Shown!GiveUp, Unfenced!Release, Shown!Release,
           Unfenced!Inspect, Shown!Inspect
<1>2. ASSUME NEW p \in Procs
      PROVE  /\ Unfenced!Link(p) => Shown!Link(p)
             /\ Unfenced!LinkLeaks(p) => Shown!LinkLeaks(p)
    BY DEF Unfenced!Link, Shown!Link, Unfenced!LinkLeaks, Shown!LinkLeaks, Unfenced!Publish, Shown!Publish,
           Unfenced!NewRecord, Shown!NewRecord
<1>3. ASSUME NEW p \in Procs
      PROVE  /\ Unfenced!ProbeDead(p) => Shown!ProbeDead(p)
             /\ Unfenced!ProbeAlive(p) => Shown!ProbeAlive(p)
    BY DEF Unfenced!ProbeDead, Shown!ProbeDead, Unfenced!ProbeAlive, Shown!ProbeAlive
<1>4. ASSUME NEW p \in Procs PROVE Unfenced!Reclaim(p) => Shown!Reclaim(p)
    BY DEF Unfenced!Reclaim, Shown!Reclaim, Unfenced!Claim, Shown!Claim, Unfenced!ClaimMisses, Shown!ClaimMisses,
           Unfenced!Delete, Shown!Delete, Unfenced!Restore, Shown!Restore, Unfenced!LeaveClaim, Shown!LeaveClaim
<1>5. ASSUME NEW p \in Procs
      PROVE  /\ Unfenced!Crash(p) => Shown!Crash(p)
             /\ Unfenced!Reuse(p) => Shown!Reuse(p)
    BY DEF Unfenced!Crash, Shown!Crash, Unfenced!Reuse, Shown!Reuse
<1>6. UNCHANGED unfencedVars => UNCHANGED Shown!vars
    BY DEF unfencedVars, Shown!vars, Shown!local
<1> QED
    BY <1>1, <1>2, <1>3, <1>4, <1>5, <1>6 DEF Unfenced!Next, Shown!Next, Unfenced!Step, Shown!Step

\* Recoverers without the fence never delete the record of a lease, and leave a
\* claim where two processes hold the lock (file-lock-facade.ts:97-186).
THEOREM UnfencedKept == FilesSpec => []UnfencedIsKept
<1>1. FilesInit => Shown!KInv
    BY LockConstants, LocksStartAlike, FileLockAssumption, FilesAssumption, Shown!KInitially DEF FilesInit
<1>2. Shown!KInv /\ [FilesNext]_filesVars => Shown!KInv'
  <2>1. [FilesNext]_filesVars => [Unfenced!Next]_unfencedVars
      BY DEF FilesNext, Frame, filesVars
  <2> QED
      BY <2>1, LocksStepAlike, LockConstants, FileLockAssumption, FilesAssumption, Shown!Keeps
<1>3. Shown!KInv => UnfencedIsKept
  <2> SUFFICES ASSUME Shown!KInv PROVE UnfencedIsKept
      OBVIOUS
  <2>1. Shown!LeaseIsKept /\ Shown!OverlapLeavesClaim
      BY LockConstants, FileLockAssumption, FilesAssumption, Shown!KeptShows
  <2> QED
      BY <2>1 DEF UnfencedIsKept, Unfenced!LeaseIsKept, Shown!LeaseIsKept, Unfenced!OverlapLeavesClaim,
                  Shown!OverlapLeavesClaim, Unfenced!Holders, Shown!Holders
<1> QED
    BY <1>1, <1>2, <1>3, PTL DEF FilesSpec

=============================================================================
