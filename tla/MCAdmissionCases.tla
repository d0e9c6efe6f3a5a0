-------------------------- MODULE MCAdmissionCases --------------------------
(***************************************************************************)
(* Two cases of RunAdmission in one state space: starts that follow one    *)
(* another with polls at any time, or two calls in any interleaving.       *)
(***************************************************************************)
EXTENDS MCRunAdmission

VARIABLE case

Overlapping == INSTANCE RunAdmission WITH Overlap <- TRUE

AtMostTwo == Cardinality({c \in Calls : pc'[c] # "idle"}) <= 2

CasesInit == Init /\ case \in {"serial", "overlap"}

CasesNext ==
  /\ UNCHANGED case
  /\ \/ case = "serial" /\ Next
     \/ case = "overlap" /\ Overlapping!Next /\ AtMostTwo

CasesSpec == CasesInit /\ [][CasesNext]_<<vars, case>>

\* What is known before the Host can have a prompt, when starts do not overlap: on
\* disk the run, the state of its operation, and the session it is in; in memory
\* that the operation was submitted, so that a poll can settle it (RunAdmission).
PromptIsKnown ==
  case = "serial" => RunBeforePrompt /\ JournalBeforePrompt /\ RunNamesSession /\ SettleableFromHistory

\* Merging snapshots never moves an operation of the state file backwards, when
\* starts do not overlap; the call that reports a failed write undoes its
\* operation, so no write has failed.
DiskAdvances ==
  [][case = "serial" /\ failures = 0 =>
       \A i \in Calls : OpRank[diskOp'[i].state] >= OpRank[diskOp[i].state]]_vars

\* What the state file and the wire show of a start, when starts do not overlap:
\* the keys and sessions that are on disk, and the prompts that were sent.
SentPrompts(requests) == {[op |-> m.op, session |-> m.session] : m \in requests}

Once == INSTANCE StartOnce WITH
  Operations <- Calls, Sessions <- Calls,
  key     <- [i \in Calls |-> IF case = "serial" THEN diskOp[i].key ELSE None],
  session <- [i \in Calls |-> IF case = "serial" THEN diskRun[i].session ELSE None],
  asked   <- IF case = "serial" THEN SentPrompts(wire) ELSE {},
  host    <- IF case = "serial" THEN SentPrompts(host) ELSE {}

\* Through replays, merges, failed writes and crashes the write path does what a
\* start that happens once per key does (StartOnce).
StartsOnce == Once!Spec
=============================================================================
