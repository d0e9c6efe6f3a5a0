----------------------------- MODULE RunControl -----------------------------
(***************************************************************************)
(* The runs of one session after their admission: RunReconciler.refresh    *)
(* at the grain of its awaits, finalize, and the calls that use it, which  *)
(* are get/wait/list, steer, cancel and reconcile_operation.  The Host     *)
(* keeps a durable log of the session; a run caches what it has read of it *)
(* and derives its status and its text from that cache.                    *)
(*                                                                         *)
(* An event is [type, by]: by is the rpcId of a user message, the state of *)
(* an assistant message, or the reason of a turn's end; its seq is its     *)
(* place in the log.  The rpcId of a run's prompt is the run, that of a    *)
(* steer message the call.  Admission itself is RunAdmission's; the lease  *)
(* a finalize gives back is PermissionLeases'.                             *)
(***************************************************************************)
EXTENDS Integers, Sequences, FiniteSetsExt

CONSTANTS
  Runs,         \* each continues the session after the one before
  Callers,      \* client calls
  Kind,         \* what a call is: "get", "steer" or "cancel"
  None,
  Ends,         \* reasons a turn may end for
  MaxEvents,    \* bound: events in the log
  MaxFailures,  \* bound: Host calls that fail, and leases not given back
  Overlap       \* may two calls be in progress at once?

ASSUME ControlAssumption ==
  /\ Kind \in [Callers -> {"get", "steer", "cancel"}]
  /\ None \notin Runs \cup Callers /\ Runs \cap Callers = {}
  /\ {"web", "draft"} \cap (Runs \cup Callers) = {} /\ "draft" \notin Ends
  /\ MaxEvents \in Nat /\ MaxFailures \in Nat /\ Overlap \in BOOLEAN

VARIABLES
  log, working, due,    \* the Host: durable events; a turn is on; accepted, not yet durable
  status, cancelRequested, baseline, events, text,   \* run records
  silent,               \* runStallMs has passed since lastProgressAt
  active,               \* RelayFacade.activeSessions, for this session
  op,                   \* the operation of a steer or cancel
  call,                 \* where a call awaits and what it holds
  failures

host == <<log, working, due>>
runs == <<status, cancelRequested, baseline, events, text, silent, active>>
vars == <<host, runs, op, call, failures>>

-----------------------------------------------------------------------------
(* run-events.ts *)

mergeEvents(left, right) ==
  [s \in DOMAIN left \cup DOMAIN right |-> IF s \in DOMAIN right THEN right[s] ELSE left[s]]

highestSeq(es, fallback) == Max(DOMAIN es \cup {fallback})

\* The newest event may still be finalized in place: read it again.
incrementalStartSeqEager(es, base) == highestSeq(es, base)
incrementalStartSeq(es, base) ==
  LET highest == highestSeq(es, base)
  IN  IF highest = base THEN base ELSE Max({base, highest - 1})

Of(es, type) == {s \in DOMAIN es : es[s].type = type}

finalAssistantText(es, seqs) == {<<s, es[s].by>> : s \in seqs \cap Of(es, "assistant/message")}

finalAssistantInterrupted(es, seqs) ==
  LET said == seqs \cap Of(es, "assistant/message")
  IN  said # {} /\ es[Max(said)].by = "interrupted"

terminalOutcome(reason, cancelled, interrupted) ==
  CASE reason = "completed"  -> IF interrupted THEN "incomplete" ELSE "succeeded"
    [] reason = "user"       -> "cancelled"
    [] reason = "aborted"    -> IF cancelled THEN "cancelled" ELSE "failed"
    [] reason = "max-tokens" -> "incomplete"
    [] OTHER                 -> "failed"

-----------------------------------------------------------------------------
Concluded   == {"succeeded", "failed", "cancelled", "incomplete", "restore_failed"}
Refreshable == {"running", "run_stalled"}
OpStates    == {"none", "prepared", "submitted", "unknown", "failed", "acknowledged", "reconciled"}

NoCall == [pc |-> "idle", run |-> None, then |-> "none", seen |-> FALSE, base |-> <<>>, got |-> <<>>]

Init ==
  /\ log = <<>> /\ working = FALSE /\ due = {}
  /\ status = [r \in Runs |-> "new"]
  /\ cancelRequested = [r \in Runs |-> FALSE]
  /\ baseline = [r \in Runs |-> 0]
  /\ events = [r \in Runs |-> <<>>]
  /\ text = [r \in Runs |-> {}]
  /\ silent = [r \in Runs |-> FALSE]
  /\ active = None
  /\ op = [c \in Callers |-> [state |-> "none", run |-> None]]
  /\ call = [c \in Callers |-> NoCall]
  /\ failures = 0

At(c, pc)     == call[c].pc = pc
Goto(c, pc)   == call' = [call EXCEPT ![c].pc = pc]
Return(c)     == call' = [call EXCEPT ![c] = NoCall]
Settle(c, s)  == op' = [op EXCEPT ![c].state = s]
MayCall(c)    == At(c, "idle") /\ (Overlap \/ \A d \in Callers : At(d, "idle"))
MayFail       == failures < MaxFailures /\ failures' = failures + 1

-----------------------------------------------------------------------------
(* The Host *)

Append1(type, by) == log' = Append(log, [type |-> type, by |-> by])
Drafting  == log # <<>> /\ log[Len(log)].by = "draft"
Room      == Len(log) < MaxEvents /\ ~Drafting
Prompting == due \cap Runs # {}

Persist(m) ==   \* a user message becomes durable, and starts a turn if none is on
  /\ m \in due /\ Room
  /\ Append1("user/message", m)
  /\ due' = due \ {m} /\ working' = TRUE
  /\ UNCHANGED <<runs, op, call, failures>>

Write ==
  /\ working /\ ~Prompting /\ Room
  /\ Append1("assistant/message", "draft")
  /\ UNCHANGED <<working, due, runs, op, call, failures>>

\* The newest event is finalized in place.
Finish(by) ==
  /\ Drafting
  /\ log' = [log EXCEPT ![Len(log)].by = by]
  /\ UNCHANGED <<working, due, runs, op, call, failures>>

TurnEnds(reason) == Append1("turn/end", reason) /\ working' = FALSE /\ UNCHANGED due

EndTurn(reason) ==
  /\ working /\ ~Prompting /\ ~Drafting
  /\ TurnEnds(reason)
  /\ UNCHANGED <<runs, op, call, failures>>

\* Somebody types in the web page of the session, in a turn or between turns.
WebPrompt ==
  /\ ~Prompting /\ log # <<>> /\ Room
  /\ Append1("user/message", "web") /\ working' = TRUE
  /\ UNCHANGED <<due, runs, op, call, failures>>

-----------------------------------------------------------------------------
(* startRun and replyRun, whose steps RunAdmission has: the session is idle. *)
Start(r) ==
  /\ status[r] = "new"
  /\ active = None /\ ~working /\ due = {} /\ Len(log) < MaxEvents
  /\ active' = r
  /\ status' = [status EXCEPT ![r] = "running"]
  /\ baseline' = [baseline EXCEPT ![r] = Len(log)]
  /\ due' = {r} /\ working' = TRUE
  /\ UNCHANGED <<log, cancelRequested, events, text, silent, op, call, failures>>

\* runStallMs is longer than any refresh takes.
Elapse ==
  /\ \A c \in Callers : At(c, "idle")
  /\ silent' = [r \in Runs |-> status[r] \in Refreshable]
  /\ UNCHANGED <<host, status, cancelRequested, baseline, events, text, active, op, call, failures>>

-----------------------------------------------------------------------------
(* refresh *)

RefreshAlways(c, r, then) ==
  call' = [call EXCEPT ![c] = [NoCall EXCEPT !.pc = "listing", !.run = r, !.then = then]]
Refresh(c, r, then) ==
  call' = [call EXCEPT ![c] = [NoCall EXCEPT
             !.pc = IF status[r] \in Refreshable THEN "listing" ELSE "refreshed",
             !.run = r, !.then = then]]

HostLists(c) ==
  /\ At(c, "listing")
  /\ call' = [call EXCEPT ![c].pc = "listed", ![c].seen = working]
  /\ UNCHANGED <<host, runs, op, failures>>

\* run.events is evaluated here, before the history it is merged with.
Listed(c) ==
  /\ At(c, "listed")
  /\ active' = IF call[c].seen THEN call[c].run ELSE active
  /\ call' = [call EXCEPT ![c].pc = "reading", ![c].base = events[call[c].run]]
  /\ UNCHANGED <<host, status, cancelRequested, baseline, events, text, silent, op, failures>>

Answer == [reading |-> "read", polling |-> "polled", searching |-> "found"]

historyWhole(fromSeq) == [s \in 1 .. Len(log) |-> log[s]]
historyAfter(fromSeq) == [s \in fromSeq + 1 .. Len(log) |-> log[s]]

HostReads(c) ==
  /\ call[c].pc \in DOMAIN Answer
  /\ call' = [call EXCEPT ![c].pc = Answer[@],
                ![c].got = historyAfter(incrementalStartSeq(call[c].base, baseline[call[c].run]))]
  /\ UNCHANGED <<host, runs, op, failures>>

OwnedRpcIds(r) == {r} \cup {c \in Callers : Kind[c] = "steer" /\ op[c].run = r}

ownedToTheEnd(r, es, prompt) == {s \in DOMAIN es : s > prompt}
ownedEvents(r, es, prompt) ==
  LET foreign == {s \in Of(es, "user/message") : s > prompt /\ es[s].by \notin OwnedRpcIds(r)}
  IN  {s \in DOMAIN es : s > prompt /\ \A f \in foreign : s < f}

finalizeKeepsSession(r, outcome) ==
  /\ status' = [status EXCEPT ![r] = outcome]
  /\ silent' = [silent EXCEPT ![r] = FALSE]
  /\ UNCHANGED active
finalizeKeepsProgress(r, outcome) ==
  /\ status' = [status EXCEPT ![r] = outcome]
  /\ active' = None /\ UNCHANGED silent
finalize(r, outcome) ==
  /\ status' = [status EXCEPT ![r] = outcome]
  /\ silent' = [silent EXCEPT ![r] = FALSE]
  /\ active' = None

\* recordProgress, then markStalled: what a run that goes on becomes.
Continues(r, progress, seen) ==
  /\ silent' = [silent EXCEPT ![r] = @ /\ ~progress]
  /\ status' = [status EXCEPT ![r] =
       IF seen /\ silent[r] /\ ~progress THEN "run_stalled"
       ELSE IF progress /\ @ = "run_stalled" THEN "running" ELSE @]
  /\ UNCHANGED active

PromptIn(r, es) == {s \in Of(es, "user/message") : es[s].by = r}

Digest(c) ==
  LET r        == call[c].run
      from     == incrementalStartSeq(call[c].base, baseline[r])
      es       == mergeEvents(call[c].base, call[c].got)
      progress == highestSeq(es, baseline[r]) > from
      owned    == ownedEvents(r, es, Min(PromptIn(r, es)))
      ends     == owned \cap Of(es, "turn/end")
      relevant == {s \in owned : ends = {} \/ s <= Max(ends)}
      outcome  == terminalOutcome(es[Max(ends)].by, cancelRequested[r],
                                  finalAssistantInterrupted(es, relevant))
  IN  /\ At(c, "read")
      /\ events' = [events EXCEPT ![r] = es]
      /\ IF PromptIn(r, es) = {}
         THEN /\ UNCHANGED text
              /\ IF ~call[c].seen /\ cancelRequested[r]
                 THEN finalize(r, "cancelled") /\ Goto(c, "restoring")
                 ELSE Continues(r, progress, call[c].seen) /\ Goto(c, "refreshed")
         ELSE /\ text' = [text EXCEPT ![r] = finalAssistantText(es, relevant)]
              /\ IF ends = {}
                 THEN Continues(r, progress, call[c].seen) /\ Goto(c, "refreshed")
                 ELSE finalize(r, outcome) /\ Goto(c, "restoring")
      /\ UNCHANGED <<host, cancelRequested, baseline, op, failures>>

\* restorePermission
Restored(c) ==
  /\ At(c, "restoring")
  /\ \/ UNCHANGED <<status, failures>>
     \/ MayFail /\ status' = [status EXCEPT ![call[c].run] = "restore_failed"]
  /\ Goto(c, "refreshed")
  /\ UNCHANGED <<host, cancelRequested, baseline, events, text, silent, active, op>>

\* A call to the Host throws, and the tool with it.
Throws(c) ==
  /\ call[c].pc \in {"listing", "reading", "polling", "searching"}
  /\ MayFail /\ Return(c)
  /\ UNCHANGED <<host, runs, op>>

-----------------------------------------------------------------------------
(* The calls *)

Call(c, r) ==
  /\ MayCall(c) /\ status[r] # "new"
  /\ \/ Kind[c] = "get" /\ Refresh(c, r, "return") /\ UNCHANGED op
     \/ /\ Kind[c] = "steer" /\ op[c].state \in {"none", "prepared"}
        /\ op[c].run \in {None, r}
        /\ op' = [op EXCEPT ![c] = [state |-> "prepared", run |-> r]]
        /\ Refresh(c, r, "steer")
     \/ /\ Kind[c] = "cancel" /\ op[c].state = "none"
        /\ Refresh(c, r, "cancel") /\ UNCHANGED op
  /\ UNCHANGED <<host, runs, failures>>

Refreshed(c, then) == At(c, "refreshed") /\ call[c].then = then
Running(c)         == status[call[c].run] = "running"

Returns(c) ==
  /\ \/ Refreshed(c, "return")
     \/ Refreshed(c, "cancel") /\ ~Running(c)
  /\ Return(c)
  /\ UNCHANGED <<host, runs, op, failures>>

Steer(c) ==
  /\ Refreshed(c, "steer")
  /\ IF Running(c) THEN Settle(c, "submitted") /\ Goto(c, "sending")
                   ELSE Settle(c, "failed") /\ Return(c)
  /\ UNCHANGED <<host, runs, failures>>

\* The prompt RPC of a steer: accepted with or without its message, answer lost, or rejected.
HostSteers(c) ==
  /\ At(c, "sending") /\ Kind[c] = "steer"
  /\ \/ /\ due' = due \cup {c}
        /\ \/ Settle(c, "acknowledged") /\ Return(c) /\ UNCHANGED failures
           \/ Goto(c, "watching") /\ UNCHANGED <<op, failures>>
           \/ MayFail /\ Settle(c, "unknown") /\ Return(c)
     \/ MayFail /\ UNCHANGED due /\ Return(c) /\ (Settle(c, "unknown") \/ Settle(c, "failed"))
  /\ UNCHANGED <<log, working, runs>>

Watch(c) ==
  /\ At(c, "watching")
  /\ call' = [call EXCEPT ![c].pc = "polling", ![c].base = events[call[c].run], ![c].got = <<>>]
  /\ UNCHANGED <<host, runs, op, failures>>

Holds(es, c) == \E s \in DOMAIN es : es[s] = [type |-> "user/message", by |-> c]

Polled(c) ==
  LET r == call[c].run
      es == mergeEvents(call[c].base, call[c].got)
  IN  /\ At(c, "polled")
      /\ events' = [events EXCEPT ![r] = es]
      /\ IF Holds(es, c) THEN Settle(c, "acknowledged") /\ Return(c)
         ELSE \/ Goto(c, "watching") /\ UNCHANGED op
              \/ Settle(c, "unknown") /\ Return(c)
      /\ UNCHANGED <<host, status, cancelRequested, baseline, text, silent, active, failures>>

Cancel(c) ==
  /\ Refreshed(c, "cancel") /\ Running(c)
  /\ op' = [op EXCEPT ![c] = [state |-> "prepared", run |-> call[c].run]]
  /\ Goto(c, "preparing")
  /\ UNCHANGED <<host, runs, failures>>

CancelPrepared(c) ==
  /\ At(c, "preparing")
  /\ cancelRequested' = [cancelRequested EXCEPT ![call[c].run] = TRUE]
  /\ Settle(c, "submitted") /\ Goto(c, "sending")
  /\ UNCHANGED <<host, status, baseline, events, text, silent, active, failures>>

\* session.cancel ends the turn that is on, whose ever it is.
HostAborts ==
  IF working /\ ~Prompting /\ ~Drafting THEN TurnEnds("aborted") ELSE UNCHANGED host

HostCancels(c) ==
  LET r == call[c].run
  IN  /\ At(c, "sending") /\ Kind[c] = "cancel"
      /\ \/ /\ HostAborts
            /\ \/ Settle(c, "acknowledged") /\ Refresh(c, r, "return") /\ UNCHANGED failures
               \/ MayFail /\ Settle(c, "unknown") /\ Return(c)
            /\ UNCHANGED cancelRequested
         \/ /\ MayFail /\ Return(c) /\ UNCHANGED host
            /\ \/ Settle(c, "unknown") /\ UNCHANGED cancelRequested
               \/ Settle(c, "failed") /\ cancelRequested' = [cancelRequested EXCEPT ![r] = FALSE]
      /\ UNCHANGED <<status, baseline, events, text, silent, active>>

ReconcileOperation(c) ==
  /\ MayCall(c) /\ op[c].state \in {"submitted", "unknown"}
  /\ Refresh(c, op[c].run, "settle")
  /\ UNCHANGED <<host, runs, op, failures>>

SettleCancel(c) ==
  /\ Refreshed(c, "settle") /\ Kind[c] = "cancel"
  /\ IF Running(c) THEN UNCHANGED op ELSE Settle(c, "reconciled")
  /\ Return(c)
  /\ UNCHANGED <<host, runs, failures>>

Search(c) ==
  /\ Refreshed(c, "settle") /\ Kind[c] = "steer"
  /\ call' = [call EXCEPT ![c].pc = "searching", ![c].base = events[call[c].run]]
  /\ UNCHANGED <<host, runs, op, failures>>

\* Only the events read now are searched, not those the run already has.
Found(c) ==
  /\ At(c, "found")
  /\ IF Holds(call[c].got, c) THEN Settle(c, "reconciled") ELSE UNCHANGED op
  /\ Return(c)
  /\ UNCHANGED <<host, runs, failures>>

-----------------------------------------------------------------------------
HostStep ==
  \/ \E m \in due : Persist(m)
  \/ Write
  \/ \E by \in {"final", "interrupted"} : Finish(by)
  \/ \E reason \in Ends : EndTurn(reason)
  \/ WebPrompt

Step(c) ==
  \/ HostLists(c) \/ Listed(c) \/ HostReads(c) \/ Digest(c) \/ Restored(c)
  \/ Returns(c) \/ Steer(c) \/ HostSteers(c) \/ Watch(c) \/ Polled(c)
  \/ Cancel(c) \/ CancelPrepared(c) \/ HostCancels(c)
  \/ SettleCancel(c) \/ Search(c) \/ Found(c)

Next ==
  \/ HostStep \/ Elapse
  \/ \E r \in Runs : Start(r)
  \/ \E c \in Callers : Step(c) \/ Throws(c) \/ ReconcileOperation(c)
  \/ \E c \in Callers, r \in Runs : Call(c, r)

\* The Host persists what it accepted and ends its turns; clients keep calling
\* wait_run for the active run, and ask what became of an uncertain operation.
Polls == \E c \in Callers, r \in Runs : Kind[c] = "get" /\ status[r] \in Refreshable /\ Call(c, r)

Fairness ==
  /\ WF_vars(\E m \in due : Persist(m))
  /\ WF_vars(Elapse)
  /\ \A c \in Callers : WF_vars(Step(c)) /\ WF_vars(ReconcileOperation(c))
  /\ WF_vars(Polls)

Spec     == Init /\ [][Next]_vars
FairSpec == Spec /\ Fairness
-----------------------------------------------------------------------------
(* Properties *)

\* The records have their types, and a run holds no event from before its baseline.
TypeOK ==
  /\ status \in [Runs -> {"new"} \cup Refreshable \cup Concluded]
  /\ active \in Runs \cup {None}
  /\ due \subseteq Runs \cup Callers
  /\ \A c \in Callers : op[c].state \in OpStates /\ op[c].run \in Runs \cup {None}
  /\ \A r \in Runs : DOMAIN events[r] \subseteq baseline[r] + 1 .. Len(log)

\* The turn of a run: from its prompt to the next user message of somebody else.
PromptSeq(r) == {s \in 1..Len(log) : log[s] = [type |-> "user/message", by |-> r]}
OwnTurn(r) ==
  {s \in 1..Len(log) : \E p \in PromptSeq(r) :
     /\ p < s
     /\ \A u \in p + 1 .. s : log[u].type = "user/message" => log[u].by \in OwnedRpcIds(r)}

\* A run never shows text of another run or of the web page (ownedEvents), however
\* stale the history its text was taken from.
OwnText == \A r \in Runs : \A t \in text[r] : t[1] \in OwnTurn(r)

\* A run that concluded has the text of its whole turn, in its final form, if its
\* calls did not overlap: the cursor of the history never skips an event.
ConclusionIsTrue ==
  \A r \in Runs : status[r] \in {"succeeded", "incomplete"} =>
    \E e \in OwnTurn(r) :
      /\ log[e].type = "turn/end"
      /\ text[r] = {<<s, log[s].by>> : s \in {t \in OwnTurn(r) : t < e /\ log[t].type = "assistant/message"}}

\* Between calls, the session is taken exactly while its run is not concluded:
\* it neither stays blocked nor lets a second run in.
SessionMatchesRun ==
  (\A c \in Callers : At(c, "idle")) => \A r \in Runs : active = r <=> status[r] \in Refreshable

\* A concluded run does not run again, nor stall ...
ConcludedStays == \A r \in Runs : status[r] \in Concluded => status'[r] \in Concluded
\* ... nor change its outcome, unless its preset cannot be given back.
OutcomeKept == \A r \in Runs : status[r] \in Concluded => status'[r] \in {status[r], "restore_failed"}

\* reconcile_operation settles a steer whose message Relay has read in the history.
ReconcileFindsDurable ==
  [][\A c \in Callers :
       At(c, "found") /\ ~At(c, "found")' /\ (Holds(events[call[c].run], c) \/ Holds(call[c].got, c))
         => op'[c].state = "reconciled"]_vars

\* A run whose session works on for ever without an event is marked as stalled.
StallIsNoticed == \A r \in Runs : <>[](working /\ active = r) => <>(status[r] = "run_stalled")
=============================================================================
