-------------------------- MODULE ClientGuidance --------------------------
(***************************************************************************)
(* What a client is told to do next, by hostPollContract (get_run,         *)
(* wait_run) and by the nextAction of a summary, and a client that does    *)
(* it, while the run it follows goes on.                                   *)
(***************************************************************************)
EXTENDS FiniteSets

CONSTANT None

VARIABLES
  status, reason,   \* of the run; reason None unless the status is needs_attention
  over,             \* finishedAt is set
  pending,          \* kinds of the native requests that wait for an answer
  tool,             \* what the client does next
  shown             \* the requests pending when it was last told what to do

guideVars == <<status, reason, over, pending, tool, shown>>

Outcomes == {"succeeded", "incomplete", "failed", "cancelled"}

-----------------------------------------------------------------------------
\* projectInteractions(): what getRun() shows of the run.
View ==
  IF pending = {} THEN [status |-> status, reason |-> reason, pending |-> {}]
  ELSE [status |-> "needs_attention", pending |-> pending,
        reason |-> IF "approval" \in pending THEN "permission_confirm" ELSE "await_user_answer"]

\* The bug: whatever is not running counts as complete.
nextToolOverRest(view) ==
  CASE view.pending # {} -> "list_run_interactions"
    [] view.pending = {} /\ view.status \in {"running", "unknown"} -> "wait_run"
    [] view.pending = {} /\ view.status \in {"failed", "cancelled"} -> "inspect_error"
    [] OTHER -> "consume_assistantText"

\* hostPollContract() and withHostPollContract().
nextTool(view) ==
  CASE view.pending # {} -> "list_run_interactions"
    [] view.pending = {} /\ view.status \in {"running", "unknown"} -> "wait_run"
    [] view.pending = {} /\ view.status \in {"succeeded", "incomplete"} -> "consume_assistantText"
    [] view.pending = {} /\ view.status \in {"failed", "cancelled"} -> "inspect_error"
    [] OTHER -> "get_run_summary"

\* The bug: a question is answered like an incomplete run.
actionWithoutAnswers(r) ==
  CASE r \in {"permission_restore_failed", "run_stalled"} -> "open-session"
    [] r = "permission_confirm" -> "respond-interaction"
    [] OTHER -> "reply"

actionForAttention(r) ==
  CASE r \in {"permission_restore_failed", "run_stalled"} -> "open-session"
    [] r \in {"await_user_answer", "permission_confirm"} -> "respond-interaction"
    [] OTHER -> "reply"

\* resolveNextAction() of get_run_summary, which passes the reason on.
nextAction(view) ==
  CASE view.status = "needs_attention" -> actionForAttention(view.reason)
    [] view.status = "incomplete" -> "reply"
    [] view.status \in {"running", "unknown"} ->
         IF view.reason = None THEN "wait" ELSE actionForAttention(view.reason)
    [] OTHER -> "none"

-----------------------------------------------------------------------------
GuideInit ==
  /\ status = "running" /\ reason = None /\ over = FALSE /\ pending = {}
  /\ tool = "wait_run" /\ shown = {}

RunVars == <<status, reason, over, pending>>

\* wait_run and get_run answer with a snapshot and the contract.
Poll ==
  /\ tool = "wait_run"
  /\ tool' = nextTool(View) /\ shown' = View.pending /\ UNCHANGED RunVars

Summary ==
  /\ tool = "get_run_summary"
  /\ tool' = CASE nextAction(View) = "wait" -> "wait_run"
               [] nextAction(View) = "respond-interaction" -> "list_run_interactions"
               [] OTHER -> nextAction(View)
  /\ shown' = View.pending /\ UNCHANGED RunVars

\* list_run_interactions and an answer; a request may be gone by then.
Respond ==
  /\ tool = "list_run_interactions"
  /\ pending' \in {pending \ {k} : k \in pending} \cup {pending}
  /\ tool' = "wait_run" /\ shown' = {} /\ UNCHANGED <<status, reason, over>>

\* The user looks at the session in the web page, and the client polls again.
OpenSession ==
  /\ tool = "open-session" /\ tool' = "wait_run"
  /\ UNCHANGED <<RunVars, shown>>

\* The Host asks, for a run that is going on or stalled.
Ask(k) ==
  /\ ~over /\ pending' = pending \cup {k}
  /\ UNCHANGED <<status, reason, over, tool, shown>>

Stall ==
  /\ status = "running" /\ status' = "needs_attention" /\ reason' = "run_stalled"
  /\ UNCHANGED <<over, pending, tool, shown>>

Progress ==
  /\ ~over /\ status \in {"needs_attention", "unknown"} /\ status' = "running" /\ reason' = None
  /\ UNCHANGED <<over, pending, tool, shown>>

\* finalize(): with its outcome, or with a permission that is not restored.
Finish ==
  /\ ~over /\ over' = TRUE /\ pending' = {}
  /\ \/ status' \in Outcomes /\ reason' = None
     \/ status' = "needs_attention" /\ reason' = "permission_restore_failed"
  /\ UNCHANGED <<tool, shown>>

\* The Host cannot tell: the prompt may not have arrived.
Unknown ==
  /\ status = "running" /\ status' = "unknown" /\ UNCHANGED <<reason, over, pending, tool, shown>>

Done == over /\ tool \in {"consume_assistantText", "inspect_error", "reply", "none"} /\ UNCHANGED guideVars

GuideNext ==
  \/ Poll \/ Summary \/ Respond \/ OpenSession
  \/ \E k \in {"approval", "question"} : Ask(k)
  \/ Stall \/ Progress \/ Finish \/ Unknown \/ Done

GuideSpec == GuideInit /\ [][GuideNext]_guideVars

-----------------------------------------------------------------------------
\* A client that does what it is told closes its own turn, or replies, only
\* when the run is over, however the run changes between its calls.
NeverConcludesEarly ==
  tool \in {"consume_assistantText", "inspect_error", "reply", "none"} => over

\* Who was told of open requests is sent to answer them, by either channel:
\* not to wait, nor to the web page, nor to a new run.
RequestsAreAnswered == shown # {} => tool = "list_run_interactions"
=============================================================================
