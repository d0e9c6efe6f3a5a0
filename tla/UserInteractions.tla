------------------------- MODULE UserInteractions -------------------------
(***************************************************************************)
(* Approvals and questions of the Agent of one session, which a client of  *)
(* the run that has the session answers: UserInteractionFacade, the native *)
(* answerer, and respond_to_run_interaction.                               *)
(***************************************************************************)
EXTENDS Integers, Sequences, FiniteSets

CONSTANTS
  Requests,     \* requests of the Agent
  Kind,         \* approval or question
  Questions,    \* the ids a question request asks for
  Options,      \* the labels each of them offers; one may be chosen
  Principals,   \* client principals
  Runs,         \* runs that have the session, one after another
  Principal,    \* the principal that started a run
  None,         \* "nobody"
  MaxPending    \* the capacity of the facade

VARIABLES
  owner,     \* interactionOwner(): the active run of the session
  pending,   \* the requests pending
  holder,    \* the run a request was enqueued for
  outcome,   \* what the Agent is told of a request
  aborted,   \* requests whose AbortSignal has fired
  answer,    \* the call that settled a request: who, for which run, and with what
  calling,   \* the call of each principal that has passed getRun
  disposed   \* the facade is disposed

interactionVars == <<owner, pending, holder, outcome, aborted, answer, calling, disposed>>

-----------------------------------------------------------------------------
Outcomes == {"none", "native", "refused", "cancelled", "answered"}

Responses ==
  [kind : {"cancel"}] \cup
  [kind : {"approval"}, explained : BOOLEAN, allows : BOOLEAN, basis : BOOLEAN] \cup
  [kind : {"question"}, ids : UNION {[1 .. n -> Questions] : n \in 0 .. Cardinality(Questions)},
   selected : SUBSET Options, custom : BOOLEAN]

\* The bug: an id may be answered twice.
validateLoosely(q, r) ==
  CASE r.kind = "cancel" -> TRUE
    [] r.kind = "approval" -> Kind[q] = r.kind /\ r.explained
    [] r.kind = "question" -> Kind[q] = r.kind /\ Len(r.ids) = Cardinality(Questions)

\* validateResponse(), every question getting the same answer.
validateResponse(q, r) ==
  CASE r.kind = "cancel" -> TRUE
    [] r.kind = "approval" -> Kind[q] = r.kind /\ r.explained /\ (r.allows => r.basis)
    [] r.kind = "question" ->
         /\ Kind[q] = r.kind
         /\ Len(r.ids) = Cardinality(Questions)
         /\ \A i, j \in DOMAIN r.ids : r.ids[i] = r.ids[j] => i = j
         /\ Cardinality(r.selected) + (IF r.custom THEN 1 ELSE 0) <= 1

\* The bug: a run that has lost the session keeps its requests.
isCurrentSignal(q) == q \notin aborted

isCurrent(q) == q \notin aborted /\ owner = holder[q]

\* prune(): the requests that remain, and what becomes of the others.
Current == {q \in pending : isCurrent(q)}
Pruned  == [q \in Requests |-> IF q \in pending \ Current THEN "cancelled" ELSE outcome[q]]

NoCall == [run |-> None, request |-> None]

-----------------------------------------------------------------------------
InteractionInit ==
  /\ owner = None /\ pending = {} /\ aborted = {} /\ disposed = FALSE
  /\ holder = [q \in Requests |-> None]
  /\ outcome = [q \in Requests |-> "none"]
  /\ answer = [q \in Requests |-> None]
  /\ calling = [p \in Principals |-> NoCall]

\* The run of the session begins, ends, is cancelled, or gives way to the next.
OwnerChanges ==
  /\ owner' \in (Runs \cup {None}) \ {owner}
  /\ UNCHANGED <<pending, holder, outcome, aborted, answer, calling, disposed>>

\* The bug: room is counted before the requests of former runs are pruned away.
AskUnbounded(q) ==
  /\ outcome[q] = "none" /\ q \notin pending /\ owner # None
  /\ pending' = pending \cup {q} /\ holder' = [holder EXCEPT ![q] = owner]
  /\ UNCHANGED <<owner, outcome, aborted, answer, calling, disposed>>

\* approval() and question(), to the end of enqueue().
Ask(q) ==
  /\ outcome[q] = "none" /\ q \notin pending
  /\ IF owner = None \/ disposed
     THEN outcome' = [outcome EXCEPT ![q] = "native"] /\ UNCHANGED <<pending, holder>>
     ELSE IF q \in aborted
     THEN outcome' = [outcome EXCEPT ![q] = "cancelled"] /\ UNCHANGED <<pending, holder>>
     ELSE \/ /\ Cardinality(Current) < MaxPending
             /\ pending' = Current \cup {q} /\ holder' = [holder EXCEPT ![q] = owner]
             /\ outcome' = Pruned
          \/ \* the capacity is reached, or the context of the Agent is gone
             /\ pending' = Current /\ UNCHANGED holder
             /\ outcome' = [Pruned EXCEPT ![q] = "refused"]
  /\ UNCHANGED <<owner, aborted, answer, calling, disposed>>

\* The signal of a request fires, or its Agent is disposed of.
Abort(q) ==
  /\ q \notin aborted /\ outcome[q] = "none"
  /\ aborted' = aborted \cup {q}
  /\ pending' = pending \ {q}
  /\ outcome' = IF q \in pending THEN [outcome EXCEPT ![q] = "cancelled"] ELSE outcome
  /\ UNCHANGED <<owner, holder, answer, calling, disposed>>

\* list() and hasPending(), whose effect is prune().
List == /\ pending # Current
        /\ pending' = Current /\ outcome' = Pruned
        /\ UNCHANGED <<owner, holder, aborted, answer, calling, disposed>>

\* respondToRunInteraction() awaits getRun(), which checks the principal ...
Respond(p, run, q) ==
  /\ calling[p] = NoCall /\ Principal[run] = p
  /\ calling' = [calling EXCEPT ![p] = [run |-> run, request |-> q]]
  /\ UNCHANGED <<owner, pending, holder, outcome, aborted, answer, disposed>>

\* The bug: the request is looked up before it is known to be current.
SettleStale(p, r) ==
  /\ calling[p] # NoCall
  /\ calling' = [calling EXCEPT ![p] = NoCall]
  /\ LET q == calling[p].request
     IN  /\ holder[q] = calling[p].run /\ validateResponse(q, r)
         /\ pending' = pending \ {q}
         /\ outcome' = [outcome EXCEPT ![q] = "answered"]
         /\ answer' = [answer EXCEPT ![q] = [by |-> p, run |-> owner, response |-> r]]
  /\ UNCHANGED <<owner, holder, aborted, disposed>>

\* ... and then respond() prunes, checks and settles.
Settle(p, r) ==
  /\ calling[p] # NoCall
  /\ calling' = [calling EXCEPT ![p] = NoCall]
  /\ LET q == calling[p].request
     IN  IF /\ q \in Current /\ holder[q] = calling[p].run /\ Principal[holder[q]] = p
            /\ validateResponse(q, r)
         THEN /\ pending' = Current \ {q}
              /\ outcome' = [Pruned EXCEPT ![q] = IF r.kind = "cancel" THEN "cancelled" ELSE "answered"]
              /\ answer' = [answer EXCEPT ![q] = [by |-> p, run |-> owner, response |-> r]]
         ELSE pending' = Current /\ outcome' = Pruned /\ UNCHANGED answer
  /\ UNCHANGED <<owner, holder, aborted, disposed>>

Dispose ==
  /\ ~disposed /\ disposed' = TRUE /\ pending' = {}
  /\ outcome' = [q \in Requests |-> IF q \in pending THEN "cancelled" ELSE outcome[q]]
  /\ UNCHANGED <<owner, holder, aborted, answer, calling>>

InteractionNext ==
  \/ OwnerChanges \/ List \/ Dispose
  \/ \E q \in Requests : Ask(q) \/ Abort(q)
  \/ \E p \in Principals :
       \/ \E run \in Runs, q \in Requests : Respond(p, run, q)
       \/ \E r \in Responses : Settle(p, r)

InteractionSpec == InteractionInit /\ [][InteractionNext]_interactionVars

-----------------------------------------------------------------------------
\* A request is settled once, whatever races: the answers of two calls, an
\* abort, the end of its run, and the disposal of the facade.
SettledOnce ==
  [][\A q \in Requests : outcome[q] # "none" => outcome'[q] = outcome[q]]_interactionVars

\* A decision is applied only by the principal of the run it was asked for, and
\* while that run still has the session, though the call that brings it awaited
\* a poll after the client saw the request.
AnsweredByOwner ==
  \A q \in Requests : answer[q] # None =>
    answer[q].by = Principal[holder[q]] /\ answer[q].run = holder[q]

\* The capacity holds, and nobody waits for an answer that cannot come: what is
\* not pending is settled or not yet asked, and nothing is pending once the
\* facade is disposed of.
PendingIsLive ==
  /\ Cardinality(pending) <= MaxPending
  /\ \A q \in pending : outcome[q] = "none" /\ q \notin aborted
  /\ disposed => pending = {}

\* What the Agent receives fits its request: each question answered exactly
\* once, a one-shot grant explained and authorised.
AnswerFits ==
  \A q \in Requests : outcome[q] = "answered" =>
    LET r == answer[q].response
    IN  IF Kind[q] = "question" THEN {r.ids[i] : i \in DOMAIN r.ids} = Questions
        ELSE r.kind = "approval" /\ r.explained /\ (r.allows => r.basis)
=============================================================================
