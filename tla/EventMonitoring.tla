-------------------------- MODULE EventMonitoring --------------------------
(***************************************************************************)
(* The event streams of the Host as hints for one session: the pumps and   *)
(* the sequencer of EventMonitoringFacade, and projectEventNotice, which   *)
(* answers each notice with a refresh of the runs, a summary and a rebase. *)
(***************************************************************************)
EXTENDS Integers, Sequences, FiniteSets

CONSTANTS
  MaxPending,    \* maxPendingEventsPerSession
  MaxEvents,     \* bound: events of the session
  MaxDrops,      \* bound: streams that end or fail
  MaxFailures,   \* bound: notices whose sink fails
  MaxChanges     \* bound: frames of the host stream

VARIABLES
  log,        \* Host: the newest durable event of the session
  work,       \* the run of the session: none, running or over
  lastSeq,    \* lastEventSeq of the run
  link,       \* where each pump is
  sent,       \* Host: the newest event sent on the mux stream
  durable,    \* durableSeq, or Unknown
  awaiting,   \* awaitingHistory
  pending,    \* the events in SessionSequence.pending
  degraded,   \* degradedStreams
  tail,       \* emitTail: the notices that wait for the sink
  listed,     \* has the sink listed the runs for the first of them?
  covered,    \* the newest event that precedes the run or is in a published summary
  told,       \* what the sink last heard of each stream: ok or polling
  drops, failures, changes

session   == <<log, work, lastSeq>>
sequencer == <<durable, awaiting, pending>>
sink      == <<listed, covered, told>>
counts    == <<drops, failures, changes>>
monitorVars == <<session, link, sent, sequencer, degraded, tail, sink, counts>>

-----------------------------------------------------------------------------
Streams == {"mux", "host"}
Unknown == -1
Links   == {"down", "opened", "up", "reporting", "reconciling", "ending", "closing", "dead"}

\* A notice: its kind, the stream it is about, and the pump that awaits it.
Notice(kind, stream, waiter) == [kind |-> kind, stream |-> stream, waiter |-> waiter]
Own(kind) == Notice(kind, "none", "none")

Queued(kind, s) == \E i \in DOMAIN tail : tail[i].kind = kind /\ tail[i].stream = s

Higher(a, b) == IF a > b THEN a ELSE b

\* advanceContiguous(): from seq on, as far as p has the next event.
advanceContiguous(seq, p) ==
  CHOOSE n \in seq .. seq + MaxPending : seq + 1 .. n \subseteq p /\ n + 1 \notin p

\* The bug: a gap does not ask for history.
rebaseQuiet(seq) ==
  LET n == advanceContiguous(seq, pending)
  IN  [durable |-> n, pending |-> {q \in pending : q > n}, gap |-> FALSE]

\* rebase(seq): the new baseline and what stays pending; a rest is a gap.
rebase(seq) ==
  LET n    == advanceContiguous(seq, pending)
      rest == {q \in pending : q > n}
  IN  [durable |-> n, pending |-> rest, gap |-> rest # {}]

\* observe(seq): the state it leaves, and how the facade reacts.
observe(seq) ==
  LET waits == durable = Unknown \/ awaiting
      n     == advanceContiguous(durable, pending \cup {seq})
      Is(kind, d, a, p) == [kind |-> kind, durable |-> d, awaiting |-> a, pending |-> p]
  IN  CASE seq \in pending \/ seq <= durable -> Is("duplicate", durable, awaiting, pending)
        [] seq \notin pending /\ seq > durable /\ Cardinality(pending) >= MaxPending
             -> Is("overflow", durable, TRUE, {})
        [] seq > durable /\ seq \notin pending /\ Cardinality(pending) < MaxPending ->
             CASE waits -> Is("history", durable, awaiting, pending \cup {seq})
               [] ~waits /\ seq # durable + 1 -> Is("gap", durable, TRUE, pending \cup {seq})
               [] ~waits /\ seq = durable + 1 ->
                    Is("progress", n, awaiting, {q \in pending \cup {seq} : q > n})

-----------------------------------------------------------------------------
MonitorInit ==
  /\ log = 0 /\ work = "none" /\ lastSeq = 0
  /\ link = [s \in Streams |-> "down"] /\ sent = 0
  /\ durable = Unknown /\ awaiting = TRUE /\ pending = {}
  /\ degraded = {} /\ tail = <<>>
  /\ listed = FALSE /\ covered = 0 /\ told = [s \in Streams |-> "ok"]
  /\ drops = 0 /\ failures = 0 /\ changes = 0

\* The Host and the runs: an event, a run that starts with its prompt, a poll.
EventDurable ==
  /\ log < MaxEvents /\ log' = log + 1
  /\ UNCHANGED <<work, lastSeq, link, sent, sequencer, degraded, tail, sink, counts>>

RunStarts ==
  /\ work # "running" /\ work' = "running"
  /\ log < MaxEvents /\ log' = log + 1 /\ covered' = log
  /\ UNCHANGED <<lastSeq, link, sent, sequencer, degraded, tail, listed, told, counts>>

Refreshed ==
  /\ lastSeq' = IF work = "running" THEN log ELSE lastSeq
  /\ work' \in IF work = "running" THEN {"running", "over"} ELSE {work}

Poll ==
  /\ work = "running" /\ Refreshed
  /\ UNCHANGED <<log, link, sent, sequencer, degraded, tail, sink, counts>>

-----------------------------------------------------------------------------
\* A stream opens from since() on: restored() if it was degraded.
Open(s) ==
  /\ link[s] = "down"
  /\ link' = [link EXCEPT ![s] = IF s = "mux" THEN "opened" ELSE "up"]
  /\ sent' \in IF s = "mux" THEN Higher(durable, 0) .. log ELSE {sent}
  /\ degraded' = degraded \ {s}
  /\ tail' = IF s \in degraded THEN Append(tail, Notice("restored", s, "none")) ELSE tail
  /\ UNCHANGED <<session, sequencer, sink, counts>>

\* session/subscribed
Subscribed ==
  /\ link["mux"] = "opened" /\ awaiting' = TRUE
  /\ link' = [link EXCEPT !["mux"] = "reconciling"]
  /\ tail' = Append(tail, Notice("reconcile", "mux", "mux"))
  /\ UNCHANGED <<session, sent, durable, pending, degraded, sink, counts>>

\* The bug: an event in sequence is taken as handled.
ReceiveQuiet ==
  /\ link["mux"] = "up" /\ sent < log /\ sent' = sent + 1
  /\ LET o == observe(sent + 1)
     IN  /\ durable' = o.durable /\ awaiting' = o.awaiting /\ pending' = o.pending
         /\ IF o.kind \in {"duplicate", "progress"} THEN UNCHANGED <<link, tail>>
            ELSE /\ link' = [link EXCEPT !["mux"] = "reconciling"]
                 /\ tail' = Append(tail, Notice("reconcile", "mux", "mux"))
  /\ UNCHANGED <<session, degraded, sink, counts>>

\* session/event: nothing for a duplicate; polling-required first for a gap.
Receive ==
  /\ link["mux"] = "up" /\ sent < log /\ sent' = sent + 1
  /\ LET o    == observe(sent + 1)
         gap  == o.kind \in {"gap", "overflow"}
     IN  /\ durable' = o.durable /\ awaiting' = o.awaiting /\ pending' = o.pending
         /\ IF o.kind = "duplicate" THEN UNCHANGED <<link, tail>>
            ELSE /\ link' = [link EXCEPT !["mux"] = IF gap THEN "reporting" ELSE "reconciling"]
                 /\ tail' = Append(tail, Notice(IF gap THEN "gap" ELSE "reconcile", "mux", "mux"))
  /\ UNCHANGED <<session, degraded, sink, counts>>

\* A frame of the host stream about the session.
HostFrame ==
  /\ link["host"] = "up" /\ changes < MaxChanges /\ changes' = changes + 1
  /\ link' = [link EXCEPT !["host"] = "reconciling"]
  /\ tail' = Append(tail, Notice("reconcile", "host", "host"))
  /\ UNCHANGED <<session, sent, sequencer, degraded, sink, drops, failures>>

\* The bug: the sink is not told.
DisconnectedQuiet(s) ==
  /\ drops < MaxDrops /\ drops' = drops + 1
  /\ link[s] \in {"opened", "up"} /\ link' = [link EXCEPT ![s] = "down"]
  /\ degraded' = degraded \cup {s}
  /\ UNCHANGED <<session, sent, sequencer, tail, sink, failures, changes>>

\* disconnected(): a stream ends, or it fails or cannot be opened.
Disconnected(s) ==
  /\ drops < MaxDrops /\ drops' = drops + 1
  /\ \/ link[s] \in {"opened", "up"} /\ link' = [link EXCEPT ![s] = "ending"]
     \/ link[s] \in {"down", "opened", "up"} /\ link' = [link EXCEPT ![s] = "closing"]
  /\ degraded' = degraded \cup {s}
  /\ tail' = Append(tail, Notice("polling", s, s))
  /\ UNCHANGED <<session, sent, sequencer, sink, failures, changes>>

-----------------------------------------------------------------------------
\* The sink is projectEventNotice: it awaits listRuns, and then answers.
SinkLists ==
  /\ tail # <<>> /\ ~listed /\ listed' = TRUE /\ Refreshed
  /\ UNCHANGED <<log, link, sent, sequencer, degraded, tail, covered, told, counts>>

\* The await of a pump returns: it emits the second notice, reads on, or reconnects.
Resume(s, rest) ==
  IF s = "none" THEN tail' = rest /\ UNCHANGED link
  ELSE /\ link' = [link EXCEPT ![s] = CASE link[s] = "reporting" -> "reconciling"
                                       [] link[s] = "reconciling" -> "up"
                                       [] link[s] \in {"ending", "closing"} -> "down"]
       /\ tail' = IF link[s] = "reporting" THEN Append(rest, Notice("reconcile", s, s)) ELSE rest

\* A reconcile publishes summaries and confirms the newest event of the runs.
SinkAnswers ==
  /\ tail # <<>> /\ listed /\ listed' = FALSE
  /\ LET n == Head(tail)
         b == rebase(lastSeq)
     IN  /\ IF n.kind = "reconcile"
            THEN /\ durable' = b.durable /\ pending' = b.pending /\ awaiting' = b.gap
                 /\ covered' = IF work = "none" THEN covered ELSE Higher(covered, lastSeq)
                 /\ Resume(n.waiter, Tail(tail) \o <<Own("rebased")>>
                                     \o (IF b.gap THEN <<Own("gap")>> ELSE <<>>))
            ELSE UNCHANGED <<sequencer, covered>> /\ Resume(n.waiter, Tail(tail))
         /\ told' = IF n.kind \in {"polling", "restored"}
                    THEN [told EXCEPT ![n.stream] = IF n.kind = "polling" THEN "polling" ELSE "ok"]
                    ELSE told
  /\ UNCHANGED <<session, sent, degraded, counts>>

\* The bug: the error of the sink ends the pump.
SinkFailsForGood ==
  /\ tail # <<>> /\ ~listed /\ failures < MaxFailures /\ failures' = failures + 1
  /\ tail' = Tail(tail)
  /\ LET s == Head(tail).waiter
     IN  link' = IF s = "none" THEN link ELSE [link EXCEPT ![s] = "dead"]
  /\ UNCHANGED <<session, sent, sequencer, degraded, sink, drops, changes>>

\* The sink throws: the pump that awaits takes it for an error of its stream, and
\* a pump that is telling of an error ends.
SinkFails ==
  /\ tail # <<>> /\ ~listed /\ failures < MaxFailures /\ failures' = failures + 1
  /\ LET s == Head(tail).waiter
     IN  IF s = "none" THEN tail' = Tail(tail) /\ UNCHANGED <<link, degraded>>
         ELSE IF link[s] = "closing"
         THEN link' = [link EXCEPT ![s] = "dead"] /\ tail' = Tail(tail) /\ UNCHANGED degraded
         ELSE /\ link' = [link EXCEPT ![s] = "closing"] /\ degraded' = degraded \cup {s}
              /\ tail' = Append(Tail(tail), Notice("polling", s, s))
  /\ UNCHANGED <<session, sent, sequencer, sink, drops, changes>>

-----------------------------------------------------------------------------
Pumps == Subscribed \/ Receive \/ HostFrame \/ \E s \in Streams : Open(s) \/ Disconnected(s)

MonitorNext == EventDurable \/ RunStarts \/ Poll \/ Pumps \/ SinkLists \/ SinkAnswers \/ SinkFails

MonitorSpec == MonitorInit /\ [][MonitorNext]_monitorVars

\* The emitted promises are chained, and a pump loops until it is aborted.
MonitorFairness ==
  /\ WF_monitorVars(SinkLists) /\ WF_monitorVars(SinkAnswers)
  /\ WF_monitorVars(Subscribed) /\ WF_monitorVars(Receive)
  /\ \A s \in Streams : WF_monitorVars(Open(s))

-----------------------------------------------------------------------------
\* What is pending is above the baseline, waits for history, is bounded, and
\* the baseline never runs ahead of the durable log: otherwise events are
\* taken for duplicates, or wait for one that will not be asked for.
SequencerConsistent ==
  /\ pending # {} => awaiting
  /\ \A q \in pending : q > durable /\ q <= log
  /\ Cardinality(pending) <= MaxPending
  /\ durable <= log

\* What a reconnect will not ask for again was published: while a run is at
\* work and the mux pump reads on, no event below the baseline is in no summary.
BaselineIsPublished == work = "running" /\ link["mux"] = "up" => durable <= covered

\* The sink knows of every stream that is down, and learns that it is back,
\* unless it failed itself.
StreamStateIsKnown ==
  \A s \in Streams :
    /\ link[s] = "down" /\ s \in degraded => told[s] = "polling"
    /\ told[s] = "polling" /\ s \notin degraded => Queued("restored", s) \/ failures > 0

\* A pump survives one fault, of its stream or of the sink.
PumpSurvives == drops + failures < 2 => \A s \in Streams : link[s] # "dead"

\* Once the Host is quiet, the summaries of a run at work catch up with it.
CatchesUp == <>[](link["mux"] = "dead" \/ work # "running" \/ covered = log)
=============================================================================
