------------------------- MODULE RunControlProofs -------------------------
(***************************************************************************)
(* Proofs about RunControl, for any number of runs, calls and events: what *)
(* a run holds of the history is a reading of it without a gap, the text   *)
(* it shows is its own however its calls overlap, a run that has ended     *)
(* stays so, and when calls follow one another it shows all of its turn    *)
(* and frees its session.                                                  *)
(***************************************************************************)
EXTENDS MCRunCases, WellFoundedInduction, TLAPS

-----------------------------------------------------------------------------
(* The inductive invariant, whether calls overlap or not.                  *)

Authors   == Runs \cup Callers \cup Ends \cup {"web", "draft", "final", "interrupted", "aborted"}
Event     == [type: {"user/message", "assistant/message", "turn/end"}, by: Authors]
EventMaps == UNION {[D -> Event] : D \in SUBSET Nat}
Points    == {"idle", "listing", "listed", "reading", "read", "restoring", "refreshed", "sending",
              "watching", "polling", "polled", "preparing", "searching", "found"}
Acting    == {"preparing", "sending", "watching", "polling", "polled", "searching", "found"}
CallRec   == [pc: Points, run: Runs \cup {None}, then: {"none", "return", "steer", "cancel", "settle"},
              seen: BOOLEAN, base: EventMaps, got: EventMaps]

Shapes ==
  /\ log \in Seq(Event) /\ working \in BOOLEAN /\ due \subseteq Runs \cup Callers
  /\ status \in [Runs -> {"new"} \cup Refreshable \cup Concluded]
  /\ cancelRequested \in [Runs -> BOOLEAN] /\ silent \in [Runs -> BOOLEAN]
  /\ baseline \in [Runs -> Nat] /\ events \in [Runs -> EventMaps]
  /\ text \in [Runs -> SUBSET (Nat \X Authors)]
  /\ active \in Runs \cup {None}
  /\ op \in [Callers -> [state: OpStates, run: Runs \cup {None}]]
  /\ call \in [Callers -> CallRec]

\* Only the newest event of the log may be a draft.
LogInv == \A s \in 1..Len(log) : log[s].by = "draft" => s = Len(log) /\ log[s].type = "assistant/message"

\* The messages somebody has sent.
Sends(m) == m \in due \/ \E s \in 1..Len(log) : log[s].type = "user/message" /\ log[s].by = m

\* What was read of the log from b on: without a gap, and final but for its newest
\* event, which may have been a draft.
ReadOf(es, b) ==
  /\ DOMAIN es \subseteq b + 1 .. Len(log)
  /\ \A s \in DOMAIN es : b + 1 .. s \subseteq DOMAIN es
  /\ \A s \in DOMAIN es :
       \/ es[s] = log[s]
       \/ /\ es[s].type = "assistant/message" /\ log[s].type = "assistant/message"
          /\ \A t \in DOMAIN es : t <= s

RunOK(r) ==
  /\ ReadOf(events[r], baseline[r])
  /\ baseline[r] <= Len(log)
  /\ status[r] = "new" => events[r] = <<>> /\ ~Sends(r)
  /\ \A s \in PromptSeq(r) : baseline[r] < s
  /\ status[r] \in Concluded => ~silent[r]

\* The merge of what a call holds of its run is a reading of the log.
CallOK(c) ==
  LET b == baseline[call[c].run]
  IN  /\ call[c].pc # "idle" => call[c].run \in Runs /\ status[call[c].run] # "new"
      /\ call[c].pc \in {"reading", "polling", "searching"} => ReadOf(call[c].base, b)
      /\ call[c].pc \in {"read", "polled"} => ReadOf(mergeEvents(call[c].base, call[c].got), b)
      /\ call[c].pc = "restoring" => status[call[c].run] \in Concluded

\* A call has an operation, which is about a run, before it changes or asks anything.
OpOK(c) ==
  /\ op[c].state # "none" => op[c].run \in Runs /\ status[op[c].run] # "new"
  /\ Kind[c] = "steer" /\ call[c].pc # "idle" => op[c].state # "none"
  /\ call[c].pc \in Acting \/ call[c].then = "settle" => op[c].state # "none"
  /\ Sends(c) => op[c].state # "none" /\ Kind[c] = "steer"
  /\ call[c].then = "cancel" => Kind[c] = "cancel"
  /\ call[c].then = "steer" => Kind[c] = "steer"

IInv ==
  /\ Shapes /\ LogInv /\ OwnText
  /\ \A r \in Runs : RunOK(r)
  /\ \A c \in Callers : CallOK(c) /\ OpOK(c)

-----------------------------------------------------------------------------
(* Calls that follow one another.                                          *)

Reading == {"listing", "listed", "reading", "read"}

SerialInv ==
  /\ \A c, d \in Callers : At(c, "idle") \/ At(d, "idle") \/ c = d
  /\ \A c \in Callers : call[c].pc \in Reading => status[call[c].run] \in Refreshable
  /\ \A r \in Runs : active = r <=> status[r] \in Refreshable
  /\ ConclusionIsTrue

-----------------------------------------------------------------------------
(* The operators of the model.                                             *)

LEMMA MinOf ==
  ASSUME NEW S \in SUBSET Nat, S # {}
  PROVE  Min(S) \in S /\ \A y \in S : Min(S) <= y
<1> DEFINE R == OpToRel(<, Nat)
<1>1. IsWellFoundedOn(R, Nat)
    BY NatLessThanWellFounded
<1>2. \A x, y \in Nat : y < x => <<y, x>> \in R
    BY DEF OpToRel
<1> HIDE DEF R
<1>3. PICK m \in S : \A y \in S : <<y, m>> \notin R
    BY <1>1, WFMin
<1>4. \A y \in S : y \in Nat /\ ~(y < m)
    BY <1>2, <1>3
<1>5. \A y \in S : m <= y
    BY <1>4
<1> QED
    BY <1>5 DEF Min

LEMMA MaxOf ==
  ASSUME NEW n \in Nat, NEW S \in SUBSET (0..n), S # {}
  PROVE  Max(S) \in S /\ \A y \in S : y <= Max(S)
<1> DEFINE T == {n - y : y \in S}
<1>1. T \in SUBSET Nat /\ T # {}
  <2>1. \A y \in S : y \in 0..n /\ n - y \in Nat
      OBVIOUS
  <2> QED
      BY <2>1
<1>2. PICK m \in T : \A y \in T : m <= y
    BY <1>1, MinOf
<1>3. \A y \in S : n - y \in T
    OBVIOUS
<1>4. n - m \in S /\ \A y \in S : y <= n - m
    BY <1>2, <1>3
<1> QED
    BY <1>4 DEF Max

LEMMA MapOf ==
  ASSUME NEW es \in EventMaps
  PROVE  DOMAIN es \subseteq Nat /\ \A s \in DOMAIN es : es[s] \in Event
BY DEF EventMaps

LEMMA Events ==
  ASSUME Shapes
  PROVE  Len(log) \in Nat /\ \A s \in 1..Len(log) : log[s] \in Event
BY DEF Shapes

\* The next page starts with the newest event that was read (incrementalStartSeq).
LEMMA Cursor ==
  ASSUME Shapes, NEW b \in Nat, b <= Len(log), NEW es \in EventMaps, ReadOf(es, b)
  PROVE  LET from == incrementalStartSeq(es, b) IN
           /\ from \in b .. Len(log)
           /\ \A s \in DOMAIN es : s <= from => s < highestSeq(es, b)
           /\ \A s \in b + 1 .. from : s \in DOMAIN es
           /\ DOMAIN es = {} \/ highestSeq(es, b) \in DOMAIN es
           /\ \A s \in DOMAIN es : s <= highestSeq(es, b)
<1> DEFINE H == highestSeq(es, b)
<1>1. DOMAIN es \subseteq b + 1 .. Len(log) /\ Len(log) \in Nat
    BY Events DEF ReadOf
<1>2. H \in DOMAIN es \cup {b} /\ \A y \in DOMAIN es \cup {b} : y <= H
  <2>1. DOMAIN es \cup {b} \in SUBSET (0..Len(log)) /\ DOMAIN es \cup {b} # {}
      BY <1>1
  <2> QED
      BY <1>1, <2>1, MaxOf DEF highestSeq
<1>3. CASE H = b
    BY <1>1, <1>2, <1>3 DEF incrementalStartSeq
<1>4. CASE H # b
  <2>1. H \in DOMAIN es /\ H - 1 >= b
      BY <1>1, <1>2, <1>4
  <2>2. {b, H - 1} \in SUBSET (0..Len(log)) /\ {b, H - 1} # {}
      BY <1>1, <2>1
  <2>3. Max({b, H - 1}) = H - 1
    <3>1. Max({b, H - 1}) \in {b, H - 1} /\ \A y \in {b, H - 1} : y <= Max({b, H - 1})
        BY <1>1, <2>2, MaxOf
    <3> QED
        BY <1>1, <2>1, <3>1
  <2>4. incrementalStartSeq(es, b) = H - 1
      BY <1>4, <2>3 DEF incrementalStartSeq
  <2>5. b + 1 .. H \subseteq DOMAIN es
      BY <2>1 DEF ReadOf
  <2> QED
      BY <1>1, <1>2, <2>1, <2>4, <2>5
<1> QED
    BY <1>3, <1>4

\* What is read now and what was read before make up the log so far (mergeEvents).
LEMMA Merged ==
  ASSUME Shapes, NEW b \in Nat, b <= Len(log), NEW es \in EventMaps, ReadOf(es, b)
  PROVE  LET got == historyAfter(incrementalStartSeq(es, b)) IN
           got \in EventMaps /\ ReadOf(mergeEvents(es, got), b)
<1> DEFINE from == incrementalStartSeq(es, b)
           got == historyAfter(from)
           all == mergeEvents(es, got)
<1>1. /\ from \in b .. Len(log)
      /\ \A s \in DOMAIN es : s <= from => s < highestSeq(es, b)
      /\ \A s \in b + 1 .. from : s \in DOMAIN es
      /\ DOMAIN es = {} \/ highestSeq(es, b) \in DOMAIN es
    BY Cursor
<1>2. DOMAIN es \subseteq b + 1 .. Len(log) /\ Len(log) \in Nat
    BY Events DEF ReadOf
<1> HIDE DEF from
<1>3. DOMAIN got = from + 1 .. Len(log) /\ \A s \in from + 1 .. Len(log) : got[s] = log[s]
    BY DEF historyAfter
<1>4. got \in [from + 1 .. Len(log) -> Event] /\ from + 1 .. Len(log) \in SUBSET Nat
    BY <1>1, <1>2, Events DEF historyAfter
<1>5. got \in EventMaps
    BY <1>4 DEF EventMaps
<1>6. DOMAIN all = b + 1 .. Len(log)
    BY <1>1, <1>2, <1>3 DEF mergeEvents
<1>7. \A s \in b + 1 .. Len(log) : all[s] = log[s]
  <2>1. SUFFICES ASSUME NEW s \in b + 1 .. Len(log) PROVE all[s] = log[s]
      OBVIOUS
  <2>2. CASE s > from
      BY <1>1, <1>2, <1>3, <2>2 DEF mergeEvents
  <2>3. CASE s <= from
    <3>1. s \in DOMAIN es /\ s \notin DOMAIN got
        BY <1>1, <1>2, <1>3, <2>3
    <3>2. all[s] = es[s]
        BY <3>1 DEF mergeEvents
    <3>3. highestSeq(es, b) \in DOMAIN es /\ ~(highestSeq(es, b) <= s)
        BY <1>1, <1>2, <2>3, <3>1
    <3> QED
        BY <3>1, <3>2, <3>3 DEF ReadOf
  <2> QED
      BY <1>1, <1>2, <2>2, <2>3
<1> HIDE DEF all
<1>8. ReadOf(all, b)
    BY <1>2, <1>6, <1>7 DEF ReadOf
<1> QED
    BY <1>5, <1>8 DEF from, all

-----------------------------------------------------------------------------
(* What a step may do to the log, the operations and the runs.             *)

\* An event is appended, or the newest one, an assistant's, gets its final form.
LogMoves ==
  /\ Len(log) <= Len(log)'
  /\ \A s \in 1..Len(log) :
       \/ log'[s] = log[s]
       \/ s = Len(log) /\ log[s].type = "assistant/message" /\ log'[s].type = "assistant/message"

OpMoves == \A c \in Callers : Kind[c] = "steer" /\ op[c].run \in Runs => op'[c].run = op[c].run

RunMoves(r) ==
  /\ status[r] # "new" => status'[r] # "new" /\ baseline'[r] = baseline[r]
  /\ status[r] \in Concluded => status'[r] \in Concluded

Others(c) == \A d \in Callers \ {c} : call'[d] = call[d] /\ op'[d] = op[d]

LEMMA Unmoved ==
  ASSUME Shapes, UNCHANGED log
  PROVE  LogMoves
BY Events DEF LogMoves

LEMMA ReadStays ==
  ASSUME Shapes, Shapes', LogMoves, NEW es, NEW b \in Nat, ReadOf(es, b)
  PROVE  ReadOf(es, b)'
<1>1. Len(log) \in Nat /\ Len(log)' \in Nat /\ Len(log) <= Len(log)'
    BY DEF Shapes, LogMoves
<1>2. DOMAIN es \subseteq b + 1 .. Len(log)'
    BY <1>1 DEF ReadOf
<1>3. ASSUME NEW s \in DOMAIN es
      PROVE  \/ es[s] = log'[s]
             \/ /\ es[s].type = "assistant/message" /\ log'[s].type = "assistant/message"
                /\ \A t \in DOMAIN es : t <= s
  <2>1. s \in 1..Len(log) /\ \A t \in DOMAIN es : t <= Len(log)
      BY <1>1 DEF ReadOf
  <2> QED
      BY <2>1 DEF ReadOf, LogMoves
<1> QED
    BY <1>2, <1>3 DEF ReadOf

\* The turn of a run only grows ...
LEMMA TurnGrows ==
  ASSUME IInv, Shapes', LogMoves, OpMoves, NEW r \in Runs
  PROVE  OwnTurn(r) \subseteq OwnTurn(r)'
<1>1. Len(log) \in Nat /\ Len(log)' \in Nat /\ Len(log) <= Len(log)'
    BY DEF IInv, Shapes, LogMoves
<1>3. \A s \in 1..Len(log) : log'[s].type = log[s].type /\ (log[s].type = "user/message" => log'[s] = log[s])
    BY <1>1 DEF LogMoves
<1>4. OwnedRpcIds(r) \subseteq OwnedRpcIds(r)'
    BY DEF OwnedRpcIds, OpMoves
<1>5. PromptSeq(r) \subseteq PromptSeq(r)'
  <2>1. \A s \in PromptSeq(r) : s \in 1..Len(log) /\ log[s] = [type |-> "user/message", by |-> r]
      BY DEF PromptSeq
  <2>2. \A s \in PromptSeq(r) : s \in 1..Len(log)' /\ log'[s] = [type |-> "user/message", by |-> r]
      BY <1>1, <1>3, <2>1
  <2> QED
      BY <2>2 DEF PromptSeq
<1>6. ASSUME NEW s \in OwnTurn(r) PROVE s \in OwnTurn(r)'
  <2>1. s \in 1..Len(log)
      BY DEF OwnTurn
  <2>2. PICK p \in PromptSeq(r) :
          /\ p < s
          /\ \A u \in p + 1 .. s : log[u].type = "user/message" => log[u].by \in OwnedRpcIds(r)
      BY DEF OwnTurn
  <2>3. p \in PromptSeq(r)' /\ p \in 1..Len(log)
      BY <1>5 DEF PromptSeq
  <2>4. \A u \in p + 1 .. s : log'[u].type = "user/message" => log'[u].by \in OwnedRpcIds(r)'
    <3>1. \A u \in p + 1 .. s : u \in 1..Len(log)
        BY <1>1, <2>1, <2>3
    <3> QED
        BY <1>3, <1>4, <2>2, <3>1
  <2>5. s \in 1..Len(log)'
      BY <1>1, <2>1
  <2> QED
      BY <2>2, <2>3, <2>4, <2>5 DEF OwnTurn
<1> QED
    BY <1>6

\* ... at its end.
LEMMA TurnKept ==
  ASSUME IInv, Shapes', LogMoves, OpMoves, NEW r \in Runs, NEW s \in 1..Len(log), s \in OwnTurn(r)'
  PROVE  s \in OwnTurn(r)
<1>1. Len(log) \in Nat /\ Len(log)' \in Nat /\ Len(log) <= Len(log)'
    BY DEF IInv, Shapes, LogMoves
<1>2. \A u \in 1..Len(log) : log'[u].type = log[u].type /\ (log[u].type = "user/message" => log'[u] = log[u])
    BY <1>1 DEF LogMoves
<1>3. PICK p \in PromptSeq(r)' :
        /\ p < s
        /\ \A u \in p + 1 .. s : log'[u].type = "user/message" => log'[u].by \in OwnedRpcIds(r)'
    BY DEF OwnTurn
<1>4. p \in 1..Len(log) /\ log'[p] = [type |-> "user/message", by |-> r]
    BY <1>1, <1>3 DEF PromptSeq
<1>5. p \in PromptSeq(r)
    BY <1>2, <1>4 DEF PromptSeq
<1>6. ASSUME NEW u \in p + 1 .. s, log[u].type = "user/message"
      PROVE  log[u].by \in OwnedRpcIds(r)
  <2>1. u \in 1..Len(log)
      BY <1>1, <1>4
  <2>2. log[u].by \in OwnedRpcIds(r)'
      BY <1>2, <1>3, <1>6, <2>1
  <2>3. CASE log[u].by # r
    <3>1. PICK c \in Callers : log[u].by = c /\ Kind[c] = "steer" /\ op'[c].run = r
        BY <2>2, <2>3 DEF OwnedRpcIds
    <3>2. op[c].state # "none" /\ op[c].run \in Runs
        BY <1>6, <2>1, <3>1 DEF IInv, OpOK, Sends
    <3> QED
        BY <3>1, <3>2 DEF OpMoves, OwnedRpcIds
  <2> QED
      BY <2>3 DEF OwnedRpcIds
<1> QED
    BY <1>3, <1>5, <1>6 DEF OwnTurn

\* What ownedEvents leaves of a reading is part of the turn.
LEMMA OwnedIsOwn ==
  ASSUME IInv, NEW r \in Runs, NEW es \in EventMaps, ReadOf(es, baseline[r]), PromptIn(r, es) # {}
  PROVE  /\ Min(PromptIn(r, es)) \in PromptSeq(r)
         /\ \A p \in PromptIn(r, es) : Min(PromptIn(r, es)) <= p
         /\ ownedEvents(r, es, Min(PromptIn(r, es))) \subseteq OwnTurn(r) \cap DOMAIN es
<1> DEFINE p == Min(PromptIn(r, es))
<1>1. Len(log) \in Nat /\ baseline[r] \in Nat /\ DOMAIN es \subseteq baseline[r] + 1 .. Len(log)
    BY DEF IInv, Shapes, ReadOf
<1>2. p \in PromptIn(r, es) /\ \A q \in PromptIn(r, es) : p <= q
  <2>1. PromptIn(r, es) \in SUBSET Nat
      BY <1>1 DEF PromptIn, Of
  <2> QED
      BY <2>1, MinOf
<1>3. \A s \in DOMAIN es : es[s] \in Event /\ s \in 1..Len(log) /\ log[s] \in Event
    BY <1>1, MapOf, Events DEF IInv
<1>4. \A s \in DOMAIN es : es[s].type = log[s].type /\ (log[s].type = "user/message" => es[s] = log[s])
    BY <1>3 DEF ReadOf
<1>5. p \in PromptSeq(r) /\ p \in DOMAIN es
  <2>1. p \in DOMAIN es /\ es[p].type = "user/message" /\ es[p].by = r
      BY <1>2 DEF PromptIn, Of
  <2>2. log[p] = es[p] /\ p \in 1..Len(log) /\ es[p] \in Event
      BY <1>3, <1>4, <2>1
  <2>3. es[p] = [type |-> "user/message", by |-> r]
      BY <2>1, <2>2 DEF Event
  <2> QED
      BY <2>1, <2>2, <2>3 DEF PromptSeq
<1> HIDE DEF p
<1>6. ASSUME NEW s \in ownedEvents(r, es, p) PROVE s \in OwnTurn(r) /\ s \in DOMAIN es
  <2>1. s \in DOMAIN es /\ s > p
      BY DEF ownedEvents
  <2>2. \A f \in Of(es, "user/message") : f > p /\ es[f].by \notin OwnedRpcIds(r) => s < f
      BY DEF ownedEvents
  <2>3. \A u \in p + 1 .. s : u \in DOMAIN es
      BY <1>1, <1>5, <2>1 DEF ReadOf
  <2>4. \A u \in p + 1 .. s : log[u].type = "user/message" => log[u].by \in OwnedRpcIds(r)
    <3>1. SUFFICES ASSUME NEW u \in p + 1 .. s, log[u].type = "user/message", log[u].by \notin OwnedRpcIds(r)
                   PROVE  FALSE
        OBVIOUS
    <3>2. u \in Of(es, "user/message") /\ es[u].by \notin OwnedRpcIds(r) /\ u > p /\ u <= s
        BY <1>1, <1>4, <1>5, <2>1, <2>3, <3>1 DEF Of
    <3>3. s < u /\ s \in Nat /\ u \in Nat
        BY <1>1, <2>1, <2>2, <3>2
    <3> QED
        BY <3>2, <3>3
  <2> QED
      BY <1>3, <1>5, <2>1, <2>4 DEF OwnTurn
<1> QED
    BY <1>2, <1>5, <1>6 DEF p

-----------------------------------------------------------------------------
(* What a step keeps of the invariant.                                     *)

LEMMA TextKept ==
  ASSUME IInv, Shapes', LogMoves, OpMoves, UNCHANGED text
  PROVE  OwnText'
<1> SUFFICES ASSUME NEW r \in Runs, NEW t \in text[r] PROVE t[1] \in OwnTurn(r)'
    BY DEF OwnText
<1> QED
    BY TurnGrows DEF IInv, OwnText

LEMMA RunKept ==
  ASSUME IInv, Shapes', LogMoves, NEW r \in Runs, RunMoves(r), Sends(r)' => Sends(r),
         status'[r] = "new" => status[r] = "new", events'[r] = events[r], baseline'[r] = baseline[r],
         status'[r] \in Concluded => ~silent'[r]
  PROVE  RunOK(r)'
<1>1. Len(log) \in Nat /\ Len(log)' \in Nat /\ Len(log) <= Len(log)' /\ baseline[r] \in Nat
    BY DEF IInv, Shapes, LogMoves
<1>2. RunOK(r)
    BY DEF IInv
<1>3. ReadOf(events[r], baseline[r])'
  <2>1. \A es, b : es = events[r] /\ b = baseline[r] => ReadOf(es, b)'
      BY <1>1, <1>2, ReadStays DEF IInv, RunOK
  <2> QED
      BY <2>1 DEF ReadOf
<1>4. ASSUME NEW s \in PromptSeq(r)' PROVE baseline[r] < s
  <2>1. s \in 1..Len(log)' /\ log'[s] = [type |-> "user/message", by |-> r]
      BY DEF PromptSeq
  <2>2. CASE s <= Len(log)
    <3>1. s \in 1..Len(log) /\ log'[s].type = "user/message"
        BY <1>1, <2>1, <2>2
    <3>2. log'[s] = log[s]
        BY <3>1 DEF LogMoves
    <3>3. s \in PromptSeq(r)
        BY <2>1, <3>1, <3>2 DEF PromptSeq
    <3> QED
        BY <1>2, <3>3 DEF RunOK
  <2> QED
      BY <1>1, <1>2, <2>1, <2>2 DEF RunOK
<1> QED
    BY <1>1, <1>2, <1>3, <1>4 DEF RunOK

\* A call that the step is not about.
LEMMA CallKept ==
  ASSUME IInv, Shapes', LogMoves, NEW d \in Callers, call'[d] = call[d], \A r \in Runs : RunMoves(r)
  PROVE  CallOK(d)'
<1>1. CASE call[d].pc = "idle"
    BY <1>1 DEF CallOK
<1>2. CASE call[d].pc # "idle"
  <2> DEFINE r == call[d].run
  <2>1. r \in Runs /\ status[r] # "new" /\ baseline[r] \in Nat
      BY <1>2 DEF IInv, CallOK, Shapes
  <2>2. status'[r] # "new" /\ baseline'[r] = baseline[r] /\ (status[r] \in Concluded => status'[r] \in Concluded)
      BY <2>1 DEF RunMoves
  <2>3. \A es, b : b \in Nat /\ ReadOf(es, b) => ReadOf(es, b)'
      BY ReadStays DEF IInv
  <2>4. CallOK(d)
      BY DEF IInv
  <2>5. call'[d].run = r /\ call'[d].pc = call[d].pc
      OBVIOUS
  <2>6. call[d].pc \in {"reading", "polling", "searching"} => ReadOf(call[d].base, baseline[call[d].run])'
    <3>1. \A es, b : es = call[d].base /\ b = baseline[r] /\ call[d].pc \in {"reading", "polling", "searching"}
            => ReadOf(es, b)'
        BY <2>1, <2>3, <2>4 DEF CallOK
    <3> QED
        BY <2>2, <3>1 DEF ReadOf
  <2>7. call[d].pc \in {"read", "polled"}
          => ReadOf(mergeEvents(call[d].base, call[d].got), baseline[call[d].run])'
    <3>1. \A es, b : es = mergeEvents(call[d].base, call[d].got) /\ b = baseline[r] /\ call[d].pc \in {"read", "polled"}
            => ReadOf(es, b)'
        BY <2>1, <2>3, <2>4 DEF CallOK
    <3> QED
        BY <2>2, <3>1 DEF ReadOf
  <2> QED
      BY <2>1, <2>2, <2>4, <2>5, <2>6, <2>7 DEF CallOK
<1> QED
    BY <1>1, <1>2

LEMMA OpKept ==
  ASSUME IInv, NEW d \in Callers, call'[d] = call[d], op'[d] = op[d], Sends(d)' => Sends(d),
         \A r \in Runs : RunMoves(r)
  PROVE  OpOK(d)'
BY DEF IInv, OpOK, RunMoves

LEMMA EmptyMap == <<>> \in EventMaps /\ DOMAIN <<>> = {}
<1>1. <<>> \in [{} -> Event] /\ DOMAIN <<>> = {}
    OBVIOUS
<1> QED
    BY <1>1 DEF EventMaps

OpRec == [state: OpStates, run: Runs \cup {None}]

\* What may happen to the log while the runs stay as they are.
LogSteps(c) ==
  /\ LogMoves /\ LogInv'
  /\ log' \in Seq(Event) /\ working' \in BOOLEAN /\ due' \subseteq Runs \cup Callers
  /\ \A m \in (Runs \cup Callers) \ {c} : Sends(m)' => Sends(m)

RunsStay ==
  /\ UNCHANGED <<status, baseline, events, text, silent>>
  /\ cancelRequested' \in [Runs -> BOOLEAN] /\ active' \in Runs \cup {None}

\* What every step keeps.
Kept == IInv' /\ LogMoves /\ OpMoves /\ \A r \in Runs : RunMoves(r)

\* The Host moves, and no call does.
LEMMA HostMoves ==
  ASSUME IInv, LogSteps(None), UNCHANGED <<runs, op, call>>
  PROVE  Kept
<1> USE ControlAssumption
<1>1. Shapes'
    BY DEF IInv, Shapes, LogSteps, runs
<1>2. LogMoves /\ OpMoves /\ \A r \in Runs : RunMoves(r)
    BY DEF LogSteps, OpMoves, RunMoves, runs
<1>3. \A m \in Runs \cup Callers : Sends(m)' => Sends(m)
    BY DEF LogSteps
<1>4. OwnText'
    BY <1>1, <1>2, TextKept DEF runs
<1>5. ASSUME NEW r \in Runs PROVE RunOK(r)'
  <2>1. status[r] \in Concluded => ~silent[r]
      BY DEF IInv, RunOK
  <2> QED
      BY <1>1, <1>2, <1>3, <2>1, RunKept DEF runs
<1>6. ASSUME NEW d \in Callers PROVE CallOK(d)' /\ OpOK(d)'
    BY <1>1, <1>2, <1>3, CallKept, OpKept
<1> QED
    BY <1>1, <1>2, <1>4, <1>5, <1>6 DEF Kept, IInv, LogSteps

\* One call moves, and with it at most the log.
LEMMA CallMoves ==
  ASSUME IInv, NEW c \in Callers, NEW v \in CallRec, NEW w \in OpRec,
         call' = [call EXCEPT ![c] = v], op' = [op EXCEPT ![c] = w],
         LogSteps(c), RunsStay, Sends(c)' => Sends(c) \/ (Kind[c] = "steer" /\ w.state # "none"),
         v.pc # "idle" => v.run \in Runs /\ status[v.run] # "new",
         v.pc \in {"reading", "polling", "searching"} => ReadOf(v.base, baseline[v.run]),
         v.pc \in {"read", "polled"} => ReadOf(mergeEvents(v.base, v.got), baseline[v.run]),
         v.pc = "restoring" => status[v.run] \in Concluded,
         w.state = "none" => op[c].state = "none",
         w.state # "none" => w.run \in Runs /\ status[w.run] # "new",
         Kind[c] = "steer" /\ v.pc # "idle" => w.state # "none",
         v.pc \in Acting \/ v.then = "settle" => w.state # "none",
         v.then = "cancel" => Kind[c] = "cancel", v.then = "steer" => Kind[c] = "steer",
         Kind[c] = "steer" /\ op[c].run \in Runs => w.run = op[c].run
  PROVE  Kept
<1> USE ControlAssumption
<1>1. Shapes'
    BY DEF IInv, Shapes, LogSteps, RunsStay, OpRec
<1>2. /\ call'[c] = v /\ op'[c] = w
      /\ \A d \in Callers \ {c} : call'[d] = call[d] /\ op'[d] = op[d]
    BY DEF IInv, Shapes
<1>3. LogMoves /\ OpMoves /\ \A r \in Runs : RunMoves(r)
    BY <1>2 DEF LogSteps, OpMoves, RunMoves, RunsStay
<1>4. OwnText'
    BY <1>1, <1>3, TextKept DEF RunsStay
<1>5. ASSUME NEW r \in Runs PROVE RunOK(r)'
  <2>1. status[r] \in Concluded => ~silent[r]
      BY DEF IInv, RunOK
  <2>2. Sends(r)' => Sends(r)
      BY DEF LogSteps
  <2> QED
      BY <1>1, <1>3, <2>1, <2>2, RunKept DEF RunsStay
<1>6. ASSUME NEW d \in Callers \ {c} PROVE CallOK(d)' /\ OpOK(d)'
  <2>1. Sends(d)' => Sends(d)
      BY DEF LogSteps
  <2> QED
      BY <1>1, <1>2, <1>3, <2>1, CallKept, OpKept
<1>7. CallOK(c)'
  <2>1. \A es, b : b \in Nat /\ ReadOf(es, b) => ReadOf(es, b)'
      BY <1>1, <1>3, ReadStays DEF IInv
  <2>2. v.pc \in {"reading", "polling", "searching", "read", "polled"} => baseline[v.run] \in Nat
      BY DEF IInv, Shapes
  <2>3. v.pc \in {"reading", "polling", "searching"} => ReadOf(v.base, baseline[v.run])'
    <3>1. \A es, b : b \in Nat /\ es = v.base /\ ReadOf(es, b) => ReadOf(es, b)'
        BY <2>1
    <3> QED
        BY <2>2, <3>1 DEF RunsStay, ReadOf
  <2>4. v.pc \in {"read", "polled"} => ReadOf(mergeEvents(v.base, v.got), baseline[v.run])'
    <3>1. \A es, b : b \in Nat /\ es = mergeEvents(v.base, v.got) /\ ReadOf(es, b) => ReadOf(es, b)'
        BY <2>1
    <3> QED
        BY <2>2, <3>1 DEF RunsStay, ReadOf
  <2> QED
      BY <1>2, <2>3, <2>4 DEF CallOK, RunsStay
<1>8. OpOK(c)'
    BY <1>2 DEF OpOK, IInv, RunsStay
<1> QED
    BY <1>1, <1>3, <1>4, <1>5, <1>6, <1>7, <1>8 DEF Kept, IInv, LogSteps

LEMMA LogStays ==
  ASSUME IInv, NEW c, UNCHANGED log, working' \in BOOLEAN, due' \subseteq Runs \cup Callers,
         \A m \in (Runs \cup Callers) \ {c} : m \in due' => m \in due
  PROVE  /\ LogSteps(c) /\ \A es, b : ReadOf(es, b)' <=> ReadOf(es, b)
         /\ c \notin due' \/ c \in due => (Sends(c)' => Sends(c))
<1>1. LogMoves /\ log' \in Seq(Event)
    BY Unmoved DEF IInv, Shapes
<1>2. LogInv'
    BY DEF IInv, LogInv
<1>3. \A es, b : ReadOf(es, b)' <=> ReadOf(es, b)
    BY DEF ReadOf
<1> QED
    BY <1>1, <1>2, <1>3 DEF LogSteps, Sends

-----------------------------------------------------------------------------
(* One lemma per action: what it makes of the call and of its operation.   *)

\* The operation of a call may move on, and the call return.
LEMMA Returning ==
  ASSUME IInv, NEW c \in Callers, NEW w \in OpRec, call' = [call EXCEPT ![c] = NoCall],
         op' = [op EXCEPT ![c] = w], LogSteps(c), RunsStay,
         Sends(c)' => Sends(c) \/ (Kind[c] = "steer" /\ w.state # "none"),
         w.state = "none" <=> op[c].state = "none", w.run = op[c].run
  PROVE  Kept
<1>1. NoCall \in CallRec /\ NoCall.pc = "idle" /\ NoCall.pc \notin Acting /\ NoCall.then = "none"
    BY EmptyMap DEF NoCall, CallRec, Points, Acting
<1>2. w.state # "none" => w.run \in Runs /\ status[w.run] # "new"
    BY DEF IInv, OpOK
<1> HIDE DEF NoCall
<1> QED
    BY <1>1, <1>2, CallMoves

\* The call goes on about the same run.
LEMMA Going ==
  ASSUME IInv, NEW c \in Callers, NEW p \in Points, NEW w \in OpRec,
         call' = [call EXCEPT ![c].pc = p], op' = [op EXCEPT ![c] = w], LogSteps(c), RunsStay,
         Sends(c)' => Sends(c) \/ (Kind[c] = "steer" /\ w.state # "none"),
         ~At(c, "idle"), p \notin {"reading", "polling", "searching", "read", "polled", "restoring"},
         w.state # "none" \/ (op[c].state = "none" /\ p \notin Acting),
         w.run = op[c].run \/ Kind[c] # "steer",
         w.state # "none" => w.run \in Runs /\ status[w.run] # "new"
  PROVE  Kept
<1> DEFINE v == [call[c] EXCEPT !.pc = p]
<1>1. /\ call[c] \in CallRec /\ call[c].run \in Runs /\ status[call[c].run] # "new"
      /\ OpOK(c) /\ call' = [call EXCEPT ![c] = v]
    BY DEF IInv, Shapes, CallOK, At
<1>2. v \in CallRec /\ v.pc = p /\ v.run = call[c].run /\ v.then = call[c].then
    BY <1>1 DEF CallRec
<1> HIDE DEF v
<1>4. w.state = "none" => op[c].state = "none"
    OBVIOUS
<1>5. Kind[c] = "steer" /\ v.pc # "idle" => w.state # "none"
    BY <1>1 DEF OpOK, At
<1>6. v.pc \in Acting \/ v.then = "settle" => w.state # "none"
    BY <1>1, <1>2 DEF OpOK
<1>7. (v.then = "cancel" => Kind[c] = "cancel") /\ (v.then = "steer" => Kind[c] = "steer")
    BY <1>1, <1>2 DEF OpOK
<1> QED
    BY <1>1, <1>2, <1>4, <1>5, <1>6, <1>7, CallMoves

\* The call holds what it has read.
LEMMA Holding ==
  ASSUME IInv, NEW c \in Callers, NEW p \in Points, NEW seen \in BOOLEAN,
         NEW base \in EventMaps, NEW got \in EventMaps,
         call' = [call EXCEPT ![c] = [call[c] EXCEPT !.pc = p, !.seen = seen, !.base = base, !.got = got]],
         UNCHANGED <<log, working, due, op>>, RunsStay,
         ~At(c, "idle"), p # "restoring", p \in Acting => op[c].state # "none",
         p \in {"reading", "polling", "searching"} => ReadOf(base, baseline[call[c].run]),
         p \in {"read", "polled"} => ReadOf(mergeEvents(base, got), baseline[call[c].run])
  PROVE  Kept
<1> DEFINE v == [call[c] EXCEPT !.pc = p, !.seen = seen, !.base = base, !.got = got]
           w == op[c]
<1>1. /\ call[c] \in CallRec /\ call[c].run \in Runs /\ status[call[c].run] # "new"
      /\ OpOK(c) /\ w = op[c] /\ w \in OpRec /\ op' = [op EXCEPT ![c] = w]
      /\ call' = [call EXCEPT ![c] = v]
    BY DEF IInv, Shapes, CallOK, At, OpRec
<1>2. /\ v \in CallRec /\ v.pc = p /\ v.run = call[c].run /\ v.then = call[c].then
      /\ v.base = base /\ v.got = got
    BY <1>1 DEF CallRec
<1> HIDE DEF v, w
<1>3. LogSteps(c) /\ (Sends(c)' => Sends(c))
    BY LogStays DEF IInv, Shapes
<1>4. /\ v.pc \in {"reading", "polling", "searching"} => ReadOf(v.base, baseline[v.run])
      /\ v.pc \in {"read", "polled"} => ReadOf(mergeEvents(v.base, v.got), baseline[v.run])
    BY <1>2
<1>6. /\ v.pc # "restoring" /\ w.run = op[c].run /\ (w.state = "none" => op[c].state = "none")
      /\ w.state # "none" => w.run \in Runs /\ status[w.run] # "new"
      /\ Kind[c] = "steer" /\ v.pc # "idle" => w.state # "none"
      /\ v.then = "cancel" => Kind[c] = "cancel"
      /\ v.then = "steer" => Kind[c] = "steer"
    BY <1>1, <1>2 DEF OpOK, At
<1>7. v.pc \in Acting \/ v.then = "settle" => w.state # "none"
    BY <1>1, <1>2 DEF OpOK
<1>8. v \in CallRec /\ call' = [call EXCEPT ![c] = v] /\ w \in OpRec /\ op' = [op EXCEPT ![c] = w]
    BY <1>1, <1>2
<1>9. v.pc # "idle" => v.run \in Runs /\ status[v.run] # "new"
    BY <1>1, <1>2
<1>10. /\ Sends(c)' => Sends(c) \/ (Kind[c] = "steer" /\ w.state # "none")
       /\ v.pc = "restoring" => status[v.run] \in Concluded
       /\ Kind[c] = "steer" /\ op[c].run \in Runs => w.run = op[c].run
    BY <1>3, <1>6
<1> QED
    BY <1>3, <1>4, <1>6, <1>7, <1>8, <1>9, <1>10, CallMoves

LEMMA HostListsKeeps ==
  ASSUME IInv, NEW c \in Callers, HostLists(c)
  PROVE  Kept
<1> DEFINE k == call[c]
           held == [k EXCEPT !.pc = "listed", !.seen = working, !.base = k.base, !.got = k.got]
<1>1. call \in [Callers -> CallRec] /\ k \in CallRec /\ working \in BOOLEAN
    BY DEF IInv, Shapes
<1>2. held = [[k EXCEPT !.pc = "listed"] EXCEPT !.seen = working]
    BY <1>1 DEF CallRec
<1>3. call' = [call EXCEPT ![c] = held]
    BY <1>1, <1>2 DEF HostLists
<1>4. RunsStay
    BY DEF HostLists, RunsStay, runs, IInv, Shapes
<1>5. k.base \in EventMaps /\ k.got \in EventMaps /\ "listed" \in Points \ Acting
    BY <1>1 DEF CallRec, Points, Acting
<1>6. UNCHANGED <<log, working, due, op>> /\ ~At(c, "idle")
    BY DEF HostLists, host, At
<1> QED
    BY <1>1, <1>3, <1>4, <1>5, <1>6, Holding

LEMMA ListedKeeps ==
  ASSUME IInv, NEW c \in Callers, Listed(c)
  PROVE  Kept
<1> DEFINE k == call[c]
           es == events[k.run]
           held == [k EXCEPT !.pc = "reading", !.seen = k.seen, !.base = es, !.got = k.got]
<1>1. /\ call \in [Callers -> CallRec] /\ k \in CallRec /\ k.run \in Runs
      /\ es \in EventMaps /\ ReadOf(es, baseline[k.run]) /\ At(c, "listed")
    BY DEF IInv, Shapes, CallOK, RunOK, Listed, At
<1>2. held = [[k EXCEPT !.pc = "reading"] EXCEPT !.base = es]
    BY <1>1 DEF CallRec
<1>3. call' = [call EXCEPT ![c] = held]
    BY <1>1, <1>2 DEF Listed
<1>4. RunsStay
    BY <1>1 DEF Listed, RunsStay, IInv, Shapes
<1>5. k.seen \in BOOLEAN /\ k.got \in EventMaps /\ "reading" \in Points \ Acting
    BY <1>1 DEF CallRec, Points, Acting
<1>6. UNCHANGED <<log, working, due, op>> /\ ~At(c, "idle")
    BY DEF Listed, host, At
<1> QED
    BY <1>1, <1>3, <1>4, <1>5, <1>6, Holding

LEMMA HostReadsKeeps ==
  ASSUME IInv, NEW c \in Callers, HostReads(c)
  PROVE  Kept
<1> DEFINE k == call[c]
           b == baseline[k.run]
           got == historyAfter(incrementalStartSeq(k.base, b))
           p == Answer[k.pc]
           held == [k EXCEPT !.pc = p, !.seen = k.seen, !.base = k.base, !.got = got]
<1>1. /\ call \in [Callers -> CallRec] /\ k \in CallRec /\ k.run \in Runs
      /\ k.pc \in {"reading", "polling", "searching"} /\ k.base \in EventMaps
      /\ ReadOf(k.base, b) /\ b \in Nat /\ b <= Len(log)
  <2>1. k \in CallRec /\ k.pc \in {"reading", "polling", "searching"}
      BY DEF IInv, Shapes, HostReads, Answer
  <2> QED
      BY <2>1 DEF IInv, Shapes, CallOK, RunOK, CallRec
<1>2. got \in EventMaps /\ ReadOf(mergeEvents(k.base, got), b)
    BY <1>1, Merged DEF IInv
<1>3. p \in {"read", "polled", "found"} /\ p \in Points
    BY <1>1 DEF Answer, Points
<1> HIDE DEF p, got
<1>4. held = [[k EXCEPT !.pc = p] EXCEPT !.got = got]
    BY <1>1 DEF CallRec
<1>5. call' = [call EXCEPT ![c] = held]
    BY <1>1, <1>4 DEF HostReads, p, got
<1>6. RunsStay
    BY DEF HostReads, RunsStay, runs, IInv, Shapes
<1>7. k.seen \in BOOLEAN
    BY <1>1 DEF CallRec
<1>8. UNCHANGED <<log, working, due, op>> /\ ~At(c, "idle")
    BY <1>1 DEF HostReads, host, At
<1>9. p \notin {"restoring", "reading", "polling", "searching"}
    BY <1>3
<1>10. p \in Acting => op[c].state # "none"
    BY <1>1 DEF p, Answer, Acting, IInv, OpOK
<1> QED
    BY <1>1, <1>2, <1>3, <1>5, <1>6, <1>7, <1>8, <1>9, <1>10, Holding

LEMMA WatchKeeps ==
  ASSUME IInv, NEW c \in Callers, Watch(c) \/ Search(c)
  PROVE  Kept
<1> DEFINE k == call[c]
           es == events[k.run]
<1>1. /\ call \in [Callers -> CallRec] /\ k \in CallRec /\ k.run \in Runs
      /\ es \in EventMaps /\ ReadOf(es, baseline[k.run]) /\ ~At(c, "idle")
    BY DEF IInv, Shapes, CallOK, RunOK, Watch, Search, Refreshed, At
<1>2. \E p \in {"polling", "searching"}, got \in EventMaps :
        call' = [call EXCEPT ![c] = [k EXCEPT !.pc = p, !.seen = k.seen, !.base = es, !.got = got]]
  <2>1. CASE Watch(c)
    <3> DEFINE held == [k EXCEPT !.pc = "polling", !.seen = k.seen, !.base = es, !.got = <<>>]
    <3>1. held = [[[k EXCEPT !.pc = "polling"] EXCEPT !.base = es] EXCEPT !.got = <<>>]
        BY <1>1 DEF CallRec
    <3>2. call' = [call EXCEPT ![c] = held]
        BY <1>1, <2>1, <3>1 DEF Watch
    <3> QED
        BY <3>2, EmptyMap
  <2>2. CASE Search(c)
    <3> DEFINE held == [k EXCEPT !.pc = "searching", !.seen = k.seen, !.base = es, !.got = k.got]
    <3>1. held = [[k EXCEPT !.pc = "searching"] EXCEPT !.base = es] /\ k.got \in EventMaps
        BY <1>1 DEF CallRec
    <3>2. call' = [call EXCEPT ![c] = held]
        BY <1>1, <2>2, <3>1 DEF Search
    <3> QED
        BY <3>1, <3>2
  <2> QED
      BY <2>1, <2>2
<1>3. RunsStay
    BY DEF Watch, Search, RunsStay, runs, IInv, Shapes
<1>4. k.seen \in BOOLEAN /\ {"polling", "searching"} \subseteq Points
    BY <1>1 DEF CallRec, Points
<1>5. UNCHANGED <<log, working, due, op>>
    BY DEF Watch, Search, host
<1>6. op[c].state # "none"
    BY DEF Watch, Search, Refreshed, At, Acting, IInv, OpOK
<1> QED
    BY <1>1, <1>2, <1>3, <1>4, <1>5, <1>6, Holding

\* The call stands still in the log and in its operation.
LEMMA Standing ==
  ASSUME IInv, NEW c \in Callers, UNCHANGED <<log, working, due>>
  PROVE  LogSteps(c) /\ (Sends(c)' => Sends(c))
BY LogStays DEF IInv, Shapes

LEMMA Operation ==
  ASSUME IInv, NEW c \in Callers
  PROVE  /\ op[c] \in OpRec /\ op = [op EXCEPT ![c] = op[c]]
         /\ \A s \in OpStates :
              /\ [op EXCEPT ![c].state = s] = [op EXCEPT ![c] = [op[c] EXCEPT !.state = s]]
              /\ [op[c] EXCEPT !.state = s] \in OpRec
              /\ [op[c] EXCEPT !.state = s].state = s /\ [op[c] EXCEPT !.state = s].run = op[c].run
BY DEF IInv, Shapes, OpRec

LEMMA ReturnKeeps ==
  ASSUME IInv, NEW c \in Callers, UNCHANGED <<log, working, due>>, RunsStay, Return(c),
         \/ UNCHANGED op
         \/ \E s \in OpStates \ {"none"} : Settle(c, s) /\ op[c].state # "none"
  PROVE  Kept
<1>1. \E w \in OpRec : /\ op' = [op EXCEPT ![c] = w] /\ w.run = op[c].run
                       /\ w.state = "none" <=> op[c].state = "none"
  <2>1. CASE UNCHANGED op
      BY <2>1, Operation
  <2>2. ASSUME NEW s \in OpStates \ {"none"}, Settle(c, s), op[c].state # "none"
        PROVE  \E w \in OpRec : /\ op' = [op EXCEPT ![c] = w] /\ w.run = op[c].run
                                /\ w.state = "none" <=> op[c].state = "none"
    <3> DEFINE w == [op[c] EXCEPT !.state = s]
    <3>1. w \in OpRec /\ op' = [op EXCEPT ![c] = w] /\ w.state = s /\ w.run = op[c].run
        BY <2>2, Operation DEF Settle
    <3> HIDE DEF w
    <3> QED
        BY <2>2, <3>1
  <2> QED
      BY <2>1, <2>2
<1> QED
    BY <1>1, Standing, Returning DEF Return

LEMMA ThrowsKeeps ==
  ASSUME IInv, NEW c \in Callers, Throws(c) \/ Returns(c) \/ SettleCancel(c) \/ Found(c)
  PROVE  Kept
<1>1. UNCHANGED <<log, working, due>> /\ RunsStay /\ Return(c)
    BY DEF Throws, Returns, SettleCancel, Found, RunsStay, host, runs, IInv, Shapes
<1>2. UNCHANGED op \/ (Settle(c, "reconciled") /\ op[c].state # "none")
  <2>1. CASE SettleCancel(c)
      BY <2>1 DEF SettleCancel, Refreshed, IInv, OpOK
  <2>2. CASE Found(c)
    <3>1. UNCHANGED op \/ (Settle(c, "reconciled") /\ Holds(call[c].got, c))
        BY <2>2 DEF Found
    <3>2. call[c].pc = "found"
        BY <2>2 DEF Found, At
    <3> QED
        BY <3>1, <3>2 DEF IInv, OpOK, Acting
  <2> QED
      BY <2>1, <2>2 DEF Throws, Returns
<1> QED
    BY <1>1, <1>2, ReturnKeeps DEF OpStates

\* A call begins to look at a run.
LEMMA Refreshing ==
  ASSUME IInv, NEW c \in Callers, NEW r \in Runs, NEW then \in {"return", "steer", "cancel", "settle"},
         NEW w \in OpRec, Refresh(c, r, then), op' = [op EXCEPT ![c] = w], status[r] # "new",
         LogSteps(c), Sends(c)' => Sends(c), RunsStay,
         w.state = "none" => op[c].state = "none" /\ Kind[c] # "steer" /\ then # "settle",
         w.state # "none" => w.run \in Runs /\ status[w.run] # "new",
         then = "cancel" => Kind[c] = "cancel", then = "steer" => Kind[c] = "steer",
         Kind[c] = "steer" /\ op[c].run \in Runs => w.run = op[c].run
  PROVE  Kept
<1> DEFINE p == IF status[r] \in Refreshable THEN "listing" ELSE "refreshed"
           v == [NoCall EXCEPT !.pc = p, !.run = r, !.then = then]
<1>1. call' = [call EXCEPT ![c] = v] /\ p \in {"listing", "refreshed"}
    BY DEF Refresh
<1> HIDE DEF p
<1>2. v \in CallRec /\ v.pc = p /\ v.run = r /\ v.then = then
    BY <1>1, EmptyMap DEF NoCall, CallRec, Points
<1> HIDE DEF v
<1>3. v.pc \notin Acting \cup {"idle", "reading", "polling", "searching", "read", "polled", "restoring"}
    BY <1>1, <1>2 DEF Acting
<1> QED
    BY <1>1, <1>2, <1>3, CallMoves

LEMMA CallKeeps ==
  ASSUME IInv, NEW c \in Callers, NEW r \in Runs, Call(c, r)
  PROVE  Kept
<1> USE ControlAssumption
<1>1. UNCHANGED <<log, working, due>> /\ RunsStay /\ status[r] # "new" /\ call[c].pc = "idle"
    BY DEF Call, RunsStay, host, runs, IInv, Shapes, MayCall, At
<1>2. LogSteps(c) /\ (Sends(c)' => Sends(c))
    BY <1>1, Standing
<1>3. CASE Kind[c] = "get" /\ Refresh(c, r, "return") /\ UNCHANGED op
  <2>1. op[c].state # "none" => op[c].run \in Runs /\ status[op[c].run] # "new"
      BY DEF IInv, OpOK
  <2> QED
      BY <1>1, <1>2, <1>3, <2>1, Operation, Refreshing
<1>4. CASE /\ Kind[c] = "steer" /\ op[c].run \in {None, r}
           /\ op' = [op EXCEPT ![c] = [state |-> "prepared", run |-> r]] /\ Refresh(c, r, "steer")
  <2> DEFINE w == [state |-> "prepared", run |-> r]
  <2>1. w \in OpRec /\ w.state = "prepared" /\ w.run = r
      BY DEF OpRec, OpStates
  <2> HIDE DEF w
  <2>2. op' = [op EXCEPT ![c] = w]
      BY <1>4 DEF w
  <2>3. Kind[c] = "steer" /\ op[c].run \in Runs => w.run = op[c].run
      BY <1>4, <2>1
  <2>4. Refresh(c, r, "steer")
      BY <1>4
  <2>5. w.state # "none" /\ w.run \in Runs /\ status[w.run] # "new"
      BY <1>1, <2>1
  <2> QED
      BY <1>1, <1>2, <1>4, <2>1, <2>2, <2>3, <2>4, <2>5, Refreshing
<1>5. CASE Kind[c] = "cancel" /\ Refresh(c, r, "cancel") /\ UNCHANGED op
  <2>1. op[c].state # "none" => op[c].run \in Runs /\ status[op[c].run] # "new"
      BY DEF IInv, OpOK
  <2> QED
      BY <1>1, <1>2, <1>5, <2>1, Operation, Refreshing
<1> QED
    BY <1>3, <1>4, <1>5 DEF Call

LEMMA ReconcileKeeps ==
  ASSUME IInv, NEW c \in Callers, ReconcileOperation(c)
  PROVE  Kept
<1>1. UNCHANGED <<log, working, due, op>> /\ RunsStay /\ op[c].state # "none" /\ Refresh(c, op[c].run, "settle")
    BY DEF ReconcileOperation, RunsStay, host, runs, IInv, Shapes
<1>2. LogSteps(c) /\ (Sends(c)' => Sends(c))
    BY <1>1, Standing
<1>3. op[c].run \in Runs /\ status[op[c].run] # "new"
    BY <1>1 DEF IInv, OpOK
<1> QED
    BY <1>1, <1>2, <1>3, Operation, Refreshing

LEMMA SteerKeeps ==
  ASSUME IInv, NEW c \in Callers, Steer(c)
  PROVE  Kept
<1>1. /\ UNCHANGED <<log, working, due>> /\ RunsStay /\ ~At(c, "idle") /\ op[c].state # "none"
      /\ op[c].run \in Runs /\ status[op[c].run] # "new"
  <2>1. UNCHANGED <<log, working, due>> /\ RunsStay /\ call[c].pc = "refreshed" /\ call[c].then = "steer"
      BY DEF Steer, Refreshed, At, RunsStay, host, runs, IInv, Shapes
  <2>2. Kind[c] = "steer" /\ OpOK(c)
      BY <2>1 DEF IInv, OpOK
  <2> QED
      BY <2>1, <2>2 DEF OpOK, At
<1>2. CASE Settle(c, "submitted") /\ Goto(c, "sending")
  <2> DEFINE w == [op[c] EXCEPT !.state = "submitted"]
  <2>1. w \in OpRec /\ op' = [op EXCEPT ![c] = w] /\ w.state = "submitted" /\ w.run = op[c].run
      BY <1>2, Operation DEF Settle, OpStates
  <2> HIDE DEF w
  <2>2. call' = [call EXCEPT ![c].pc = "sending"] /\ "sending" \in Points
      BY <1>2 DEF Goto, Points
  <2> QED
      BY <1>1, <2>1, <2>2, Standing, Going
<1>3. CASE Settle(c, "failed") /\ Return(c)
    BY <1>1, <1>3, ReturnKeeps DEF OpStates
<1> QED
    BY <1>2, <1>3 DEF Steer

\* The Host takes a message, or does not, and the answer comes or is lost.
LEMMA HostSteersKeeps ==
  ASSUME IInv, NEW c \in Callers, HostSteers(c)
  PROVE  Kept
<1>1. /\ UNCHANGED <<log, working>> /\ due' \in {due, due \cup {c}} /\ RunsStay /\ ~At(c, "idle")
      /\ Kind[c] = "steer" /\ op[c].state # "none" /\ op[c].run \in Runs /\ status[op[c].run] # "new"
  <2>1. UNCHANGED <<log, working>> /\ due' \in {due, due \cup {c}} /\ call[c].pc = "sending" /\ Kind[c] = "steer"
      BY DEF HostSteers, At
  <2>2. RunsStay
      BY DEF HostSteers, RunsStay, runs, IInv, Shapes
  <2>3. OpOK(c)
      BY DEF IInv
  <2> QED
      BY <2>1, <2>2, <2>3 DEF OpOK, At
<1>2. LogSteps(c)
  <2>1. due' \subseteq Runs \cup Callers /\ \A m \in (Runs \cup Callers) \ {c} : m \in due' => m \in due
      BY <1>1 DEF IInv, Shapes
  <2> QED
      BY <1>1, <2>1, LogStays DEF IInv, Shapes
<1>3. ASSUME NEW s \in OpStates \ {"none"}, Settle(c, s), Return(c)
      PROVE  Kept
  <2> DEFINE w == [op[c] EXCEPT !.state = s]
  <2>1. w \in OpRec /\ op' = [op EXCEPT ![c] = w] /\ w.state = s /\ w.run = op[c].run
      BY <1>3, Operation DEF Settle
  <2> HIDE DEF w
  <2> QED
      BY <1>1, <1>2, <1>3, <2>1, Returning DEF Return
<1>4. CASE Goto(c, "watching") /\ UNCHANGED op
  <2>1. call' = [call EXCEPT ![c].pc = "watching"] /\ "watching" \in Points
      BY <1>4 DEF Goto, Points
  <2>2. op' = [op EXCEPT ![c] = op[c]] /\ op[c] \in OpRec
      BY <1>4, Operation
  <2> QED
      BY <1>1, <1>2, <2>1, <2>2, Going
<1> QED
    BY <1>3, <1>4 DEF HostSteers, OpStates

LEMMA CancelKeeps ==
  ASSUME IInv, NEW c \in Callers, Cancel(c)
  PROVE  Kept
<1>1. /\ UNCHANGED <<log, working, due>> /\ RunsStay /\ ~At(c, "idle") /\ Kind[c] = "cancel"
      /\ call[c].run \in Runs /\ status[call[c].run] # "new"
  <2>1. UNCHANGED <<log, working, due>> /\ RunsStay /\ call[c].pc = "refreshed" /\ call[c].then = "cancel"
      BY DEF Cancel, Refreshed, At, RunsStay, host, runs, IInv, Shapes
  <2> QED
      BY <2>1 DEF IInv, OpOK, CallOK, At
<1> DEFINE w == [state |-> "prepared", run |-> call[c].run]
<1>2. w \in OpRec /\ w.state = "prepared" /\ w.run = call[c].run
    BY <1>1 DEF OpRec, OpStates
<1> HIDE DEF w
<1>3. op' = [op EXCEPT ![c] = w] /\ call' = [call EXCEPT ![c].pc = "preparing"] /\ "preparing" \in Points
    BY DEF Cancel, Goto, w, Points
<1> QED
    BY <1>1, <1>2, <1>3, Standing, Going

LEMMA CancelPreparedKeeps ==
  ASSUME IInv, NEW c \in Callers, CancelPrepared(c)
  PROVE  Kept
<1>1. /\ UNCHANGED <<log, working, due>> /\ RunsStay /\ ~At(c, "idle") /\ op[c].state # "none"
      /\ op[c].run \in Runs /\ status[op[c].run] # "new"
  <2>1. UNCHANGED <<log, working, due>> /\ call[c].pc = "preparing"
      BY DEF CancelPrepared, At, host
  <2>2. RunsStay
      BY DEF CancelPrepared, RunsStay, IInv, Shapes
  <2>3. OpOK(c)
      BY DEF IInv
  <2> QED
      BY <2>1, <2>2, <2>3 DEF OpOK, At, Acting
<1> DEFINE w == [op[c] EXCEPT !.state = "submitted"]
<1>2. w \in OpRec /\ op' = [op EXCEPT ![c] = w] /\ w.state = "submitted" /\ w.run = op[c].run
    BY Operation DEF CancelPrepared, Settle, OpStates
<1> HIDE DEF w
<1>3. call' = [call EXCEPT ![c].pc = "sending"] /\ "sending" \in Points
    BY DEF CancelPrepared, Goto, Points
<1> QED
    BY <1>1, <1>2, <1>3, Standing, Going

\* The Host appends an event when the newest one has its final form.
LEMMA Appending ==
  ASSUME IInv, NEW e \in Event, log' = Append(log, e), ~Drafting,
         e.by = "draft" => e.type = "assistant/message"
  PROVE  /\ LogMoves /\ LogInv' /\ log' \in Seq(Event)
         /\ \A m : /\ m \in due' => m \in due \/ (e.type = "user/message" /\ e.by = m)
                   /\ e.type = "user/message" /\ e.by = m => m \in due \/ m = "web"
                   => (Sends(m)' => Sends(m) \/ m = "web")
<1>1. /\ log \in Seq(Event) /\ Len(log) \in Nat /\ log' \in Seq(Event) /\ Len(log') = Len(log) + 1
      /\ \A s \in 1..Len(log) : log'[s] = log[s]
      /\ log'[Len(log) + 1] = e
    BY DEF IInv, Shapes
<1>2. LogMoves
    BY <1>1 DEF LogMoves
<1>3. LogInv'
  <2>1. SUFFICES ASSUME NEW s \in 1..Len(log'), log'[s].by = "draft"
                 PROVE  s = Len(log') /\ log'[s].type = "assistant/message"
      BY DEF LogInv
  <2>2. CASE s = Len(log) + 1
      BY <1>1, <2>1, <2>2
  <2>3. CASE s # Len(log) + 1
    <3>1. s \in 1..Len(log) /\ log[s].by = "draft"
        BY <1>1, <2>1, <2>3
    <3>2. s = Len(log) /\ log # <<>>
        BY <1>1, <3>1 DEF IInv, LogInv
    <3> QED
        BY <3>1, <3>2 DEF Drafting
  <2> QED
      BY <2>2, <2>3
<1>4. ASSUME NEW m, m \in due' => m \in due \/ (e.type = "user/message" /\ e.by = m),
             e.type = "user/message" /\ e.by = m => m \in due \/ m = "web", Sends(m)'
      PROVE  Sends(m) \/ m = "web"
  <2>1. CASE m \in due'
      BY <1>4, <2>1 DEF Sends
  <2>2. ASSUME NEW s \in 1..Len(log'), log'[s].type = "user/message" /\ log'[s].by = m
        PROVE  Sends(m) \/ m = "web"
    <3>1. CASE s = Len(log) + 1
        BY <1>1, <1>4, <2>2, <3>1 DEF Sends
    <3>2. CASE s # Len(log) + 1
      <4>1. s \in 1..Len(log) /\ log'[s] = log[s]
          BY <1>1, <3>2
      <4> QED
          BY <2>2, <4>1 DEF Sends
    <3> QED
        BY <3>1, <3>2
  <2> QED
      BY <1>4, <2>1, <2>2 DEF Sends
<1> QED
    BY <1>1, <1>2, <1>3, <1>4

LEMMA EventOf ==
  ASSUME NEW type \in {"user/message", "assistant/message", "turn/end"}, NEW by \in Authors
  PROVE  /\ [type |-> type, by |-> by] \in Event
         /\ [type |-> type, by |-> by].type = type /\ [type |-> type, by |-> by].by = by
BY DEF Event

LEMMA TurnEndsMoves ==
  ASSUME IInv, NEW c, NEW reason \in Ends \cup {"aborted"}, TurnEnds(reason), ~Drafting
  PROVE  LogSteps(c) /\ (Sends(c)' => Sends(c) \/ c = "web")
<1> USE ControlAssumption
<1> DEFINE e == [type |-> "turn/end", by |-> reason]
<1>1. e \in Event /\ e.type = "turn/end" /\ e.by = reason /\ reason # "draft"
    BY EventOf DEF Authors
<1>2. log' = Append(log, e)
    BY DEF TurnEnds, Append1
<1> HIDE DEF e
<1>3. /\ LogMoves /\ LogInv' /\ log' \in Seq(Event)
      /\ \A m : Sends(m)' => Sends(m) \/ m = "web"
    BY <1>1, <1>2, Appending DEF TurnEnds
<1> QED
    BY <1>3 DEF LogSteps, TurnEnds, IInv, Shapes

LEMMA HostCancelsKeeps ==
  ASSUME IInv, NEW c \in Callers, HostCancels(c)
  PROVE  Kept
<1> USE ControlAssumption
<1> DEFINE r == call[c].run
<1>1. /\ RunsStay /\ Kind[c] = "cancel" /\ r \in Runs /\ status[r] # "new"
      /\ op[c].state # "none" /\ op[c].run \in Runs /\ status[op[c].run] # "new"
  <2>1. call[c].pc = "sending" /\ Kind[c] = "cancel"
      BY DEF HostCancels, At
  <2>2. r \in Runs /\ status[r] # "new"
      BY <2>1 DEF IInv, CallOK
  <2>3. RunsStay
    <3>1. cancelRequested \in [Runs -> BOOLEAN] /\ active \in Runs \cup {None}
        BY DEF IInv, Shapes
    <3>2. cancelRequested' \in [Runs -> BOOLEAN]
      <4>1. cancelRequested' = cancelRequested \/ cancelRequested' = [cancelRequested EXCEPT ![r] = FALSE]
          BY DEF HostCancels
      <4> QED
          BY <3>1, <4>1
    <3> QED
        BY <3>1, <3>2 DEF HostCancels, RunsStay
  <2>4. OpOK(c)
      BY DEF IInv
  <2> QED
      BY <2>1, <2>2, <2>3, <2>4 DEF OpOK, Acting
<1>2. LogSteps(c) /\ (Sends(c)' => Sends(c))
  <2>1. CASE UNCHANGED host
      BY <2>1, Standing DEF host
  <2>2. CASE working /\ ~Drafting /\ TurnEnds("aborted")
      BY <2>2, TurnEndsMoves
  <2> QED
      BY <2>1, <2>2 DEF HostCancels, HostAborts
<1>3. ASSUME NEW s \in OpStates \ {"none"}, Settle(c, s)
      PROVE  /\ \E w \in OpRec : op' = [op EXCEPT ![c] = w] /\ w.state = s /\ w.run = op[c].run
             /\ Return(c) => Kept
             /\ Refresh(c, r, "return") => Kept
  <2> DEFINE w == [op[c] EXCEPT !.state = s]
  <2>1. w \in OpRec /\ op' = [op EXCEPT ![c] = w] /\ w.state = s /\ w.run = op[c].run
      BY <1>3, Operation DEF Settle
  <2> HIDE DEF w
  <2>2. ASSUME Return(c) PROVE Kept
      BY <1>1, <1>2, <2>1, <2>2, Returning DEF Return
  <2>3. ASSUME Refresh(c, r, "return") PROVE Kept
      BY <1>1, <1>2, <2>1, <2>3, Refreshing
  <2> QED
      BY <2>1, <2>2, <2>3
<1> QED
    BY <1>3 DEF HostCancels, OpStates

LEMMA HostKeeps ==
  ASSUME IInv, HostStep
  PROVE  Kept
<1> USE ControlAssumption
<1>1. ASSUME NEW e \in Event, log' = Append(log, e), ~Drafting, e.by = "draft" => e.type = "assistant/message",
             working' \in BOOLEAN, due' \subseteq due,
             e.type = "user/message" => e.by \in due \cup {"web"}, UNCHANGED <<runs, op, call>>
      PROVE  Kept
  <2>1. /\ LogMoves /\ LogInv' /\ log' \in Seq(Event)
        /\ \A m : Sends(m)' => Sends(m) \/ m = "web"
      BY <1>1, Appending
  <2>2. LogSteps(None)
      BY <1>1, <2>1 DEF LogSteps, IInv, Shapes
  <2> QED
      BY <1>1, <2>2, HostMoves
<1>2. ASSUME NEW m \in due, Persist(m) PROVE Kept
  <2> DEFINE e == [type |-> "user/message", by |-> m]
  <2>1. m \in Runs \cup Callers
      BY DEF IInv, Shapes
  <2>2. e \in Event /\ e.type = "user/message" /\ e.by = m /\ m # "draft"
      BY <2>1, EventOf DEF Authors
  <2>3. log' = Append(log, e) /\ ~Drafting /\ working' \in BOOLEAN /\ due' \subseteq due /\ UNCHANGED <<runs, op, call>>
      BY <1>2 DEF Persist, Append1, Room
  <2> HIDE DEF e
  <2> QED
      BY <1>1, <2>2, <2>3
<1>3. CASE Write
  <2> DEFINE e == [type |-> "assistant/message", by |-> "draft"]
  <2>1. e \in Event /\ e.type = "assistant/message" /\ e.by = "draft"
      BY EventOf DEF Authors
  <2>2. log' = Append(log, e) /\ ~Drafting /\ working' \in BOOLEAN /\ due' \subseteq due /\ UNCHANGED <<runs, op, call>>
      BY <1>3 DEF Write, Append1, Room, IInv, Shapes
  <2> HIDE DEF e
  <2> QED
      BY <1>1, <2>1, <2>2
<1>4. CASE WebPrompt
  <2> DEFINE e == [type |-> "user/message", by |-> "web"]
  <2>1. e \in Event /\ e.type = "user/message" /\ e.by = "web"
      BY EventOf DEF Authors
  <2>2. log' = Append(log, e) /\ ~Drafting /\ working' \in BOOLEAN /\ due' \subseteq due /\ UNCHANGED <<runs, op, call>>
      BY <1>4 DEF WebPrompt, Append1, Room
  <2> HIDE DEF e
  <2> QED
      BY <1>1, <2>1, <2>2
<1>5. ASSUME NEW reason \in Ends, EndTurn(reason) PROVE Kept
  <2>1. LogSteps(None)
      BY <1>5, TurnEndsMoves DEF EndTurn
  <2> QED
      BY <1>5, <2>1, HostMoves DEF EndTurn
<1>6. ASSUME NEW by \in {"final", "interrupted"}, Finish(by) PROVE Kept
  <2> DEFINE n == Len(log)
  <2>1. log \in Seq(Event) /\ n \in Nat /\ n # 0 /\ log[n].by = "draft" /\ n \in 1..n
      BY <1>6 DEF Finish, Drafting, IInv, Shapes
  <2>2. log[n].type = "assistant/message" /\ log[n] \in Event
      BY <2>1 DEF IInv, LogInv
  <2>3. [log[n] EXCEPT !.by = by] \in Event /\ [log[n] EXCEPT !.by = by].type = "assistant/message"
        /\ [log[n] EXCEPT !.by = by].by = by
      BY <2>2 DEF Event, Authors
  <2>4. /\ log' \in Seq(Event) /\ Len(log') = n /\ log'[n] = [log[n] EXCEPT !.by = by]
        /\ \A s \in 1..n \ {n} : log'[s] = log[s]
      BY <1>6, <2>1, <2>3 DEF Finish
  <2>5. LogMoves
    <3>1. \A s \in 1..n : s = n \/ log'[s] = log[s]
        BY <2>4
    <3>2. log'[n].type = "assistant/message"
        BY <2>3, <2>4
    <3>3. Len(log) = n /\ Len(log)' = n /\ n <= n
        BY <2>1, <2>4
    <3> HIDE DEF n
    <3> QED
        BY <2>2, <3>1, <3>2, <3>3 DEF LogMoves
  <2>6. LogInv'
      BY <2>1, <2>3, <2>4 DEF IInv, LogInv
  <2>7. \A m : Sends(m)' => Sends(m)
      BY <1>6, <2>1, <2>3, <2>4 DEF Sends, Finish
  <2>8. LogSteps(None)
      BY <1>6, <2>4, <2>5, <2>6, <2>7 DEF LogSteps, Finish, IInv, Shapes
  <2> QED
      BY <1>6, <2>8, HostMoves DEF Finish
<1> QED
    BY <1>2, <1>3, <1>4, <1>5, <1>6 DEF HostStep

\* What a call does to the record of its run: what it reads, what it shows and
\* whether it goes on.
LEMMA RecordMoves ==
  ASSUME IInv, NEW c \in Callers, NEW p \in Points, NEW w \in OpRec, NEW r \in Runs, NEW es \in EventMaps,
         r = call[c].run, ~At(c, "idle"), UNCHANGED <<log, working, due, baseline, cancelRequested>>,
         call' = [call EXCEPT ![c].pc = p] \/ Return(c), op' = [op EXCEPT ![c] = w],
         events' = [events EXCEPT ![r] = es], ReadOf(es, baseline[r]),
         status' \in [Runs -> {"new"} \cup Refreshable \cup Concluded],
         \A q \in Runs : RunMoves(q) /\ (status'[q] = "new" => status[q] = "new"),
         silent' \in [Runs -> BOOLEAN], \A q \in Runs : status'[q] \in Concluded => ~silent'[q],
         active' \in Runs \cup {None}, text' \in [Runs -> SUBSET (Nat \X Authors)], OwnText',
         p \notin {"reading", "polling", "searching", "read", "polled"} \cup Acting
           \/ (p = "watching" /\ op[c].state # "none"),
         p = "restoring" => status'[r] \in Concluded,
         w.state = "none" <=> op[c].state = "none", w.run = op[c].run
  PROVE  Kept
<1> USE ControlAssumption
<1> DEFINE v == IF Return(c) THEN NoCall ELSE [call[c] EXCEPT !.pc = p]
<1>1. /\ call[c] \in CallRec /\ status[r] # "new" /\ OpOK(c)
      /\ NoCall \in CallRec /\ NoCall.pc = "idle" /\ NoCall.then = "none"
    BY EmptyMap DEF IInv, Shapes, CallOK, At, CallRec, NoCall, Points
<1>2. /\ v \in CallRec /\ call' = [call EXCEPT ![c] = v]
      /\ \/ v.pc = "idle" /\ v.then = "none"
         \/ v.pc = p /\ v.run = r /\ v.then = call[c].then
    BY <1>1 DEF CallRec, Return
<1> HIDE DEF v, NoCall
<1>3. /\ call'[c] = v /\ op'[c] = w
      /\ \A d \in Callers \ {c} : call'[d] = call[d] /\ op'[d] = op[d]
    BY <1>2 DEF IInv, Shapes
<1>4. Shapes'
    BY <1>2 DEF IInv, Shapes, OpRec
<1>5. LogMoves /\ OpMoves /\ LogInv' /\ \A m : Sends(m)' <=> Sends(m)
    BY <1>3, Unmoved DEF IInv, OpMoves, LogInv, Sends
<1>6. ASSUME NEW q \in Runs PROVE RunOK(q)'
  <2>1. RunOK(q) /\ RunMoves(q)
      BY DEF IInv
  <2>2. /\ q # r => events'[q] = events[q]
        /\ q = r => events'[q] = es
      BY DEF IInv, Shapes
  <2>3. ReadOf(events[q], baseline[q])'
      BY <2>1, <2>2 DEF ReadOf, RunOK
  <2>4. status'[q] = "new" => events'[q] = <<>> /\ ~Sends(q)'
      BY <1>1, <1>5, <2>1, <2>2 DEF RunOK, RunMoves
  <2>5. \A s \in PromptSeq(q)' : baseline'[q] < s
      BY <2>1 DEF RunOK, PromptSeq
  <2> QED
      BY <2>1, <2>3, <2>4, <2>5 DEF RunOK
<1>7. ASSUME NEW d \in Callers \ {c} PROVE CallOK(d)' /\ OpOK(d)'
    BY <1>3, <1>4, <1>5, CallKept, OpKept
<1>8. CallOK(c)' /\ OpOK(c)'
  <2>1. CallOK(c)'
      BY <1>1, <1>2, <1>3 DEF CallOK, RunMoves, Acting
  <2>2. w.state # "none" => w.run \in Runs /\ status'[w.run] # "new"
      BY <1>1 DEF OpOK, RunMoves
  <2>3. Sends(c)' => w.state # "none" /\ Kind[c] = "steer"
      BY <1>1, <1>5 DEF OpOK
  <2> QED
      BY <1>1, <1>2, <1>3, <2>1, <2>2, <2>3 DEF OpOK, Acting, At
<1> QED
    BY <1>4, <1>5, <1>6, <1>7, <1>8 DEF Kept, IInv

LEMMA PolledKeeps ==
  ASSUME IInv, NEW c \in Callers, Polled(c)
  PROVE  Kept
<1> DEFINE k == call[c]
           r == k.run
           es == mergeEvents(k.base, k.got)
<1>1. /\ k \in CallRec /\ k.pc = "polled" /\ r \in Runs /\ ReadOf(es, baseline[r])
      /\ op[c].state # "none" /\ ~At(c, "idle")
  <2>1. k.pc = "polled" /\ k \in CallRec
      BY DEF Polled, At, IInv, Shapes
  <2> QED
      BY <2>1 DEF IInv, CallOK, OpOK, Acting, At
<1>2. es \in EventMaps
  <2>1. /\ DOMAIN k.base \subseteq Nat /\ \A s \in DOMAIN k.base : k.base[s] \in Event
        /\ DOMAIN k.got \subseteq Nat /\ \A s \in DOMAIN k.got : k.got[s] \in Event
      BY <1>1, MapOf DEF CallRec
  <2>2. es \in [DOMAIN k.base \cup DOMAIN k.got -> Event]
      BY <2>1 DEF mergeEvents
  <2> QED
      BY <2>1, <2>2 DEF EventMaps
<1> HIDE DEF es
<1>3. UNCHANGED <<log, working, due, status, cancelRequested, baseline, text, silent, active>>
      /\ events' = [events EXCEPT ![r] = es]
    BY DEF Polled, host, es
<1>4. /\ status' \in [Runs -> {"new"} \cup Refreshable \cup Concluded] /\ silent' \in [Runs -> BOOLEAN]
      /\ active' \in Runs \cup {None} /\ text' \in [Runs -> SUBSET (Nat \X Authors)]
      /\ \A q \in Runs : RunMoves(q) /\ (status'[q] = "new" => status[q] = "new")
      /\ \A q \in Runs : status'[q] \in Concluded => ~silent'[q]
    BY <1>3 DEF IInv, Shapes, RunMoves, RunOK
<1>5. OwnText'
  <2>1. UNCHANGED op \/ \E s \in {"acknowledged", "unknown"} : Settle(c, s)
      BY DEF Polled
  <2>2. \A d \in Callers : op'[d].run = op[d].run
    <3>1. CASE UNCHANGED op
        BY <3>1
    <3>2. ASSUME NEW s \in {"acknowledged", "unknown"}, Settle(c, s)
          PROVE  \A d \in Callers : op'[d].run = op[d].run
      <4> DEFINE w == [op[c] EXCEPT !.state = s]
      <4>1. w \in OpRec /\ op' = [op EXCEPT ![c] = w] /\ w.run = op[c].run
          BY <3>2, Operation DEF Settle, OpStates
      <4> HIDE DEF w
      <4> QED
          BY <4>1 DEF IInv, Shapes
    <3> QED
        BY <2>1, <3>1, <3>2
  <2>3. \A q : OwnedRpcIds(q)' = OwnedRpcIds(q)
      BY <2>2 DEF OwnedRpcIds
  <2> QED
      BY <1>3, <2>3 DEF IInv, OwnText, OwnTurn, PromptSeq
<1>6. ASSUME NEW s \in OpStates \ {"none"}, Settle(c, s), Return(c)
      PROVE  Kept
  <2> DEFINE w == [op[c] EXCEPT !.state = s]
  <2>1. w \in OpRec /\ op' = [op EXCEPT ![c] = w] /\ w.state = s /\ w.run = op[c].run
      BY <1>6, Operation DEF Settle
  <2> HIDE DEF w
  <2>2. "idle" \in Points /\ "idle" \notin {"reading", "polling", "searching", "read", "polled"} \cup Acting
      BY DEF Points, Acting
  <2> QED
      BY <1>1, <1>2, <1>3, <1>4, <1>5, <1>6, <2>1, <2>2, RecordMoves
<1>7. CASE Goto(c, "watching") /\ UNCHANGED op
  <2>1. call' = [call EXCEPT ![c].pc = "watching"] /\ "watching" \in Points
      BY <1>7 DEF Goto, Points
  <2>2. op' = [op EXCEPT ![c] = op[c]] /\ op[c] \in OpRec
      BY <1>7, Operation
  <2> QED
      BY <1>1, <1>2, <1>3, <1>4, <1>5, <2>1, <2>2, RecordMoves
<1> QED
    BY <1>6, <1>7 DEF Polled, OpStates

\* What a digest makes of the run it is about.
Digested(c, r, es) ==
  /\ events' = [events EXCEPT ![r] = es]
  /\ \/ text' = text
     \/ /\ PromptIn(r, es) # {}
        /\ text' = [text EXCEPT ![r] = finalAssistantText(es, {s \in ownedEvents(r, es, Min(PromptIn(r, es))) :
             \/ ownedEvents(r, es, Min(PromptIn(r, es))) \cap Of(es, "turn/end") = {}
             \/ s <= Max(ownedEvents(r, es, Min(PromptIn(r, es))) \cap Of(es, "turn/end"))})]
  /\ \/ \E progress \in BOOLEAN : Continues(r, progress, call[c].seen) /\ Goto(c, "refreshed")
     \/ \E outcome \in Concluded : finalize(r, outcome) /\ Goto(c, "restoring")

LEMMA DigestKeeps ==
  ASSUME IInv, NEW c \in Callers, Digest(c)
  PROVE  Kept
<1> DEFINE k == call[c]
           r == k.run
           es == mergeEvents(k.base, k.got)
<1>1. /\ k \in CallRec /\ k.pc = "read" /\ r \in Runs /\ ReadOf(es, baseline[r])
      /\ status[r] # "new" /\ ~At(c, "idle")
  <2>1. k.pc = "read" /\ k \in CallRec
      BY DEF Digest, At, IInv, Shapes
  <2> QED
      BY <2>1 DEF IInv, CallOK, At
<1>2. es \in EventMaps
  <2>1. /\ DOMAIN k.base \subseteq Nat /\ \A s \in DOMAIN k.base : k.base[s] \in Event
        /\ DOMAIN k.got \subseteq Nat /\ \A s \in DOMAIN k.got : k.got[s] \in Event
      BY <1>1, MapOf DEF CallRec
  <2>2. es \in [DOMAIN k.base \cup DOMAIN k.got -> Event]
      BY <2>1 DEF mergeEvents
  <2> QED
      BY <2>1, <2>2 DEF EventMaps
<1>3. Digested(c, r, es) /\ UNCHANGED <<log, working, due, baseline, cancelRequested, op>>
  <2> DEFINE progress == highestSeq(es, baseline[r]) > incrementalStartSeq(k.base, baseline[r])
             owned == ownedEvents(r, es, Min(PromptIn(r, es)))
             ends == owned \cap Of(es, "turn/end")
             relevant == {s \in owned : ends = {} \/ s <= Max(ends)}
             outcome == terminalOutcome(es[Max(ends)].by, cancelRequested[r], finalAssistantInterrupted(es, relevant))
  <2>1. outcome \in Concluded /\ "cancelled" \in Concluded /\ progress \in BOOLEAN
      BY DEF terminalOutcome, Concluded
  <2>2. /\ events' = [events EXCEPT ![r] = es]
        /\ IF PromptIn(r, es) = {}
           THEN /\ UNCHANGED text
                /\ IF ~k.seen /\ cancelRequested[r]
                   THEN finalize(r, "cancelled") /\ Goto(c, "restoring")
                   ELSE Continues(r, progress, k.seen) /\ Goto(c, "refreshed")
           ELSE /\ text' = [text EXCEPT ![r] = finalAssistantText(es, relevant)]
                /\ IF ends = {}
                   THEN Continues(r, progress, k.seen) /\ Goto(c, "refreshed")
                   ELSE finalize(r, outcome) /\ Goto(c, "restoring")
        /\ UNCHANGED <<log, working, due, baseline, cancelRequested, op>>
      BY DEF Digest, host
  <2> HIDE DEF es, outcome, progress
  <2>3. \/ text' = text
        \/ PromptIn(r, es) # {} /\ text' = [text EXCEPT ![r] = finalAssistantText(es, relevant)]
      BY <2>2
  <2> HIDE DEF relevant
  <2>4. \/ Continues(r, progress, k.seen) /\ Goto(c, "refreshed")
        \/ finalize(r, "cancelled") /\ Goto(c, "restoring")
        \/ finalize(r, outcome) /\ Goto(c, "restoring")
      BY <2>2
  <2>5. \/ \E g \in BOOLEAN : Continues(r, g, call[c].seen) /\ Goto(c, "refreshed")
        \/ \E o \in Concluded : finalize(r, o) /\ Goto(c, "restoring")
      BY <2>1, <2>4
  <2> QED
      BY <2>2, <2>3, <2>5 DEF Digested, relevant
<1> HIDE DEF es
<1>4. text' \in [Runs -> SUBSET (Nat \X Authors)] /\ OwnText'
  <2>1. UNCHANGED <<log, op>> => \A q \in Runs : OwnTurn(q)' = OwnTurn(q)
      BY DEF OwnTurn, PromptSeq, OwnedRpcIds
  <2>2. CASE text' = text
      BY <1>3, <2>1, <2>2 DEF IInv, Shapes, OwnText
  <2>3. ASSUME NEW S \in SUBSET ownedEvents(r, es, Min(PromptIn(r, es))), PromptIn(r, es) # {},
               text' = [text EXCEPT ![r] = finalAssistantText(es, S)]
        PROVE  text' \in [Runs -> SUBSET (Nat \X Authors)] /\ OwnText'
    <3>1. S \subseteq OwnTurn(r) \cap DOMAIN es
        BY <1>1, <1>2, <2>3, OwnedIsOwn
    <3>2. \A s \in DOMAIN es : s \in Nat /\ es[s].by \in Authors
        BY <1>2, MapOf DEF Event
    <3>3. \A t \in finalAssistantText(es, S) : t[1] \in OwnTurn(r) /\ t \in Nat \X Authors
        BY <3>1, <3>2 DEF finalAssistantText
    <3>4. text' \in [Runs -> SUBSET (Nat \X Authors)]
        BY <2>3, <3>3 DEF IInv, Shapes
    <3>5. \A q \in Runs : \A t \in text'[q] : t[1] \in OwnTurn(q)
        BY <2>3, <3>3 DEF IInv, Shapes, OwnText
    <3> QED
        BY <1>3, <2>1, <3>4, <3>5 DEF OwnText
  <2> QED
      BY <1>3, <2>2, <2>3 DEF Digested
<1>5. \E p \in {"refreshed", "restoring"} :
        /\ Goto(c, p)
        /\ p = "restoring" => status'[r] \in Concluded
        /\ status' \in [Runs -> {"new"} \cup Refreshable \cup Concluded] /\ silent' \in [Runs -> BOOLEAN]
        /\ active' \in Runs \cup {None}
        /\ \A q \in Runs : RunMoves(q) /\ (status'[q] = "new" => status[q] = "new")
        /\ \A q \in Runs : status'[q] \in Concluded => ~silent'[q]
  <2>1. /\ status \in [Runs -> {"new"} \cup Refreshable \cup Concluded] /\ silent \in [Runs -> BOOLEAN]
        /\ active \in Runs \cup {None} /\ \A q \in Runs : status[q] \in Concluded => ~silent[q]
      BY DEF IInv, Shapes, RunOK
  <2>2. ASSUME NEW progress \in BOOLEAN, Continues(r, progress, k.seen), Goto(c, "refreshed")
        PROVE  /\ status' \in [Runs -> {"new"} \cup Refreshable \cup Concluded] /\ silent' \in [Runs -> BOOLEAN]
               /\ active' \in Runs \cup {None}
               /\ \A q \in Runs : RunMoves(q) /\ (status'[q] = "new" => status[q] = "new")
               /\ \A q \in Runs : status'[q] \in Concluded => ~silent'[q]
    <3>1. /\ status'[r] \in {status[r], "run_stalled", "running"}
          /\ status'[r] # status[r] => status[r] \notin Concluded /\ status'[r] \in Refreshable
          /\ silent'[r] \in BOOLEAN /\ (silent'[r] => silent[r])
          /\ \A q \in Runs \ {r} : status'[q] = status[q] /\ silent'[q] = silent[q]
        BY <1>1, <2>1, <2>2 DEF Continues, Refreshable, Concluded
    <3>2. status' \in [Runs -> {"new"} \cup Refreshable \cup Concluded] /\ silent' \in [Runs -> BOOLEAN]
        BY <1>1, <2>1, <2>2 DEF Continues, Refreshable
    <3>3. \A q \in Runs : RunMoves(q) /\ (status'[q] = "new" => status[q] = "new")
      <4>1. baseline' = baseline
          BY <1>3
      <4> QED
          BY <1>1, <3>1, <4>1 DEF RunMoves, Refreshable
    <3>4. \A q \in Runs : status'[q] \in Concluded => ~silent'[q]
        BY <2>1, <3>1 DEF Refreshable, Concluded
    <3> QED
        BY <2>1, <2>2, <3>2, <3>3, <3>4 DEF Continues
  <2>3. ASSUME NEW outcome \in Concluded, finalize(r, outcome), Goto(c, "restoring")
        PROVE  /\ status' \in [Runs -> {"new"} \cup Refreshable \cup Concluded] /\ silent' \in [Runs -> BOOLEAN]
               /\ active' \in Runs \cup {None} /\ status'[r] \in Concluded
               /\ \A q \in Runs : RunMoves(q) /\ (status'[q] = "new" => status[q] = "new")
               /\ \A q \in Runs : status'[q] \in Concluded => ~silent'[q]
    <3>1. baseline' = baseline /\ outcome # "new"
        BY <1>3 DEF Concluded
    <3> QED
        BY <1>1, <2>1, <2>3, <3>1 DEF finalize, RunMoves
  <2> QED
      BY <1>3, <2>2, <2>3 DEF Digested
<1>6. op' = [op EXCEPT ![c] = op[c]] /\ op[c] \in OpRec
    BY <1>3, Operation
<1>7. {"refreshed", "restoring"} \subseteq Points \ ({"reading", "polling", "searching", "read", "polled"} \cup Acting)
    BY DEF Points, Acting
<1>8. events' = [events EXCEPT ![r] = es]
    BY <1>3 DEF Digested
<1>9. PICK p \in {"refreshed", "restoring"} :
        /\ call' = [call EXCEPT ![c].pc = p]
        /\ p = "restoring" => status'[r] \in Concluded
        /\ status' \in [Runs -> {"new"} \cup Refreshable \cup Concluded] /\ silent' \in [Runs -> BOOLEAN]
        /\ active' \in Runs \cup {None}
        /\ \A q \in Runs : RunMoves(q) /\ (status'[q] = "new" => status[q] = "new")
        /\ \A q \in Runs : status'[q] \in Concluded => ~silent'[q]
    BY <1>5 DEF Goto
<1>10. p \in Points /\ p \notin {"reading", "polling", "searching", "read", "polled"} \cup Acting
    BY <1>7
<1>11. PICK w \in OpRec : /\ op' = [op EXCEPT ![c] = w] /\ w.run = op[c].run
                          /\ w.state = "none" <=> op[c].state = "none"
    BY <1>6
<1>12. UNCHANGED <<log, working, due, baseline, cancelRequested>>
    BY <1>3
<1> QED
    BY <1>1, <1>2, <1>4, <1>8, <1>9, <1>10, <1>11, <1>12, RecordMoves

LEMMA RestoredKeeps ==
  ASSUME IInv, NEW c \in Callers, Restored(c)
  PROVE  Kept
<1> DEFINE r == call[c].run
<1>1. /\ call[c].pc = "restoring" /\ r \in Runs /\ status[r] \in Concluded /\ ~At(c, "idle")
      /\ events[r] \in EventMaps /\ ReadOf(events[r], baseline[r])
  <2>1. call[c].pc = "restoring"
      BY DEF Restored, At
  <2> QED
      BY <2>1 DEF IInv, Shapes, CallOK, RunOK, At
<1>2. /\ UNCHANGED <<log, working, due, cancelRequested, baseline, events, text, silent, active, op>>
      /\ call' = [call EXCEPT ![c].pc = "refreshed"] /\ "refreshed" \in Points \ Acting
      /\ status' = status \/ status' = [status EXCEPT ![r] = "restore_failed"]
    BY DEF Restored, host, Goto, Points, Acting
<1>3. /\ status' \in [Runs -> {"new"} \cup Refreshable \cup Concluded]
      /\ \A q \in Runs : RunMoves(q) /\ (status'[q] = "new" => status[q] = "new")
      /\ \A q \in Runs : status'[q] \in Concluded => status[q] \in Concluded
  <2>1. status \in [Runs -> {"new"} \cup Refreshable \cup Concluded] /\ "restore_failed" \in Concluded \ {"new"}
      BY DEF IInv, Shapes, Concluded
  <2> QED
      BY <1>1, <1>2, <2>1 DEF RunMoves
<1>4. /\ silent' \in [Runs -> BOOLEAN] /\ active' \in Runs \cup {None} /\ text' \in [Runs -> SUBSET (Nat \X Authors)]
      /\ \A q \in Runs : status'[q] \in Concluded => ~silent'[q]
    BY <1>2, <1>3 DEF IInv, Shapes, RunOK
<1>5. OwnText'
    BY <1>2 DEF IInv, OwnText, OwnTurn, PromptSeq, OwnedRpcIds
<1>6. events' = [events EXCEPT ![r] = events[r]]
    BY <1>2 DEF IInv, Shapes
<1>7. PICK w \in OpRec : /\ op' = [op EXCEPT ![c] = w] /\ w.run = op[c].run
                         /\ w.state = "none" <=> op[c].state = "none"
    BY <1>2, Operation
<1>8. PICK p \in Points : /\ call' = [call EXCEPT ![c].pc = p] /\ p # "restoring"
                          /\ p \notin {"reading", "polling", "searching", "read", "polled"} \cup Acting
    BY <1>2
<1>9. UNCHANGED <<log, working, due, baseline, cancelRequested>>
    BY <1>2
<1> QED
    BY <1>1, <1>3, <1>4, <1>5, <1>6, <1>7, <1>8, <1>9, RecordMoves

LEMMA ElapseKeeps ==
  ASSUME IInv, Elapse
  PROVE  Kept
<1> USE ControlAssumption
<1>1. /\ UNCHANGED <<log, working, due, status, cancelRequested, baseline, events, text, active, op, call>>
      /\ silent' = [r \in Runs |-> status[r] \in Refreshable]
    BY DEF Elapse, host
<1>2. Shapes'
    BY <1>1 DEF IInv, Shapes
<1>3. LogMoves /\ OpMoves /\ LogInv' /\ \A m : Sends(m)' <=> Sends(m)
    BY <1>1, Unmoved DEF IInv, OpMoves, LogInv, Sends
<1>4. \A r \in Runs : RunMoves(r)
    BY <1>1 DEF RunMoves
<1>5. OwnText'
    BY <1>1, <1>2, <1>3, TextKept
<1>6. ASSUME NEW r \in Runs PROVE RunOK(r)'
  <2>1. status'[r] \in Concluded => ~silent'[r]
      BY <1>1 DEF Concluded, Refreshable
  <2> QED
      BY <1>1, <1>2, <1>3, <1>4, <2>1, RunKept
<1>7. ASSUME NEW d \in Callers PROVE CallOK(d)' /\ OpOK(d)'
    BY <1>1, <1>2, <1>3, <1>4, CallKept, OpKept
<1> QED
    BY <1>2, <1>3, <1>4, <1>5, <1>6, <1>7 DEF Kept, IInv

\* A new run begins where the log ends.
LEMMA StartKeeps ==
  ASSUME IInv, NEW r \in Runs, Start(r)
  PROVE  Kept
<1> USE ControlAssumption
<1>1. /\ UNCHANGED <<log, cancelRequested, events, text, silent, op, call>>
      /\ status[r] = "new" /\ status' = [status EXCEPT ![r] = "running"]
      /\ baseline' = [baseline EXCEPT ![r] = Len(log)]
      /\ due' = {r} /\ working' = TRUE /\ active' = r
    BY DEF Start
<1>2. Shapes'
    BY <1>1 DEF IInv, Shapes, Refreshable
<1>3. LogMoves /\ OpMoves /\ LogInv' /\ \A m : Sends(m)' => Sends(m) \/ m = r
    BY <1>1, Unmoved DEF IInv, OpMoves, LogInv, Sends
<1>4. \A q \in Runs : RunMoves(q)
    BY <1>1 DEF RunMoves, IInv, Shapes, Concluded
<1>5. OwnText'
    BY <1>1, <1>2, <1>3, TextKept
<1>6. ASSUME NEW q \in Runs, q # r PROVE RunOK(q)'
  <2>1. status'[q] = status[q] /\ baseline'[q] = baseline[q]
      BY <1>1, <1>6 DEF IInv, Shapes
  <2>2. status'[q] \in Concluded => ~silent'[q]
      BY <1>1, <2>1 DEF IInv, RunOK
  <2> QED
      BY <1>1, <1>2, <1>3, <1>4, <1>6, <2>1, <2>2, RunKept
<1>7. RunOK(r)'
  <2>1. status'[r] = "running" /\ baseline'[r] = Len(log) /\ Len(log) \in Nat
      BY <1>1 DEF IInv, Shapes
  <2>2. events'[r] = <<>> /\ ~Sends(r)
      BY <1>1 DEF IInv, RunOK
  <2>3. ReadOf(<<>>, Len(log))
      BY EmptyMap DEF ReadOf
  <2>4. ReadOf(events[r], baseline[r])'
      BY <1>1, <2>1, <2>2, EmptyMap DEF ReadOf
  <2>5. PromptSeq(r)' = {}
      BY <1>1, <2>2 DEF PromptSeq, Sends
  <2> QED
      BY <1>1, <2>1, <2>4, <2>5 DEF RunOK, Concluded
<1>8. ASSUME NEW d \in Callers PROVE CallOK(d)' /\ OpOK(d)'
    BY <1>1, <1>2, <1>3, <1>4, CallKept, OpKept
<1> QED
    BY <1>2, <1>3, <1>4, <1>5, <1>6, <1>7, <1>8 DEF Kept, IInv

LEMMA Inductive ==
  ASSUME IInv, Next
  PROVE  Kept
<1>1. ASSUME NEW r \in Runs, Start(r) PROVE Kept
    BY <1>1, StartKeeps
<1>2. ASSUME NEW c \in Callers, Step(c) PROVE Kept
    BY <1>2, HostListsKeeps, ListedKeeps, HostReadsKeeps, DigestKeeps, RestoredKeeps, ThrowsKeeps,
       SteerKeeps, HostSteersKeeps, WatchKeeps, PolledKeeps, CancelKeeps, CancelPreparedKeeps,
       HostCancelsKeeps DEF Step
<1>3. ASSUME NEW c \in Callers, Throws(c) \/ ReconcileOperation(c) PROVE Kept
    BY <1>3, ThrowsKeeps, ReconcileKeeps
<1>4. ASSUME NEW c \in Callers, NEW r \in Runs, Call(c, r) PROVE Kept
    BY <1>4, CallKeeps
<1> QED
    BY <1>1, <1>2, <1>3, <1>4, HostKeeps, ElapseKeeps DEF Next

LEMMA Initially == Init => IInv
<1> SUFFICES ASSUME Init PROVE IInv
    OBVIOUS
<1>1. /\ log = <<>> /\ Len(log) = 0 /\ due = {} /\ working = FALSE
      /\ \A r \in Runs : events[r] = <<>> /\ baseline[r] = 0 /\ status[r] = "new" /\ text[r] = {} /\ ~silent[r]
      /\ \A c \in Callers : /\ op[c].state = "none" /\ call[c].pc = "idle" /\ call[c].then = "none"
    BY DEF Init, NoCall
<1>2. Shapes
  <2>1. NoCall \in CallRec
      BY EmptyMap DEF NoCall, CallRec, Points
  <2>2. [state |-> "none", run |-> None] \in [state: OpStates, run: Runs \cup {None}]
      BY DEF OpStates
  <2>3. <<>> \in Seq(Event)
      OBVIOUS
  <2> HIDE DEF NoCall
  <2> QED
      BY <2>1, <2>2, <2>3, EmptyMap DEF Init, Shapes
<1>3. LogInv /\ OwnText /\ \A m : ~Sends(m)
    BY <1>1 DEF LogInv, OwnText, Sends
<1>4. ASSUME NEW r \in Runs PROVE RunOK(r)
  <2>1. ReadOf(events[r], baseline[r])
      BY <1>1, EmptyMap DEF ReadOf
  <2>2. PromptSeq(r) = {}
      BY <1>1 DEF PromptSeq
  <2> QED
      BY <1>1, <1>3, <2>1, <2>2 DEF RunOK, Concluded
<1>5. ASSUME NEW c \in Callers PROVE CallOK(c) /\ OpOK(c)
    BY <1>1, <1>3 DEF CallOK, OpOK, Acting
<1> QED
    BY <1>2, <1>3, <1>4, <1>5 DEF IInv

-----------------------------------------------------------------------------
(* Calls that follow one another.                                          *)

\* What a run shows when it has come to its end.
Conclusion(r) ==
  \E e \in OwnTurn(r) :
    /\ log[e].type = "turn/end"
    /\ text[r] = {<<s, log[s].by>> : s \in {t \in OwnTurn(r) : t < e /\ log[t].type = "assistant/message"}}

\* It stays true, since the log is final up to there.
LEMMA ConclusionKept ==
  ASSUME IInv, Kept, NEW r \in Runs, text'[r] = text[r], Conclusion(r)
  PROVE  Conclusion(r)'
<1>1. PICK e \in OwnTurn(r) :
        /\ log[e].type = "turn/end"
        /\ text[r] = {<<s, log[s].by>> : s \in {t \in OwnTurn(r) : t < e /\ log[t].type = "assistant/message"}}
    BY DEF Conclusion
<1>2. LogMoves /\ OpMoves /\ Shapes' /\ Len(log) \in Nat
    BY DEF Kept, IInv, Shapes
<1>3. e \in 1..Len(log) /\ e \in OwnTurn(r)'
    BY <1>2, TurnGrows DEF OwnTurn
<1>4. log'[e].type = "turn/end"
    BY <1>1, <1>2, <1>3 DEF LogMoves
<1>5. \A t : t \in OwnTurn(r)' /\ t < e => t \in OwnTurn(r)
  <2>1. SUFFICES ASSUME NEW t \in OwnTurn(r)', t < e PROVE t \in OwnTurn(r)
      OBVIOUS
  <2>2. t \in 1..Len(log)
    <3>1. t \in 1..Len(log)' /\ Len(log)' \in Nat
        BY <1>2 DEF OwnTurn, Shapes
    <3> QED
        BY <1>2, <1>3, <2>1, <3>1
  <2> QED
      BY <1>2, <2>2, TurnKept
<1>6. \A t \in OwnTurn(r) : t \in OwnTurn(r)' /\ t \in 1..Len(log)
    BY <1>2, TurnGrows DEF OwnTurn
<1>7. \A t \in 1..Len(log) : t < e => log'[t] = log[t]
    BY <1>2, <1>3 DEF LogMoves
<1> DEFINE before == {t \in OwnTurn(r) : t < e /\ log[t].type = "assistant/message"}
           after == {t \in OwnTurn(r)' : t < e /\ log'[t].type = "assistant/message"}
<1>8. before = after
    BY <1>5, <1>6, <1>7
<1>9. {<<s, log[s].by>> : s \in before} = {<<s, log'[s].by>> : s \in before}
  <2>1. \A s \in before : log'[s] = log[s]
      BY <1>6, <1>7
  <2> HIDE DEF before
  <2> QED
      BY <2>1
<1> HIDE DEF before, after
<1>10. text'[r] = {<<s, log'[s].by>> : s \in after}
    BY <1>1, <1>8, <1>9 DEF before
<1> QED
    BY <1>3, <1>4, <1>10 DEF Conclusion, after

\* A step that is not about the end of a run.
LEMMA SerialKept ==
  ASSUME IInv, SerialInv, Kept, OneByOne, UNCHANGED <<status, active, text>>,
         \A d \in Callers : call'[d].pc \in Reading =>
           \/ call[d].pc \in Reading /\ call'[d].run = call[d].run
           \/ status[call'[d].run] \in Refreshable
  PROVE  SerialInv'
<1>1. \A r \in Runs : Conclusion(r) => Conclusion(r)'
    BY ConclusionKept
<1>2. ConclusionIsTrue'
  <2>1. ConclusionIsTrue <=> \A r \in Runs : status[r] \in {"succeeded", "incomplete"} => Conclusion(r)
      BY DEF ConclusionIsTrue, Conclusion
  <2>2. ConclusionIsTrue' <=> \A r \in Runs : status'[r] \in {"succeeded", "incomplete"} => Conclusion(r)'
      BY DEF ConclusionIsTrue, Conclusion
  <2> QED
      BY <1>1, <2>1, <2>2 DEF SerialInv
<1> QED
    BY <1>2 DEF SerialInv, OneByOne, At

Owned(r, es)  == ownedEvents(r, es, Min(PromptIn(r, es)))
EndsOf(r, es) == Owned(r, es) \cap Of(es, "turn/end")

\* What a digest shows of a turn that has ended is the whole of it.
LEMMA WholeTurn ==
  ASSUME IInv, NEW r \in Runs, NEW es \in EventMaps, ReadOf(es, baseline[r]), PromptIn(r, es) # {},
         EndsOf(r, es) # {}
  PROVE  LET e == Max(EndsOf(r, es)) IN
           /\ e \in OwnTurn(r) /\ log[e].type = "turn/end"
           /\ finalAssistantText(es, {s \in Owned(r, es) : EndsOf(r, es) = {} \/ s <= e})
                = {<<s, log[s].by>> : s \in {t \in OwnTurn(r) : t < e /\ log[t].type = "assistant/message"}}
<1> DEFINE owned == Owned(r, es)
           ends == EndsOf(r, es)
           e == Max(ends)
           p == Min(PromptIn(r, es))
<1>1. /\ Len(log) \in Nat /\ baseline[r] \in Nat /\ DOMAIN es \subseteq baseline[r] + 1 .. Len(log)
      /\ \A s \in DOMAIN es : es[s] \in Event /\ s \in 1..Len(log) /\ log[s] \in Event
  <2>1. Len(log) \in Nat /\ baseline[r] \in Nat /\ DOMAIN es \subseteq baseline[r] + 1 .. Len(log)
      BY DEF IInv, Shapes, ReadOf
  <2> QED
      BY <2>1, MapOf, Events DEF IInv
<1>2. /\ p \in PromptSeq(r) /\ \A q \in PromptIn(r, es) : p <= q
      /\ owned \subseteq OwnTurn(r) \cap DOMAIN es
    BY OwnedIsOwn DEF Owned
<1>10. owned = ownedEvents(r, es, p) /\ ends = owned \cap Of(es, "turn/end")
    BY DEF Owned, EndsOf
<1> HIDE DEF p, owned, ends
<1>3. e \in ends /\ \A s \in ends : s <= e
  <2>1. ends \in SUBSET (0..Len(log))
      BY <1>1, <1>2, <1>10
  <2>2. ends # {}
      BY DEF ends
  <2> QED
      BY <1>1, <2>1, <2>2, MaxOf DEF e
<1> HIDE DEF e
<1>4. e \in owned /\ e \in DOMAIN es /\ e \in OwnTurn(r) /\ es[e].type = "turn/end" /\ e \in Nat
    BY <1>1, <1>2, <1>3, <1>10 DEF Of
<1>5. es[e] = log[e] /\ \A s \in DOMAIN es : s < e => es[s] = log[s]
  <2>1. es[e] = log[e]
      BY <1>4 DEF ReadOf
  <2>2. ASSUME NEW s \in DOMAIN es, s < e PROVE es[s] = log[s]
    <3>1. ~(e <= s)
        BY <1>1, <1>4, <2>2
    <3> QED
        BY <1>4, <3>1 DEF ReadOf
  <2> QED
      BY <2>1, <2>2
<1>6. ASSUME NEW s \in OwnTurn(r), s < e PROVE s \in owned
  <2>1. PICK q \in PromptSeq(r) : q < s
      BY DEF OwnTurn
  <2>2. s \in 1..Len(log) /\ q \in 1..Len(log) /\ log[q] = [type |-> "user/message", by |-> r] /\ baseline[r] < q
      BY DEF OwnTurn, PromptSeq, IInv, RunOK
  <2>3. q \in DOMAIN es /\ s \in DOMAIN es
    <3>1. q \in baseline[r] + 1 .. e /\ s \in baseline[r] + 1 .. e
        BY <1>1, <1>4, <1>6, <2>1, <2>2
    <3> QED
        BY <1>4, <3>1 DEF ReadOf
  <2>4. q \in PromptIn(r, es)
    <3>1. q < e
        BY <1>1, <1>4, <1>6, <2>1, <2>2
    <3> QED
        BY <1>5, <2>2, <2>3, <3>1 DEF PromptIn, Of
  <2>5. s > p
    <3>1. p <= q /\ p \in 1..Len(log)
        BY <1>2, <2>4 DEF PromptSeq
    <3> QED
        BY <2>1, <2>2, <3>1
  <2>6. \A f \in Of(es, "user/message") : f > p /\ es[f].by \notin OwnedRpcIds(r) => s < f
    <3>1. \A f \in Of(es, "user/message") : f > p /\ es[f].by \notin OwnedRpcIds(r) => e < f
        BY <1>4, <1>10 DEF ownedEvents
    <3>2. Of(es, "user/message") \subseteq Nat /\ s \in Nat
        BY <1>1, <2>2 DEF Of
    <3> QED
        BY <1>4, <1>6, <3>1, <3>2
  <2> QED
      BY <1>10, <2>3, <2>5, <2>6 DEF ownedEvents
<1>7. ASSUME NEW s PROVE /\ s \in owned /\ s <= e /\ es[s].type = "assistant/message"
                         <=> s \in OwnTurn(r) /\ s < e /\ log[s].type = "assistant/message"
  <2>1. ASSUME s \in owned, s <= e, es[s].type = "assistant/message"
        PROVE  s \in OwnTurn(r) /\ s < e /\ log[s].type = "assistant/message"
    <3>1. s \in OwnTurn(r) /\ s \in DOMAIN es /\ s \in Nat /\ s # e
        BY <1>1, <1>2, <1>4, <2>1
    <3>2. s < e
        BY <1>4, <2>1, <3>1
    <3> QED
        BY <1>5, <2>1, <3>1, <3>2
  <2>2. ASSUME s \in OwnTurn(r), s < e, log[s].type = "assistant/message"
        PROVE  s \in owned /\ s <= e /\ es[s].type = "assistant/message"
    <3>1. s \in owned /\ s \in DOMAIN es /\ s \in Nat
        BY <1>1, <1>2, <1>6, <2>2
    <3> QED
        BY <1>4, <1>5, <2>2, <3>1
  <2> QED
      BY <2>1, <2>2
<1> DEFINE shown == {s \in owned : ends = {} \/ s <= e} \cap Of(es, "assistant/message")
           turn == {t \in OwnTurn(r) : t < e /\ log[t].type = "assistant/message"}
<1>8. shown = turn /\ \A s \in shown : es[s] = log[s]
  <2>1. \A s : s \in shown <=> s \in owned /\ s <= e /\ es[s].type = "assistant/message"
    <3>1. ends # {}
        BY DEF ends
    <3> QED
        BY <1>2, <3>1 DEF Of
  <2>2. \A s : s \in shown <=> s \in turn
      BY <1>7, <2>1
  <2>3. \A s \in turn : s \in DOMAIN es
      BY <1>2, <1>6
  <2> QED
      BY <1>5, <2>2, <2>3
<1>9. {<<s, es[s].by>> : s \in shown} = {<<s, log[s].by>> : s \in turn}
  <2> HIDE DEF shown, turn
  <2> QED
      BY <1>8
<1> QED
    BY <1>4, <1>5, <1>9 DEF finalAssistantText, e, owned, ends

LEMMA StepsSerial ==
  ASSUME IInv, SerialInv, Kept, OneByOne, NEW c \in Callers,
         \/ HostLists(c) \/ Listed(c) \/ HostReads(c) \/ Returns(c) \/ Steer(c) \/ HostSteers(c)
         \/ Watch(c) \/ Polled(c) \/ Cancel(c) \/ CancelPrepared(c) \/ HostCancels(c)
         \/ SettleCancel(c) \/ Search(c) \/ Found(c) \/ Throws(c) \/ ReconcileOperation(c)
         \/ \E r \in Runs : Call(c, r)
  PROVE  SerialInv'
<1> USE DEF Reading
<1>1. /\ call \in [Callers -> CallRec]
      /\ call[c].pc \in Reading => status[call[c].run] \in Refreshable /\ active = call[c].run /\ call[c].run \in Runs
    BY DEF IInv, Shapes, SerialInv, CallOK
<1>2. UNCHANGED <<status, active, text>>
  <2>1. CASE Listed(c)
      BY <1>1, <2>1 DEF Listed, At
  <2> QED
      BY <2>1 DEF HostLists, HostReads, Returns, Steer, HostSteers, Watch, Polled, Cancel, CancelPrepared,
         HostCancels, SettleCancel, Search, Found, Throws, ReconcileOperation, Call, runs
<1>3. \A d \in Callers \ {c} : call'[d] = call[d]
    BY <1>1 DEF HostLists, Listed, HostReads, Returns, Steer, HostSteers, Watch, Polled, Cancel, CancelPrepared,
       HostCancels, SettleCancel, Search, Found, Throws, ReconcileOperation, Call, Return, Goto, Refresh
<1>4. call'[c].pc \in Reading =>
        \/ call[c].pc \in Reading /\ call'[c].run = call[c].run
        \/ status[call'[c].run] \in Refreshable
  <2>1. ASSUME NEW r, NEW then, Refresh(c, r, then)
        PROVE  call'[c].pc \in Reading => status[call'[c].run] \in Refreshable
      BY <1>1, <2>1 DEF Refresh, NoCall
  <2>2. CASE Return(c)
      BY <1>1, <2>2 DEF Return, NoCall
  <2>3. ASSUME NEW p \in {"sending", "watching", "preparing"}, Goto(c, p)
        PROVE  call'[c].pc \notin Reading
      BY <1>1, <2>3 DEF Goto, CallRec
  <2>4. CASE HostLists(c)
      BY <1>1, <2>4 DEF HostLists, At, CallRec
  <2>5. CASE Listed(c)
      BY <1>1, <2>5 DEF Listed, At, CallRec
  <2>6. CASE HostReads(c)
    <3>1. call[c].pc = "reading" \/ Answer[call[c].pc] \notin Reading
        BY <2>6 DEF HostReads, Answer
    <3> QED
        BY <1>1, <2>6, <3>1 DEF HostReads, CallRec
  <2>7. CASE Watch(c) \/ Search(c)
      BY <1>1, <2>7 DEF Watch, Search, CallRec
  <2>8. CASE Returns(c) \/ SettleCancel(c) \/ Found(c) \/ Throws(c)
      BY <2>2, <2>8 DEF Returns, SettleCancel, Found, Throws
  <2>9. CASE Steer(c) \/ Cancel(c) \/ CancelPrepared(c)
      BY <2>2, <2>3, <2>9 DEF Steer, Cancel, CancelPrepared
  <2>10. CASE HostSteers(c) \/ Polled(c)
      BY <2>2, <2>3, <2>10 DEF HostSteers, Polled
  <2>11. CASE HostCancels(c) \/ ReconcileOperation(c) \/ \E r \in Runs : Call(c, r)
      BY <2>1, <2>2, <2>11 DEF HostCancels, ReconcileOperation, Call
  <2> QED
      BY <2>4, <2>5, <2>6, <2>7, <2>8, <2>9, <2>10, <2>11
<1> QED
    BY <1>2, <1>3, <1>4, SerialKept

LEMMA StartSerial ==
  ASSUME IInv, SerialInv, Kept, OneByOne, NEW r \in Runs, Start(r)
  PROVE  SerialInv'
<1> USE ControlAssumption
<1>1. /\ status[r] = "new" /\ active = None /\ active' = r /\ status' = [status EXCEPT ![r] = "running"]
      /\ status \in [Runs -> {"new"} \cup Refreshable \cup Concluded] /\ UNCHANGED <<text, call>>
    BY DEF Start, IInv, Shapes
<1>2. \A q \in Runs : status[q] \notin Refreshable
    BY <1>1 DEF SerialInv
<1>3. \A q \in Runs : active' = q <=> status'[q] \in Refreshable
    BY <1>1, <1>2 DEF Refreshable
<1>4. \A q \in Runs : status'[q] \in {"succeeded", "incomplete"} => Conclusion(q)'
  <2>1. \A q \in Runs : status'[q] \in {"succeeded", "incomplete"} => Conclusion(q) /\ text'[q] = text[q]
      BY <1>1 DEF SerialInv, ConclusionIsTrue, Conclusion
  <2> QED
      BY <2>1, ConclusionKept
<1>5. \A d \in Callers : call'[d].pc \in Reading => status'[call'[d].run] \in Refreshable
  <2>1. \A d \in Callers : call[d].pc \in Reading => call[d].run \in Runs
      BY DEF Reading, IInv, CallOK
  <2> QED
      BY <1>1, <1>2, <2>1 DEF SerialInv
<1> QED
    BY <1>3, <1>4, <1>5 DEF SerialInv, OneByOne, At, ConclusionIsTrue, Conclusion

LEMMA RestoredSerial ==
  ASSUME IInv, SerialInv, Kept, OneByOne, NEW c \in Callers, Restored(c)
  PROVE  SerialInv'
<1> DEFINE r == call[c].run
<1>1. /\ r \in Runs /\ status[r] \in Concluded /\ UNCHANGED <<text, active>> /\ ~At(c, "idle")
      /\ status' = status \/ status' = [status EXCEPT ![r] = "restore_failed"]
      /\ call' = [call EXCEPT ![c].pc = "refreshed"]
    BY DEF Restored, At, IInv, CallOK, Goto
<1>2. status \in [Runs -> {"new"} \cup Refreshable \cup Concluded] /\ call \in [Callers -> CallRec]
    BY DEF IInv, Shapes
<1>3. \A q \in Runs : active' = q <=> status'[q] \in Refreshable
    BY <1>1, <1>2 DEF SerialInv, Refreshable, Concluded
<1>4. \A q \in Runs : status'[q] \in {"succeeded", "incomplete"} => Conclusion(q)'
  <2>1. \A q \in Runs : status'[q] \in {"succeeded", "incomplete"} => Conclusion(q) /\ text'[q] = text[q]
      BY <1>1, <1>2 DEF SerialInv, ConclusionIsTrue, Conclusion
  <2> QED
      BY <2>1, ConclusionKept
<1>5. \A d \in Callers : call'[d].pc \notin Reading
    BY <1>1, <1>2 DEF SerialInv, At, Reading, CallRec
<1> QED
    BY <1>3, <1>4, <1>5 DEF SerialInv, OneByOne, At, ConclusionIsTrue, Conclusion

LEMMA DigestSerial ==
  ASSUME IInv, SerialInv, Kept, OneByOne, NEW c \in Callers, NEW r \in Runs, r = call[c].run, Digest(c)
  PROVE  SerialInv'
<1> USE ControlAssumption
<1> DEFINE k == call[c]
           es == mergeEvents(k.base, k.got)
           progress == highestSeq(es, baseline[r]) > incrementalStartSeq(k.base, baseline[r])
           owned == Owned(r, es)
           ends == EndsOf(r, es)
           relevant == {s \in owned : ends = {} \/ s <= Max(ends)}
           outcome == terminalOutcome(es[Max(ends)].by, cancelRequested[r], finalAssistantInterrupted(es, relevant))
<1>1. /\ k \in CallRec /\ k.pc = "read" /\ r \in Runs /\ ReadOf(es, baseline[r])
      /\ status[r] \in Refreshable /\ active = r /\ ~At(c, "idle")
      /\ status \in [Runs -> {"new"} \cup Refreshable \cup Concluded] /\ call \in [Callers -> CallRec]
      /\ text \in [Runs -> SUBSET (Nat \X Authors)]
  <2>1. k.pc = "read"
      BY DEF Digest, At
  <2>2. r \in Runs /\ ReadOf(es, baseline[r]) /\ status[r] \in Refreshable
      BY <2>1 DEF IInv, CallOK, SerialInv, Reading
  <2> QED
      BY <2>1, <2>2 DEF IInv, Shapes, SerialInv, At
<1>2. es \in EventMaps
  <2>1. /\ DOMAIN k.base \subseteq Nat /\ \A s \in DOMAIN k.base : k.base[s] \in Event
        /\ DOMAIN k.got \subseteq Nat /\ \A s \in DOMAIN k.got : k.got[s] \in Event
      BY <1>1, MapOf DEF CallRec
  <2>2. es \in [DOMAIN k.base \cup DOMAIN k.got -> Event]
      BY <2>1 DEF mergeEvents
  <2> QED
      BY <2>1, <2>2 DEF EventMaps
<1>3. /\ IF PromptIn(r, es) = {}
         THEN /\ UNCHANGED text
              /\ IF ~k.seen /\ cancelRequested[r]
                 THEN finalize(r, "cancelled") /\ Goto(c, "restoring")
                 ELSE Continues(r, progress, k.seen) /\ Goto(c, "refreshed")
         ELSE /\ text' = [text EXCEPT ![r] = finalAssistantText(es, relevant)]
              /\ IF ends = {}
                 THEN Continues(r, progress, k.seen) /\ Goto(c, "refreshed")
                 ELSE finalize(r, outcome) /\ Goto(c, "restoring")
      /\ UNCHANGED <<log, op>>
    BY DEF Digest, host, Owned, EndsOf
<1>4. outcome \in Concluded
    BY DEF terminalOutcome, Concluded
<1> HIDE DEF es, outcome, progress
<1>5. \/ PromptIn(r, es) # {} /\ ends # {} /\ text' = [text EXCEPT ![r] = finalAssistantText(es, relevant)]
         /\ finalize(r, outcome) /\ Goto(c, "restoring")
      \/ UNCHANGED text /\ finalize(r, "cancelled") /\ Goto(c, "restoring")
      \/ /\ Continues(r, progress, k.seen) /\ Goto(c, "refreshed")
         /\ \A q \in Runs \ {r} : text'[q] = text[q]
    BY <1>1, <1>3
<1>6. \A q \in Runs \ {r} : text'[q] = text[q] /\ status'[q] = status[q]
    BY <1>1, <1>5 DEF finalize, Continues
<1>7. \A q \in Runs : active' = q <=> status'[q] \in Refreshable
  <2>1. \A q \in Runs \ {r} : status'[q] \notin Refreshable
      BY <1>1, <1>6 DEF SerialInv
  <2>2. \/ active' = None /\ status'[r] \notin Refreshable
        \/ active' = r /\ status'[r] \in Refreshable
    <3>1. ASSUME NEW o \in Concluded, finalize(r, o)
          PROVE  active' = None /\ status'[r] \notin Refreshable
        BY <1>1, <3>1 DEF finalize, Refreshable, Concluded
    <3>2. ASSUME Continues(r, progress, k.seen)
          PROVE  active' = r /\ status'[r] \in Refreshable
        BY <1>1, <3>2 DEF Continues, Refreshable
    <3>3. "cancelled" \in Concluded
        BY DEF Concluded
    <3> QED
        BY <1>4, <1>5, <3>1, <3>2, <3>3
  <2> QED
      BY <1>1, <2>1, <2>2
<1>8. \A q \in Runs \ {r} : status'[q] \in {"succeeded", "incomplete"} => Conclusion(q)'
  <2>1. \A q \in Runs \ {r} : status'[q] \in {"succeeded", "incomplete"} => Conclusion(q) /\ text'[q] = text[q]
      BY <1>6 DEF SerialInv, ConclusionIsTrue, Conclusion
  <2> QED
      BY <2>1, ConclusionKept
<1>9. status'[r] \in {"succeeded", "incomplete"} => Conclusion(r)'
  <2>1. SUFFICES ASSUME status'[r] \in {"succeeded", "incomplete"} PROVE Conclusion(r)'
      OBVIOUS
  <2>2. PromptIn(r, es) # {} /\ ends # {} /\ text' = [text EXCEPT ![r] = finalAssistantText(es, relevant)]
    <3>1. ASSUME finalize(r, "cancelled") PROVE FALSE
        BY <1>1, <2>1, <3>1 DEF finalize
    <3>2. ASSUME Continues(r, progress, k.seen) PROVE FALSE
        BY <1>1, <2>1, <3>2 DEF Continues, Refreshable
    <3> QED
        BY <1>5, <3>1, <3>2
  <2>3. /\ Max(ends) \in OwnTurn(r) /\ log[Max(ends)].type = "turn/end"
        /\ text'[r] = {<<s, log[s].by>> : s \in {t \in OwnTurn(r) : t < Max(ends) /\ log[t].type = "assistant/message"}}
    <3>1. text'[r] = finalAssistantText(es, relevant)
        BY <1>1, <2>2
    <3> QED
        BY <1>1, <1>2, <2>2, <3>1, WholeTurn
  <2>4. log' = log /\ \A q \in Runs : OwnTurn(q)' = OwnTurn(q)
      BY <1>3 DEF OwnTurn, PromptSeq, OwnedRpcIds
  <2>5. PICK e \in OwnTurn(r) : /\ log[e].type = "turn/end"
                                /\ text'[r] = {<<s, log[s].by>> : s \in {t \in OwnTurn(r) :
                                                 t < e /\ log[t].type = "assistant/message"}}
      BY <2>3
  <2> QED
      BY <2>4, <2>5 DEF Conclusion
<1>10. \A d \in Callers : call'[d].pc \notin Reading
  <2>1. \E p \in {"refreshed", "restoring"} : call' = [call EXCEPT ![c].pc = p]
      BY <1>5 DEF Goto
  <2> QED
      BY <1>1, <2>1 DEF SerialInv, At, Reading, CallRec
<1> QED
    BY <1>7, <1>8, <1>9, <1>10 DEF SerialInv, OneByOne, At, ConclusionIsTrue, Conclusion

LEMMA SerialInductive ==
  ASSUME IInv, SerialInv, Next, OneByOne
  PROVE  SerialInv'
<1>1. Kept
    BY Inductive
<1>2. CASE HostStep \/ Elapse
  <2>1. UNCHANGED <<status, active, text, call>>
      BY <1>2 DEF HostStep, Elapse, Persist, Write, Finish, EndTurn, WebPrompt, runs
  <2> QED
      BY <1>1, <2>1, SerialKept
<1>3. ASSUME NEW r \in Runs, Start(r) PROVE SerialInv'
    BY <1>1, <1>3, StartSerial
<1>4. ASSUME NEW c \in Callers, Digest(c) PROVE SerialInv'
  <2>1. call[c].run \in Runs
      BY <1>4 DEF Digest, At, IInv, CallOK
  <2> QED
      BY <1>1, <1>4, <2>1, DigestSerial
<1>5. ASSUME NEW c \in Callers, Restored(c) PROVE SerialInv'
    BY <1>1, <1>5, RestoredSerial
<1>6. ASSUME NEW c \in Callers,
             (Step(c) /\ ~Digest(c) /\ ~Restored(c)) \/ Throws(c) \/ ReconcileOperation(c) \/ \E r \in Runs : Call(c, r)
      PROVE  SerialInv'
    BY <1>1, <1>6, StepsSerial DEF Step
<1> QED
    BY <1>2, <1>3, <1>4, <1>5, <1>6 DEF Next

-----------------------------------------------------------------------------
(* The theorems.                                                           *)

CasesInv == IInv /\ (case = "serial" => SerialInv)

LEMMA CasesInitially == CasesInit => CasesInv
<1> SUFFICES ASSUME CasesInit PROVE CasesInv
    OBVIOUS
<1>1. /\ IInv /\ \A r \in Runs : status[r] = "new"
      /\ active = None /\ \A c \in Callers : call[c].pc = "idle"
    BY Initially DEF CasesInit, Init, NoCall
<1>2. SerialInv
    BY <1>1, ControlAssumption DEF SerialInv, Reading, At, Refreshable, ConclusionIsTrue
<1> QED
    BY <1>1, <1>2 DEF CasesInv

\* Nothing moves.
LEMMA Stuttering ==
  ASSUME IInv, UNCHANGED vars
  PROVE  Kept
<1>1. /\ UNCHANGED <<log, working, due, status, cancelRequested, baseline, events, text, silent, active, op>>
      /\ UNCHANGED call
    BY DEF vars, host, runs
<1>2. Shapes' /\ LogInv'
    BY <1>1 DEF IInv, Shapes, LogInv
<1>3. LogMoves /\ OpMoves /\ \A r \in Runs : RunMoves(r)
    BY <1>1, Unmoved DEF IInv, OpMoves, RunMoves
<1>4. \A m : Sends(m)' <=> Sends(m)
    BY <1>1 DEF Sends
<1>5. \A r \in Runs : RunOK(r)'
  <2>1. \A r \in Runs : status'[r] \in Concluded => ~silent'[r]
      BY <1>1 DEF IInv, RunOK
  <2> QED
      BY <1>1, <1>2, <1>3, <1>4, <2>1, RunKept
<1>6. \A d \in Callers : CallOK(d)' /\ OpOK(d)'
    BY <1>1, <1>2, <1>3, <1>4, CallKept, OpKept
<1> QED
    BY <1>1, <1>2, <1>3, <1>5, <1>6, TextKept DEF Kept, IInv

LEMMA CasesInductive ==
  ASSUME CasesInv, [CasesNext]_<<vars, case>>
  PROVE  CasesInv' /\ (UNCHANGED vars \/ (Next /\ Kept /\ case' = case /\ (case = "serial" => OneByOne)))
<1>1. CASE CasesNext
    BY <1>1, Inductive, SerialInductive DEF CasesInv, CasesNext, Kept
<1>2. CASE UNCHANGED <<vars, case>>
  <2>1. UNCHANGED vars /\ case' = case /\ IInv
      BY <1>2 DEF CasesInv
  <2>2. Kept
      BY <2>1, Stuttering
  <2>3. ASSUME SerialInv PROVE SerialInv'
    <3>1. UNCHANGED <<call, op, status, active, log, events, text, baseline, silent, cancelRequested>>
        BY <2>1 DEF vars, host, runs
    <3>2. OneByOne
        BY <3>1, <2>3 DEF SerialInv, OneByOne, At
    <3> QED
        BY <3>1, <3>2, <2>1, <2>2, <2>3, SerialKept
  <2>4. CasesInv'
    <3>1. case' = "serial" => SerialInv'
        BY <2>1, <2>3 DEF CasesInv
    <3> QED
        BY <2>2, <3>1 DEF CasesInv, Kept
  <2> QED
      BY <2>1, <2>4
<1> QED
    BY <1>1, <1>2

\* The records of a run have their types, and a run holds no event from before its
\* baseline, for any number of runs, calls and events, in both cases
\* (RunReconciler.historyAfter).
THEOREM RecordsAreTyped == CasesSpec => []TypeOK
<1>1. CasesInv => TypeOK
    BY DEF CasesInv, IInv, Shapes, RunOK, ReadOf, TypeOK
<1> QED
    BY <1>1, CasesInitially, CasesInductive, PTL DEF CasesSpec

\* A run never shows text of another run or of the web page, however stale the
\* history its text is taken from (ownedEvents).
THEOREM TextIsOwned == CasesSpec => []OwnText
<1>1. CasesInv => OwnText
    BY DEF CasesInv, IInv
<1> QED
    BY <1>1, CasesInitially, CasesInductive, PTL DEF CasesSpec

\* When calls follow one another, a run that has ended shows the text of its whole
\* turn in its final form, and its session is taken exactly while it goes on
\* (RunReconciler.refresh and finalize).
THEOREM ConclusionsHold == CasesSpec => []ConclusionHolds
<1>1. CasesInv => ConclusionHolds
    BY DEF CasesInv, SerialInv, ConclusionHolds, SessionMatchesRun
<1> QED
    BY <1>1, CasesInitially, CasesInductive, PTL DEF CasesSpec

\* A run that has ended never goes on, and keeps its outcome when calls follow one
\* another (Refresh, finalize).
THEOREM RunsEndOnce == CasesSpec => EndsStand
<1>1. ASSUME CasesInv, [CasesNext]_<<vars, case>>
      PROVE  [ConcludedStays /\ (case = "serial" => OutcomeKept)]_vars
  <2>1. SUFFICES ASSUME Next, Kept, case = "serial" => OneByOne
                 PROVE  ConcludedStays /\ (case = "serial" => OutcomeKept)
      BY <1>1, CasesInductive
  <2>2. ConcludedStays
      BY <2>1 DEF Kept, RunMoves, ConcludedStays
  <2>3. ASSUME case = "serial", NEW r \in Runs, status[r] \in Concluded
        PROVE  status'[r] \in {status[r], "restore_failed"}
    <3>1. SerialInv /\ IInv
        BY <1>1, <2>3 DEF CasesInv
    <3>2. status \in [Runs -> {"new"} \cup Refreshable \cup Concluded]
        BY <3>1 DEF IInv, Shapes
    <3>3. ASSUME NEW c \in Callers, Digest(c) PROVE status'[r] = status[r]
      <4>1. call[c].run \in Runs /\ status[call[c].run] \in Refreshable
          BY <3>1, <3>3 DEF Digest, At, SerialInv, Reading, IInv, CallOK
      <4>2. r # call[c].run
          BY <2>3, <4>1 DEF Refreshable, Concluded
      <4> QED
          BY <3>2, <3>3, <4>1, <4>2 DEF Digest, finalize, Continues
    <3>4. ASSUME NEW c \in Callers, Restored(c) PROVE status'[r] \in {status[r], "restore_failed"}
        BY <3>2, <3>4 DEF Restored
    <3>5. ASSUME NEW q \in Runs, Start(q) PROVE status'[r] = status[r]
        BY <2>3, <3>2, <3>5 DEF Start, Concluded
    <3>6. ASSUME NEW c \in Callers,
                 (Step(c) /\ ~Digest(c) /\ ~Restored(c)) \/ Throws(c) \/ ReconcileOperation(c)
                    \/ \E q \in Runs : Call(c, q)
          PROVE  status' = status
        BY <3>6 DEF Step, HostLists, Listed, HostReads, Returns, Steer, HostSteers, Watch, Polled, Cancel,
           CancelPrepared, HostCancels, SettleCancel, Search, Found, Throws, ReconcileOperation, Call, runs
    <3>7. CASE HostStep \/ Elapse
        BY <3>7 DEF HostStep, Elapse, Persist, Write, Finish, EndTurn, WebPrompt, runs
    <3> QED
        BY <2>1, <3>3, <3>4, <3>5, <3>6, <3>7 DEF Next
  <2> QED
      BY <2>2, <2>3 DEF OutcomeKept
<1> QED
    BY <1>1, CasesInitially, CasesInductive, PTL DEF CasesSpec, EndsStand

\* The same of calls that overlap in any way and fail at any time, outside the two
\* cases: the records have their types, no run shows text of somebody else, and a run
\* that has ended never goes on (RunReconciler.refresh).
THEOREM RunsAreSound == Spec => [](TypeOK /\ OwnText) /\ [][ConcludedStays]_vars
<1>1. IInv => TypeOK /\ OwnText
    BY DEF IInv, Shapes, RunOK, ReadOf, TypeOK
<1>2. ASSUME IInv, [Next]_vars
      PROVE  IInv' /\ [ConcludedStays]_vars
  <2>1. Kept
      BY <1>2, Inductive, Stuttering
  <2> QED
      BY <2>1 DEF Kept, RunMoves, ConcludedStays
<1> QED
    BY <1>1, <1>2, Initially, PTL DEF Spec
=============================================================================
