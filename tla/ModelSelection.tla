-------------------------- MODULE ModelSelection --------------------------
(***************************************************************************)
(* ModelSelectionFacade: choosing the model of a session makes the Host    *)
(* change its default model too, and Relay puts the default back.          *)
(***************************************************************************)
EXTENDS Integers

CONSTANTS
  Selections,   \* calls of select(), of several sessions
  Choice,       \* [Selections -> Models], the model each one asks for
  Models,
  None,
  MaxChanges,   \* bound: changes of the default by the user in the web page
  MaxMishaps    \* bound: Host requests that fail or whose answer is lost

VARIABLES
  default,     \* agent-default-model of the Host: [user, revision, by], by being who wrote it
  progress,    \* [Selections -> where the call is]
  before,      \* [Selections -> the namespace it read first]
  after,       \* [Selections -> the namespace it read after the selection]
  wanted,      \* the default the user set last
  disturbed,   \* a request has failed, or the user changed the default during a call
  changes, mishaps

selectionVars == <<default, progress, before, after, wanted, disturbed, changes, mishaps>>

Done == {"restored", "not-needed", "skipped-concurrent-change", "unavailable", "failed"}

-----------------------------------------------------------------------------
Active(c) == progress[c] \notin Done \cup {"called"}

\* The bug: no tail, calls overlap.
FirstAny(c) == c \in Selections

\* select() queues behind this.tail: one call at a time.
First(c) == \A d \in Selections : ~Active(d)

\* The revision and value that only this call's own selection can explain.
OwnChange(c) ==
  /\ after[c].revision = before[c].revision + 1
  /\ after[c].user = Choice[c]

SelectionInit ==
  /\ default \in [user : Models \cup {None}, revision : {0}, by : {None}]
  /\ wanted = default.user
  /\ progress = [c \in Selections |-> "called"]
  /\ before = [c \in Selections |-> default] /\ after = before
  /\ disturbed = FALSE /\ changes = 0 /\ mishaps = 0

GoOn(c, to) == progress' = [progress EXCEPT ![c] = to]

Mishap == mishaps < MaxMishaps /\ mishaps' = mishaps + 1 /\ disturbed' = TRUE

DescribeBefore(c) ==
  /\ progress[c] = "called" /\ First(c)
  /\ \/ GoOn(c, "select") /\ before' = [before EXCEPT ![c] = default]
        /\ UNCHANGED <<disturbed, mishaps>>
     \/ GoOn(c, "selectBlind") /\ Mishap /\ UNCHANGED before
  /\ UNCHANGED <<default, after, wanted, changes>>

\* The Host selects the model and makes it its default.
HostSelects(c) == default' = [user |-> Choice[c], revision |-> default.revision + 1, by |-> c]

SelectSessionModel(c) ==
  /\ progress[c] \in {"select", "selectBlind"}
  /\ \/ HostSelects(c) /\ GoOn(c, IF progress[c] = "select" THEN "describe" ELSE "unavailable")
        /\ UNCHANGED <<disturbed, mishaps>>
     \/ (HostSelects(c) \/ UNCHANGED default) /\ GoOn(c, "failed") /\ Mishap
  /\ UNCHANGED <<before, after, wanted, changes>>

DescribeAfter(c) ==
  /\ progress[c] = "describe"
  /\ \/ after' = [after EXCEPT ![c] = default] /\ GoOn(c, "compare")
        /\ UNCHANGED <<disturbed, mishaps>>
     \/ GoOn(c, "unavailable") /\ Mishap /\ UNCHANGED after
  /\ UNCHANGED <<default, before, wanted, changes>>

Compare(c) ==
  /\ progress[c] = "compare"
  /\ GoOn(c, CASE after[c].revision = before[c].revision -> "not-needed"
               [] OwnChange(c) -> "restore"
               [] OTHER -> "skipped-concurrent-change")
  /\ UNCHANGED <<default, before, after, wanted, disturbed, changes, mishaps>>

\* The bug: no expected revision.
HostRestoresAnyway(c) ==
  default' = [user |-> before[c].user, revision |-> default.revision + 1, by |-> c]

\* replaceSettings, or mutateSettings with "unset", at the revision read after.
HostRestores(c) ==
  /\ default.revision = after[c].revision
  /\ default' = [user |-> before[c].user, revision |-> default.revision + 1, by |-> c]

Restore(c) ==
  /\ progress[c] = "restore"
  /\ \/ HostRestores(c) /\ GoOn(c, "restored") /\ UNCHANGED <<disturbed, mishaps>>
     \/ /\ default.revision # after[c].revision
        /\ UNCHANGED <<default, disturbed, mishaps>>
        /\ GoOn(c, "skipped-concurrent-change")
     \/ /\ HostRestores(c) \/ UNCHANGED default
        /\ GoOn(c, "skipped-concurrent-change") /\ Mishap
  /\ UNCHANGED <<before, after, wanted, changes>>

\* The user, or another Relay, changes the default.
UserChanges(m) ==
  /\ changes < MaxChanges /\ changes' = changes + 1
  /\ default' = [user |-> m, revision |-> default.revision + 1, by |-> None]
  /\ wanted' = m
  /\ disturbed' = (disturbed \/ \E c \in Selections : Active(c))
  /\ UNCHANGED <<progress, before, after, mishaps>>

SelectionNext ==
  \/ \E c \in Selections : \/ DescribeBefore(c) \/ SelectSessionModel(c)
                           \/ DescribeAfter(c) \/ Compare(c) \/ Restore(c)
  \/ \E m \in Models : UserChanges(m)

SelectionSpec == SelectionInit /\ [][SelectionNext]_selectionVars

-----------------------------------------------------------------------------
\* A call puts nothing over a default somebody else has written: what it
\* replaces is always the write of its own selection.
RestoresOwnWrite ==
  [][\A c \in Selections :
       progress[c] = "restore" /\ progress'[c] # "restore" /\ default' # default
         => default.by = c]_selectionVars

\* Selections of several sessions, one after the other, leave the default of
\* the user alone when no request fails and nobody changes it meanwhile.
DefaultIsKept ==
  (\A c \in Selections : ~Active(c)) /\ ~disturbed => default.user = wanted
=============================================================================
