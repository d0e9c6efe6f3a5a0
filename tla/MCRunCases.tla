----------------------------- MODULE MCRunCases -----------------------------
(***************************************************************************)
(* Two cases of RunControl in one state space: polls, a steer and a cancel *)
(* follow one another, or a poll and a steer overlap and no call fails.    *)
(***************************************************************************)
EXTENDS MCRunControl

VARIABLE case

OneByOne == \A c, d \in Callers : At(c, "idle")' \/ At(d, "idle")' \/ c = d
Racing   == failures' = 0 /\ \A c \in Callers \ {g1, s1} : At(c, "idle")'

CasesInit == Init /\ case \in {"serial", "racing"}

CasesNext ==
  /\ Next /\ UNCHANGED case
  /\ case = "serial" => OneByOne
  /\ case = "racing" => Racing

CasesSpec == CasesInit /\ [][CasesNext]_<<vars, case>>

\* A run concludes with the end and the text of its own turn, and then frees its
\* session, when calls do not overlap (RunControl).
ConclusionHolds == case = "serial" => ConclusionIsTrue /\ SessionMatchesRun

\* A run that has ended never runs again, in each case, and keeps its outcome,
\* when calls do not overlap (RunControl).
EndsStand == [][ConcludedStays /\ (case = "serial" => OutcomeKept)]_vars
=============================================================================
