---------------------------- MODULE MCRunControl ----------------------------
(* Instances of RunControl for TLC.                                        *)
EXTENDS RunControl, TLC

CONSTANTS r1, r2, g1, s1, x1

KindOf(c) == IF c = s1 THEN "steer" ELSE IF c = x1 THEN "cancel" ELSE "get"
Kinds     == [c \in Callers |-> KindOf(c)]
Symmetry  == Permutations(Runs)
=============================================================================
