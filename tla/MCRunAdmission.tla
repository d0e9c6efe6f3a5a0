--------------------------- MODULE MCRunAdmission ---------------------------
EXTENDS RunAdmission, TLC
CONSTANTS c1, c2, c3
Symmetry == Permutations(Calls)
=============================================================================
