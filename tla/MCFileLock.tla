----------------------------- MODULE MCFileLock -----------------------------
(* Instances of FileLock for TLC.                                          *)
EXTENDS FileLock, TLC

CONSTANTS p1, p2, p3, p4

Symmetry == Permutations(Procs)
=============================================================================
