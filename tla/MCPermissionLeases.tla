------------------------- MODULE MCPermissionLeases -------------------------
(* Instances of PermissionLeases for TLC: the session is read-only, and its *)
(* runs ask for more.                                                      *)
EXTENDS PermissionLeases, TLC

CONSTANTS r1, r2, c1, c2

Granted == [r \in Runs |-> IF r = r1 THEN "write" ELSE "full"]
=============================================================================
