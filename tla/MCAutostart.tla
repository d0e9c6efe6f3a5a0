---------------------------- MODULE MCAutostart ----------------------------
(* Instances of Autostart for TLC: clients of one profile, and few lives.   *)
EXTENDS Autostart, TLC

CONSTANTS p1, p2
=============================================================================
