---------------------------- MODULE MCStdioProxy ----------------------------
(* Instances of StdioProxy for TLC: one client, and two lives of its Host. *)
EXTENDS StdioProxy, TLC

CONSTANTS p1
=============================================================================
