------------------------------- MODULE Mutex -------------------------------
(***************************************************************************)
(* What a lock of the Relay promises to the processes that use it: at most *)
(* one of them holds it at any time.  A process that holds it may release  *)
(* it or die.                                                              *)
(***************************************************************************)
CONSTANT Procs

VARIABLE holders   \* the processes that act as owners of the lock

Init == holders = {}

Enter(p) == holders = {} /\ holders' = {p}

Leave(p) == p \in holders /\ holders' = holders \ {p}

Next == \E p \in Procs : Enter(p) \/ Leave(p)

Spec == Init /\ [][Next]_holders
=============================================================================
