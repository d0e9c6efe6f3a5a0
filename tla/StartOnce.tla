----------------------------- MODULE StartOnce -----------------------------
(***************************************************************************)
(* What start_run promises to a client that retries: an idempotency key    *)
(* stands for one operation, an operation is bound to one session before   *)
(* anything is asked of the Host, and whatever is asked is the prompt of    *)
(* that operation in that session.  The Host may take a request late, take *)
(* it from one of several copies, or never.                                *)
(***************************************************************************)
CONSTANTS
  Operations,   \* identifiers of operations
  Keys,         \* idempotency keys
  Sessions,     \* Harness sessions
  None          \* "no key", "no session"

VARIABLES
  key,          \* the key an operation stands for, or None
  session,      \* the session its prompt is for, or None
  asked,        \* prompts on their way to the Host
  host          \* prompts the Host has

vars == <<key, session, asked, host>>

Prompt(i) == [op |-> i, session |-> session[i]]

Init ==
  /\ key = [i \in Operations |-> None] /\ session = [i \in Operations |-> None]
  /\ asked = {} /\ host = {}

\* A key is claimed once.
Claim(i, k) ==
  /\ key[i] = None /\ \A j \in Operations : key[j] # k
  /\ key' = [key EXCEPT ![i] = k]
  /\ UNCHANGED <<session, asked, host>>

\* A save binds operations that have a key, each to one session for good.
Bind ==
  /\ session' \in [Operations -> Sessions \cup {None}]
  /\ \A i \in Operations : session'[i] # session[i] => session[i] = None /\ key[i] # None
  /\ UNCHANGED <<key, asked, host>>

\* A prompt may be sent again, to the session it was sent to before.
Ask(i) ==
  /\ session[i] # None
  /\ asked' = asked \cup {Prompt(i)}
  /\ UNCHANGED <<key, session, host>>

Take(m) ==
  /\ m \in asked
  /\ asked' \in {asked, asked \ {m}} /\ host' = host \cup {m}
  /\ UNCHANGED <<key, session>>

Lose(m) ==
  /\ m \in asked
  /\ asked' = asked \ {m}
  /\ UNCHANGED <<key, session, host>>

Next ==
  \/ \E i \in Operations, k \in Keys : Claim(i, k)
  \/ Bind
  \/ \E i \in Operations : Ask(i)
  \/ \E m \in asked : Take(m) \/ Lose(m)

Spec == Init /\ [][Next]_vars

-----------------------------------------------------------------------------
\* A key has one prompt: all copies that were ever on their way, before and
\* after crashes and retries, are of one operation and in one session.
OnePrompt == \A m, n \in asked \cup host : key[m.op] = key[n.op] => m = n
=============================================================================
