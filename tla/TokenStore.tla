---------------------------- MODULE TokenStore ----------------------------
(***************************************************************************)
(* Hosts and proxies of one profile that load or create its bearer token:  *)
(* TokenStoreFacade.loadOrCreate(), of a file.                             *)
(***************************************************************************)
EXTENDS Integers

CONSTANTS
  Loaders,        \* processes, each loading once
  None,           \* "no token"
  MaxErrors,      \* bound: file operations that fail
  MaxRemovals     \* bound: times the user removes the token file

VARIABLES
  tokenFile,  \* the token file: None, Half or the process that made the token
  temp,       \* the temporary file of a process: None, Half or its token
  at,         \* where a process is
  token,      \* the token a process was given
  errors, removals

tokenVars == <<tokenFile, temp, at, token, errors, removals>>

\* The content of a file that is created and not yet written.
Half == "half"

-----------------------------------------------------------------------------
TokenInit ==
  /\ tokenFile = None /\ errors = 0 /\ removals = 0
  /\ temp = [p \in Loaders |-> None]
  /\ at = [p \in Loaders |-> "start"]
  /\ token = [p \in Loaders |-> None]

Goes(p, from, to) == at[p] = from /\ at' = [at EXCEPT ![p] = to]

Open(p) == /\ Goes(p, "start", "opened") /\ temp' = [temp EXCEPT ![p] = Half]
           /\ UNCHANGED <<tokenFile, token, errors, removals>>

\* The bug: the name is published first.
WriteLater(p) == /\ at[p] = "opened" /\ at' = [at EXCEPT ![p] = "written"]
                 /\ UNCHANGED <<tokenFile, temp, token, errors, removals>>

Write(p) == /\ Goes(p, "opened", "written") /\ temp' = [temp EXCEPT ![p] = p]
            /\ UNCHANGED <<tokenFile, token, errors, removals>>

\* The bug: rename() instead of link().
LinkOver(p) == /\ Goes(p, "written", "linked") /\ tokenFile' = temp[p]
               /\ UNCHANGED <<temp, token, errors, removals>>

\* link() publishes the token under its name, or another process was first.
Link(p) ==
  /\ at[p] = "written"
  /\ IF tokenFile = None THEN tokenFile' = temp[p] /\ at' = [at EXCEPT ![p] = "linked"]
     ELSE at' = [at EXCEPT ![p] = "late"] /\ UNCHANGED tokenFile
  /\ UNCHANGED <<temp, token, errors, removals>>

Unlink(p) == /\ Goes(p, "linked", "done") /\ temp' = [temp EXCEPT ![p] = None]
             /\ token' = [token EXCEPT ![p] = p]
             /\ UNCHANGED <<tokenFile, errors, removals>>

\* An operation on the temporary file fails: it is unlinked, and the error thrown.
Fails(p) ==
  /\ at[p] \in {"opened", "written", "linked"} /\ errors < MaxErrors /\ errors' = errors + 1
  /\ at' = [at EXCEPT ![p] = "failed"] /\ temp' = [temp EXCEPT ![p] = None]
  /\ UNCHANGED <<tokenFile, token, removals>>

\* The bug: the temporary file stays.
LateLeaves(p) == /\ Goes(p, "late", "reading")
                 /\ UNCHANGED <<tokenFile, temp, token, errors, removals>>

\* EEXIST: the temporary file goes, and the token of the other is read.
Late(p) == /\ Goes(p, "late", "reading") /\ temp' = [temp EXCEPT ![p] = None]
           /\ UNCHANGED <<tokenFile, token, errors, removals>>

Read(p) ==
  /\ at[p] = "reading"
  /\ IF tokenFile \in {None, Half}
     THEN at' = [at EXCEPT ![p] = "failed"] /\ UNCHANGED token
     ELSE at' = [at EXCEPT ![p] = "done"] /\ token' = [token EXCEPT ![p] = tokenFile]
  /\ UNCHANGED <<tokenFile, temp, errors, removals>>

Remove == /\ tokenFile # None /\ removals < MaxRemovals /\ removals' = removals + 1
          /\ tokenFile' = None
          /\ UNCHANGED <<temp, at, token, errors>>

TokenNext ==
  \/ Remove
  \/ \E p \in Loaders : Open(p) \/ Write(p) \/ Link(p) \/ Unlink(p) \/ Fails(p) \/ Late(p) \/ Read(p)

TokenSpec == TokenInit /\ [][TokenNext]_tokenVars

-----------------------------------------------------------------------------
\* Everyone who was given a token was given the one that is in the file, unless
\* the user removed it: a proxy that raced the Host for it can still log in.
OneToken ==
  removals = 0 => \A p \in Loaders : token[p] # None => token[p] = tokenFile

\* A token is never seen half written, and nobody fails by the race itself.
TokenIsWhole ==
  /\ tokenFile # Half
  /\ \A p \in Loaders : at[p] = "failed" => errors + removals > 0

\* A process that has returned or thrown leaves no temporary file with a secret.
NoLitter == \A p \in Loaders : at[p] \in {"reading", "done", "failed"} => temp[p] = None
=============================================================================
