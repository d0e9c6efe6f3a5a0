----------------------------- MODULE TaskScope -----------------------------
(***************************************************************************)
(* The structured scope of a task: what start_run accepts, and what a      *)
(* chain of reply_run calls hands on (run-input.ts).  A path is the        *)
(* sequence of its names, ".." among them.                                 *)
(***************************************************************************)
EXTENDS Integers, Sequences

CONSTANTS
  Offers,     \* [Fields -> the sets of paths a caller may supply]
  Workspace,   \* the absolute path of the workspace
  None         \* no run, or no preset

VARIABLES
  parent,   \* the run replied to, or None
  run       \* the run admitted last, or None

scopeVars == <<parent, run>>

Presets == {"read-only", "workspace-write", "danger-full-access"}
Fields  == {"reviewTargets", "contextReadScope", "excludedPaths", "writeScope"}

-----------------------------------------------------------------------------
\* path.resolve(): ".." takes a name away, and nothing at the root.
resolve(names) ==
  LET done[n \in 0 .. Len(names)] ==
        IF n = 0 THEN <<>>
        ELSE IF names[n] # ".." THEN Append(done[n - 1], names[n])
        ELSE IF done[n - 1] = <<>> THEN <<>>
        ELSE SubSeq(done[n - 1], 1, Len(done[n - 1]) - 1)
  IN  done[Len(names)]

Target(path) == resolve(Workspace \o path)

containsPath(outer, inner) ==
  Len(outer) <= Len(inner) /\ SubSeq(inner, 1, Len(outer)) = outer

Escapes(path) == ~containsPath(Workspace, Target(path))

\* normalizePaths(): every path relative to the workspace, <<>> for itself.
normalizePaths(paths) == {SubSeq(Target(p), Len(Workspace) + 1, Len(Target(p))) : p \in paths}

\* A scope is a function of the fields that are supplied; <<>> when none is.
Supplied(scope) == DOMAIN scope # {}

ValueOr(value, other) == IF value = None THEN other ELSE value

\* The paths of a field, of which there are none when it is not supplied.
Paths(scope, f) == IF f \in DOMAIN scope THEN scope[f] ELSE {}

\* resolveTaskScope(): the scope of a request that supplies one.
Scope(given) == [f \in Fields |-> normalizePaths(Paths(given, f))]

\* The bug: exclusions are compared for equality only.
ScopeIsValidByName(given, preset) ==
  LET scope == Scope(given) IN
  /\ Paths(given, "reviewTargets") # {} /\ Paths(given, "contextReadScope") # {}
  /\ \A f \in Fields : \A p \in Paths(given, f) : ~Escapes(p)
  /\ \A target \in scope["reviewTargets"] :
       /\ \E context \in scope["contextReadScope"] : containsPath(context, target)
       /\ target \notin scope["excludedPaths"]
  /\ preset = "read-only" <=> scope["writeScope"] = {}

\* The reasons to refuse it, in no particular order.
ScopeIsValid(given, preset) ==
  LET scope == Scope(given) IN
  /\ Paths(given, "reviewTargets") # {} /\ Paths(given, "contextReadScope") # {}
  /\ \A f \in Fields : \A p \in Paths(given, f) : ~Escapes(p)
  /\ \A target \in scope["reviewTargets"] :
       /\ \E context \in scope["contextReadScope"] : containsPath(context, target)
       /\ \A excluded \in scope["excludedPaths"] : ~containsPath(excluded, target)
  /\ preset = "read-only" <=> scope["writeScope"] = {}

validateStartRunInput(input) ==
  /\ input.preset = "danger-full-access" => input.confirmed
  /\ Supplied(input.scope) => ScopeIsValid(input.scope, ValueOr(input.preset, "read-only"))

Admitted(input) ==
  [preset |-> ValueOr(input.preset, "read-only"), confirmed |-> input.confirmed,
   scope |-> IF Supplied(input.scope) THEN Scope(input.scope) ELSE <<>>]

\* The bug: a reply that supplies nothing inherits nothing.
inheritWhenSupplied(scope, inherited) ==
  IF ~Supplied(scope) THEN scope
  ELSE [f \in DOMAIN scope \cup DOMAIN inherited |->
          IF f \in DOMAIN scope THEN scope[f] ELSE inherited[f]]

\* inheritTaskScope(): each field that is not supplied is the parent's.
inheritTaskScope(scope, inherited) ==
  [f \in DOMAIN scope \cup DOMAIN inherited |->
     IF f \in DOMAIN scope THEN scope[f] ELSE inherited[f]]

-----------------------------------------------------------------------------
ScopeInit == parent = None /\ run = None

StartRun(input) ==
  /\ validateStartRunInput(input)
  /\ run' = Admitted(input) /\ parent' = None

\* What a reply asks for: the preset and the scope of its parent, unless given.
Continued(input) ==
  [input EXCEPT !.preset = ValueOr(@, run.preset), !.scope = inheritTaskScope(@, run.scope)]

\* The bug: the preset is inherited behind the checks.
ReplyUnconfirmed(input) ==
  /\ run # None
  /\ validateStartRunInput([Continued(input) EXCEPT !.confirmed = TRUE])
  /\ run' = Admitted(Continued(input)) /\ parent' = run

\* replyRun(): the same checks again.
Reply(input) ==
  /\ run # None
  /\ validateStartRunInput(Continued(input))
  /\ run' = Admitted(Continued(input)) /\ parent' = run

\* The scopes a caller may write down, with any of the fields.
Offered ==
  UNION {{scope \in [given -> UNION {Offers[f] : f \in given}] : \A f \in given : scope[f] \in Offers[f]} :
         given \in SUBSET Fields}

Inputs == [scope : Offered, preset : Presets \cup {None}, confirmed : BOOLEAN]

ScopeNext == \E input \in Inputs : StartRun(input) \/ Reply(input)

ScopeSpec == ScopeInit /\ [][ScopeNext]_scopeVars

-----------------------------------------------------------------------------
Local(path) == ".." \notin {path[i] : i \in DOMAIN path}

\* Whatever was inherited or supplied, an admitted scope stays inside the
\* workspace, nothing to review is in an excluded directory or outside what may
\* be read, and it may be written exactly when the permission allows writing.
ScopeIsSound ==
  run # None /\ Supplied(run.scope) =>
    /\ \A f \in Fields : \A p \in run.scope[f] : Local(p)
    /\ \A target \in run.scope["reviewTargets"] :
         /\ \E n \in 0 .. Len(target) : SubSeq(target, 1, n) \in run.scope["contextReadScope"]
         /\ \A n \in 0 .. Len(target) : SubSeq(target, 1, n) \notin run.scope["excludedPaths"]
    /\ run.preset = "read-only" <=> run.scope["writeScope"] = {}

\* A conversation that was scoped once stays scoped, reply after reply.
RepliesStayScoped ==
  parent # None /\ run # None => (Supplied(parent.scope) => Supplied(run.scope))

\* Full access is confirmed in every request that gets it: a reply inherits
\* the permission of its parent but not the confirmation.
DangerIsConfirmed ==
  run # None /\ run.preset = "danger-full-access" => run.confirmed
=============================================================================
