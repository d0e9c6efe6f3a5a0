---------------------------- MODULE ClientSetup ----------------------------
(***************************************************************************)
(* Plans to configure Relay in the MCP clients of a user: ClientSetup-     *)
(* Facade.plan() with its four adapters and the launcher planner, and an   *)
(* executor that applies the plans that are ready.  A directory is a name; *)
(* what the planner tells apart of a launcher is one of Launchers.         *)
(***************************************************************************)
EXTENDS Integers, FiniteSets

CONSTANTS
  Home,         \* the home directory
  Workspaces,   \* workspaces, Home possibly one of them
  Relative,     \* a directory that is not absolute
  None,         \* no workspaceDirectory
  MaxApplied    \* bound: plans applied

VARIABLES
  config,    \* the entries for Relay in the files of the clients
  applied    \* the requests whose plans were applied

setupVars == <<config, applied>>

Clients   == {"codex", "claude", "cursor", "opencode"}
Scopes    == {"local", "project", "user"}
Launchers == {"good", "nodeNotAbsolute", "notNode", "entryNotAbsolute", "notJavaScript"}
Snapshots == {"none", "readable", "parseError", "notReadable"}

Requests == [client : Clients, scope : Scopes, home : {Home, Relative},
             workspace : Workspaces \cup {Relative, None}, launcher : Launchers,
             snapshot : Snapshots]

-----------------------------------------------------------------------------
\* validateDirectories()
DirectoriesAreValid(r) ==
  r.home # Relative /\ (r.scope # "user" => r.workspace \notin {None, Relative})

\* The bug: the private entry of a project goes where the user's goes.
privateSelectorShared(r) == <<"mcpServers">>

\* The entry of a project that only its user has.
privateSelector(r) == <<"projects", r.workspace, "mcpServers">>

\* The adapters: the scopes a client has, where the entry of a scope goes (the
\* file, as a directory and a name, and the selector in it), and its shape.
codex(r) ==
  [scopes |-> {"user"}, location |-> <<r.home, ".codex/config.toml", <<"mcp_servers">>>>,
   shape |-> "stdio"]

claude(r) ==
  [scopes |-> {"local", "project", "user"},
   location |-> CASE r.scope = "project" -> <<r.workspace, ".mcp.json", <<"mcpServers">>>>
                  [] r.scope = "local"   -> <<r.home, ".claude.json", privateSelector(r)>>
                  [] r.scope = "user"    -> <<r.home, ".claude.json", <<"mcpServers">>>>,
   shape |-> "stdio with type"]

cursor(r) ==
  [scopes |-> {"project", "user"},
   location |-> <<IF r.scope = "project" THEN r.workspace ELSE r.home, ".cursor/mcp.json", <<"mcpServers">>>>,
   shape |-> "stdio"]

opencode(r) ==
  [scopes |-> {"project", "user"},
   location |-> IF r.scope = "project" THEN <<r.workspace, "opencode.json", <<"mcp", "servers">>>>
                ELSE <<r.home, ".config/opencode/opencode.json", <<"mcp", "servers">>>>,
   shape |-> "local command list"]

adapter(r) == CASE r.client = "codex" -> codex(r)   [] r.client = "claude" -> claude(r)
                [] r.client = "cursor" -> cursor(r) [] r.client = "opencode" -> opencode(r)

location(r) == adapter(r).location

\* detect(): a supported scope, valid directories, a file that can be read.
Detected(r) ==
  /\ r.scope \in adapter(r).scopes /\ DirectoriesAreValid(r)
  /\ r.snapshot \in {"none", "readable"}

\* StdioLauncherPlanner.plan()
LauncherIsValid(r) == r.launcher = "good"

\* toSetupRequest() names the principal after the client and the scope.
entry(r) == [value |-> adapter(r).shape, launcher |-> r.launcher, principal |-> <<r.client, r.scope>>]

\* validateValue() of the adapter.
Valid(r, e) == e.value = adapter(r).shape /\ e.launcher = "good"

ready(r) == Detected(r) /\ LauncherIsValid(r) /\ Valid(r, entry(r))

-----------------------------------------------------------------------------
SetupInit == config = {} /\ applied = {}

\* The executor upserts one entry and leaves the others alone.
Apply(r) ==
  /\ Cardinality(applied) < MaxApplied /\ ready(r)
  /\ config' = {c \in config : c.target # location(r)} \cup {[target |-> location(r), entry |-> entry(r)]}
  /\ applied' = applied \cup {r}

SetupNext == \E r \in Requests : Apply(r)

SetupSpec == SetupInit /\ [][SetupNext]_setupVars

-----------------------------------------------------------------------------
\* Each client that was set up finds its own entry with its own principal,
\* whatever was set up after it: plans for other clients, scopes and
\* workspaces go elsewhere.  (A project in the home directory is the exception:
\* its file is the user's.)
EntriesAreKept ==
  (\A r \in applied : r.workspace # Home) =>
    \A r \in applied :
      \E c \in config : c.target = location(r) /\ c.entry.principal = <<r.client, r.scope>>
=============================================================================
