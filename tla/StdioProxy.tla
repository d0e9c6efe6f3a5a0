----------------------------- MODULE StdioProxy -----------------------------
(***************************************************************************)
(* The connection of a client's stdio proxy to the Relay of a Host, over    *)
(* the lives of HostLifecycle: refreshRemote, connectRemote,                *)
(* invalidateRemote, callTool and listTools of StdioProxyFacade, for a      *)
(* proxy that does not start Hosts (Autostart has what one does that does). *)
(***************************************************************************)
EXTENDS HostLifecycle

CONSTANTS
  Proxies,       \* stdio proxies, each the server of one client
  MaxTimeouts    \* bound: tool calls that are not answered in time

VARIABLES
  at,          \* where a tool call awaits
  found,       \* the epoch in the descriptor a proxy connects by
  remote,      \* remote and remoteAuthorityKey: the epoch the proxy connected
               \* by, and the Host that answered
  timeouts

vars == <<hostVars, at, found, remote, timeouts>>

-----------------------------------------------------------------------------
ProxyInit ==
  /\ Init
  /\ at = [p \in Proxies |-> "idle"]
  /\ found = [p \in Proxies |-> 0]
  /\ remote = [p \in Proxies |-> NoRecord]
  /\ timeouts = 0

\* invalidateRemote tells the client that the tools changed, if there was one.
Invalidated(p) == remote' = [remote EXCEPT ![p] = NoRecord]
Goto(p, place) == at' = [at EXCEPT ![p] = place]

\* descriptorKey: the authority and the URL never change, so the epoch is all.
SameKey(p) == remote[p] # NoRecord /\ remote[p].epoch = descriptor.epoch

\* refreshRemote, as a tool call begins with it.
Refresh(p) ==
  /\ at[p] = "idle"
  /\ \/ Passes /\ SameKey(p) /\ Goto(p, "calling") /\ UNCHANGED <<found, remote>>
     \/ /\ Passes /\ ~SameKey(p)
        /\ Goto(p, "connecting")
        /\ found' = [found EXCEPT ![p] = descriptor.epoch]
        /\ Invalidated(p)
     \/ ~Passes /\ Invalidated(p) /\ UNCHANGED <<at, found>>
  /\ UNCHANGED <<hostVars, timeouts>>

Connect(p) ==
  /\ at[p] = "connecting"
  /\ found' = [found EXCEPT ![p] = 0]
  /\ IF Answers
       THEN /\ Goto(p, "calling")
            /\ remote' = [remote EXCEPT ![p] = [host |-> port, epoch |-> found[p]]]
       ELSE Goto(p, "idle") /\ UNCHANGED remote
  /\ UNCHANGED <<hostVars, timeouts>>

\* The route keeps no session of a client: a new Host answers an old connection.
CallTool(p) ==
  /\ at[p] = "calling" /\ Goto(p, "idle")
  /\ IF Answers THEN UNCHANGED remote ELSE Invalidated(p)
  /\ UNCHANGED <<hostVars, found, timeouts>>

\* A call that times out leaves the remote as it is.
CallTimesOut(p) ==
  /\ at[p] = "calling" /\ Goto(p, "idle")
  /\ timeouts < MaxTimeouts /\ timeouts' = timeouts + 1
  /\ UNCHANGED <<hostVars, found, remote>>

\* tools/list asks the remote there is, and looks for none before it answers.
ListTools(p) ==
  /\ at[p] = "idle" /\ remote[p] # NoRecord
  /\ ~Answers /\ Invalidated(p)
  /\ UNCHANGED <<hostVars, at, found, timeouts>>

Next ==
  \/ HostNext /\ UNCHANGED <<at, found, remote, timeouts>>
  \/ \E p \in Proxies :
       Refresh(p) \/ Connect(p) \/ CallTool(p) \/ CallTimesOut(p) \/ ListTools(p)

Spec == ProxyInit /\ [][Next]_vars

-----------------------------------------------------------------------------
\* "The same proxy reconnects after Host recovery and emits
\* tools/list_changed" (README.md:208): a call that keeps its connection keeps
\* one to the Host that the status it has just read names.
ReconnectsAfterRecovery ==
  [][\A p \in Proxies :
       (at[p] = "idle" /\ at'[p] = "calling") => remote[p].host = status.by]_vars
=============================================================================
