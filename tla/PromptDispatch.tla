--------------------------- MODULE PromptDispatch ---------------------------
(***************************************************************************)
(* One prompt or cancel through each of the three gateways to the Host:    *)
(* when its rpcId is recorded, when the Host sees it, and whether the      *)
(* error that comes back is taken for a definitive rejection.              *)
(***************************************************************************)
EXTENDS Integers

CONSTANTS
  Adapters,   \* http, inProcess and typert
  Attempts    \* calls, each through one adapter

VARIABLES
  adapter,   \* the gateway of a call
  progress,  \* where a call is
  recorded,  \* calls whose rpcId beforeDispatch has persisted
  host,      \* what the Host did: nothing, accepted or rejected
  reply,     \* what the call gets back
  verdict    \* what it tells its caller: accepted, rejected or uncertain

dispatchVars == <<adapter, progress, recorded, host, reply, verdict>>

-----------------------------------------------------------------------------
\* The answers of a Host, its errors by their codes, and the ways there is none.
\* status: an HTTP status that is not transient, garbled: not the answer to this call.
Replies == {"ok", "business", "transient", "status", "busyStatus", "garbled", "timeout", "thrown", "unobserved"}

\* What the Host may reply, if it has accepted the call or not.  An exception
\* without a code leaves a Typert Host only before it has accepted.
Possible(c) ==
  LET lost == IF host[c] = "accepted" THEN {"ok", "transient"} ELSE {"business", "transient"}
  IN  lost \cup CASE adapter[c] = "http" -> {"busyStatus", "garbled", "timeout"} \cup
                                            (IF host[c] = "accepted" THEN {} ELSE {"status"})
                  [] adapter[c] = "inProcess" -> {"timeout", "thrown"}
                  [] adapter[c] = "typert" -> IF host[c] = "accepted" THEN {} ELSE {"thrown"}

isTransientHostCode(code) == code = "transient"

\* The bug: every status that is not a success is a rejection.
httpVerdictByStatus(r) ==
  CASE r = "ok" -> "accepted"
    [] r \in {"status", "busyStatus", "business"} -> "rejected"
    [] r \in {"transient", "garbled", "timeout"} -> "uncertain"

\* HttpHostClient.call(): statuses 408, 429 and 5xx, and codes that are transient.
httpVerdict(r) ==
  CASE r = "ok" -> "accepted"
    [] r = "status" -> "rejected"
    [] r \in {"business", "transient"} -> IF isTransientHostCode(r) THEN "uncertain" ELSE "rejected"
    [] r \in {"busyStatus", "garbled", "timeout"} -> "uncertain"

\* What the client throws is transport.
inProcessTransportError(r) == "uncertain"

\* invokeResponse() of the in-process gateway.
inProcessVerdict(r) ==
  CASE r = "ok" -> "accepted"
    [] r \in {"business", "transient"} -> IF isTransientHostCode(r) THEN "uncertain" ELSE "rejected"
    [] r \in {"timeout", "thrown", "unobserved"} -> inProcessTransportError(r)

\* What has no code is HOST_TYPERT_GATEWAY, a rejection.
typertGatewayError(r) == IF isTransientHostCode(r) THEN "uncertain" ELSE "rejected"

\* invoke() of the Typert gateway.
typertVerdict(r) == IF r = "ok" THEN "accepted" ELSE typertGatewayError(r)

Verdict(a, r) ==
  CASE a = "http" -> httpVerdict(r) [] a = "inProcess" -> inProcessVerdict(r)
    [] a = "typert" -> typertVerdict(r)

-----------------------------------------------------------------------------
DispatchInit ==
  /\ adapter \in [Attempts -> Adapters]
  /\ progress = [c \in Attempts |-> "start"] /\ recorded = {}
  /\ host = [c \in Attempts |-> "nothing"]
  /\ reply = [c \in Attempts |-> "ok"] /\ verdict = [c \in Attempts |-> "none"]

Goes(c, from, to) == progress[c] = from /\ progress' = [progress EXCEPT ![c] = to]

\* The bug: a failure to record is ignored.
NotRecorded(c) == /\ adapter[c] = "inProcess" /\ Goes(c, "start", "recorded")
                  /\ UNCHANGED <<adapter, recorded, host, reply, verdict>>

\* beforeDispatch persists the rpcId the official client has minted, ...
RecordMinted(c) ==
  /\ adapter[c] = "inProcess" /\ Goes(c, "start", "recorded") /\ recorded' = recorded \cup {c}
  /\ UNCHANGED <<adapter, host, reply, verdict>>

\* ... or the one that Relay has chosen.
RecordChosen(c) ==
  /\ adapter[c] # "inProcess" /\ Goes(c, "start", "recorded") /\ recorded' = recorded \cup {c}
  /\ UNCHANGED <<adapter, host, reply, verdict>>

\* It fails, or the client emits another request: nothing is sent.
NotDispatched(c) ==
  /\ progress[c] = "start" /\ progress' = [progress EXCEPT ![c] = "done"]
  /\ verdict' = [verdict EXCEPT ![c] = "uncertain"]
  /\ UNCHANGED <<adapter, recorded, host, reply>>

HostSees(c) ==
  /\ Goes(c, "recorded", "sent")
  /\ host' \in {[host EXCEPT ![c] = h] : h \in {"nothing", "accepted", "rejected"}}
  /\ UNCHANGED <<adapter, recorded, reply, verdict>>

\* submitPrompt() and cancelSession() return or throw.
Returns(c) ==
  /\ Goes(c, "sent", "done")
  /\ \E r \in Possible(c) : /\ reply' = [reply EXCEPT ![c] = r]
                            /\ verdict' = [verdict EXCEPT ![c] = Verdict(adapter[c], r)]
  /\ UNCHANGED <<adapter, recorded, host>>

\* The in-process carrier was bypassed: the answer comes, and nothing was recorded.
Bypassed(c) ==
  /\ adapter[c] = "inProcess" /\ progress[c] = "start"
  /\ progress' = [progress EXCEPT ![c] = "done"]
  /\ host' = [host EXCEPT ![c] = "accepted"]
  /\ reply' = [reply EXCEPT ![c] = "unobserved"]
  /\ verdict' = [verdict EXCEPT ![c] = inProcessVerdict("unobserved")]
  /\ UNCHANGED <<adapter, recorded>>

DispatchNext == \E c \in Attempts :
  RecordMinted(c) \/ RecordChosen(c) \/ NotDispatched(c) \/ HostSees(c) \/ Returns(c) \/ Bypassed(c)

DispatchSpec == DispatchInit /\ [][DispatchNext]_dispatchVars

-----------------------------------------------------------------------------
\* The caller lets go of a prompt only if the Host does not have it: what the
\* Host accepted is never reported as rejected, through any gateway, so that it
\* is reconciled and not sent again.
RejectionIsDefinitive ==
  \A c \in Attempts : verdict[c] = "rejected" => host[c] # "accepted"

\* What the Host accepted can be found by its rpcId, which was recorded before
\* the Host saw it, unless the carrier was bypassed; that is told as uncertain.
AcceptedIsRecorded ==
  \A c \in Attempts : host[c] = "accepted" =>
    c \in recorded \/ (reply[c] = "unobserved" /\ verdict[c] = "uncertain")
=============================================================================
