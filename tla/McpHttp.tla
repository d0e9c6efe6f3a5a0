------------------------------ MODULE McpHttp ------------------------------
(***************************************************************************)
(* The MCP HTTP endpoint of the embedded Relay: McpHttpFacade with its     *)
(* request policy and its rate limiter, from a request to its response,    *)
(* and the drain that ends them.                                           *)
(***************************************************************************)
EXTENDS Integers, FiniteSets

CONSTANTS
  HttpRequests,   \* requests of one authenticated principal, or of strangers
  Faults,         \* what is wrong with a request, a subset of Checks
  MaxConcurrent,  \* maxConcurrent
  PerMinute,      \* requestsPerMinute, the capacity of the bucket
  Minute,         \* ticks of a minute
  Never,          \* "no time"
  MaxClock        \* bound: ticks

VARIABLES
  clock,
  phase,      \* where a request is
  active,     \* activeResponses
  destroyed,  \* responses that drain() has destroyed
  bucket,     \* the tokens of the principal, in fractions of a Minute, and their time
  granted,    \* when a request was let through by the limiter
  drain       \* drain(): no, waiting or over

httpVars == <<clock, phase, active, destroyed, bucket, granted, drain>>

-----------------------------------------------------------------------------
\* The checks of authorize(), in its order.
Checks == {"method", "loopback", "host", "origin", "contentType", "version", "bearer", "principal"}

authorize(r) == Faults[r] = {}

Full == PerMinute * Minute

Least(a, b) == IF a < b THEN a ELSE b

\* The bug: the bucket has no brim.
ReplenishedUncapped == bucket.tokens + (clock - bucket.at + 1) * PerMinute

\* take(): the tokens there are now.
Replenished == Least(Full, bucket.tokens + (clock - bucket.at) * PerMinute)

Handling == {"body", "serving"}

-----------------------------------------------------------------------------
HttpInit ==
  /\ clock = 0
  /\ phase = [r \in HttpRequests |-> "new"] /\ active = {} /\ destroyed = {}
  /\ bucket = [tokens |-> Full, at |-> 0]
  /\ granted = [r \in HttpRequests |-> Never]
  /\ drain = "no"

Tick == clock < MaxClock /\ clock' = clock + 1
        /\ UNCHANGED <<phase, active, destroyed, bucket, granted, drain>>

\* The bug: the slot is checked, and taken only when the body has arrived.
HandleLateSlot(r) ==
  /\ phase[r] = "new" /\ drain = "no" /\ authorize(r)
  /\ Cardinality(active) < MaxConcurrent
  /\ phase' = [phase EXCEPT ![r] = "body"]
  /\ UNCHANGED <<clock, active, destroyed, bucket, granted, drain>>

\* handle(), up to the first await: nothing else runs between its checks and the slot.
Handle(r) ==
  /\ phase[r] = "new"
  /\ IF drain # "no" \/ ~authorize(r) \/ Cardinality(active) >= MaxConcurrent
     THEN phase' = [phase EXCEPT ![r] = "refused"] /\ UNCHANGED <<active, bucket, granted>>
     ELSE IF Replenished < Minute
     THEN /\ phase' = [phase EXCEPT ![r] = "refused"]
          /\ bucket' = [tokens |-> Replenished, at |-> clock]
          /\ UNCHANGED <<active, granted>>
     ELSE /\ bucket' = [tokens |-> Replenished - Minute, at |-> clock]
          /\ granted' = [granted EXCEPT ![r] = clock]
          /\ phase' = [phase EXCEPT ![r] = "body"]
          /\ active' = active \cup {r}
  /\ UNCHANGED <<clock, destroyed, drain>>

\* readJsonBody() returns, and the server takes the request; or it throws.
Body(r) ==
  /\ phase[r] = "body"
  /\ \/ phase' = [phase EXCEPT ![r] = "serving"] /\ UNCHANGED active
     \/ phase' = [phase EXCEPT ![r] = "failed"] /\ active' = active \ {r}
  /\ UNCHANGED <<clock, destroyed, bucket, granted, drain>>

\* The bug: the slot of a request that throws is kept.
ServeKeepsSlot(r) ==
  /\ phase[r] = "serving"
  /\ \/ phase' = [phase EXCEPT ![r] = "answered"] /\ active' = active \ {r}
     \/ phase' = [phase EXCEPT ![r] = "failed"] /\ UNCHANGED active
  /\ UNCHANGED <<clock, destroyed, bucket, granted, drain>>

\* handleRequest() returns or throws; the server is closed and the slot is free.
Serve(r) ==
  /\ phase[r] = "serving"
  /\ phase' \in {[phase EXCEPT ![r] = p] : p \in {"answered", "failed"}}
  /\ active' = active \ {r}
  /\ UNCHANGED <<clock, destroyed, bucket, granted, drain>>

Drain == drain = "no" /\ drain' = "waiting"
         /\ UNCHANGED <<clock, phase, active, destroyed, bucket, granted>>

\* drain() returns: nothing is active, or its deadline has passed.
Drained ==
  /\ drain = "waiting" /\ drain' = "over"
  /\ destroyed' = destroyed \cup active /\ active' = {}
  /\ UNCHANGED <<clock, phase, bucket, granted>>

HttpNext == Tick \/ Drain \/ Drained \/ \E r \in HttpRequests : Handle(r) \/ Body(r) \/ Serve(r)

HttpSpec == HttpInit /\ [][HttpNext]_httpVars

-----------------------------------------------------------------------------
\* A slot is held from the checks to the end of the handler, however it ends,
\* and never past it: no leak, and no more handlers at once than there are slots,
\* but those whose response drain() destroyed.
SlotsMatchHandlers ==
  /\ active = {r \in HttpRequests : phase[r] \in Handling} \ destroyed
  /\ Cardinality(active) <= MaxConcurrent

\* A handler that outlives drain() has lost its response: none slips in between
\* the draining check and the slot, and its client is not told of success.
DrainIsComplete ==
  drain = "over" => \A r \in HttpRequests : phase[r] \in Handling => r \in destroyed

\* A principal starts at most a bucket of requests and what flows in within a minute.
RateIsBounded ==
  \A t \in 0 .. clock :
    Cardinality({r \in HttpRequests : granted[r] # Never /\ granted[r] \in t .. t + Minute - 1}) <= 2 * PerMinute
=============================================================================
