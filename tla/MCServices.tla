----------------------------- MODULE MCServices -----------------------------
(* Instances of Services for TLC: few of each thing, and what they are.     *)
EXTENDS Services, TLC

CONSTANTS
  approval1, question1,                    \* requests of an Agent
  principal1, principal2, run1, run2,      \* who may answer them
  http1, http2, http3, stranger,           \* HTTP requests
  select1, select2, modelA, modelB,        \* model selections
  start1, start2, start3, relay1, relay2,  \* starts of runs
  session1, session2, session3

RequestKinds == approval1 :> "approval" @@ question1 :> "question"
PrincipalOf  == run1 :> principal1 @@ run2 :> principal2
HttpFaults   == http1 :> {} @@ http2 :> {} @@ http3 :> {} @@ stranger :> {"bearer"}
ModelChoice  == select1 :> modelA @@ select2 :> modelB
RelayOf      == start1 :> relay1 @@ start2 :> relay1 @@ start3 :> relay2
SessionAsked == start1 :> session1 @@ start2 :> "latest-idle" @@ start3 :> session1
SessionKinds == session1 :> "open" @@ session2 :> "archived" @@ session3 :> "new"

PathsOffered ==
  "reviewTargets" :> {{<<"d", "f">>}}
    @@ "contextReadScope" :> {{<<>>}, {<<"..", "w", "d">>}}
    @@ "excludedPaths" :> {{<<"d">>}, {<<"..", "x">>}}
    @@ "writeScope" :> {{}, {<<"d">>}}

Here == <<"w">>
=============================================================================
