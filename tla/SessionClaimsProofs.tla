------------------------ MODULE SessionClaimsProofs ------------------------
(***************************************************************************)
(* Proofs about SessionClaims, for any number of calls, Relays, sessions,  *)
(* services and failed requests.                                           *)
(***************************************************************************)
EXTENDS SessionClaims, TLAPS

ConstantsOK ==
  /\ None \notin Starts /\ None \notin Sessions
  /\ On \in [Starts -> Relays]

Before == {"called", "resolve"}
Places == Before \cup Claimed \cup {"claim", "failed", "running", "done"}

Types ==
  /\ serviceOf \in [Relays -> Nat] /\ opened \in [Relays -> Nat]
  /\ starting \in [Relays -> SUBSET Sessions]
  /\ lease \in [Sessions -> Starts \cup {None}]
  /\ at \in [Starts -> Places]
  /\ picked \in [Starts -> [service : Nat, session : Sessions \cup {None}, reused : BOOLEAN]]
  /\ created \subseteq Sessions
  /\ turn \in [Sessions -> SUBSET Starts]
  /\ late \in [Starts -> {"no", "waiting", "over"}]

\* A call has chosen a session when it has passed resolve(), and only then works
\* in one.
Chosen ==
  \A c \in Starts :
    /\ at[c] \in Claimed \cup {"claim", "running", "done"} => picked[c].session \in Sessions
    /\ at[c] \notin {"leave", "running", "done"} => late[c] = "no"

TurnsAreOfRuns ==
  \A s \in Sessions : \A c \in turn[s] : at[c] \in {"leave", "running", "done"} /\ picked[c].session = s

\* The starts under way in a Relay are in different sessions, and a start has no
\* key in common with a run.
Apart ==
  \A c, d \in Starts :
    c # d /\ On[c] = On[d] /\ picked[c].session = picked[d].session =>
      /\ ~(at[c] \in Claimed /\ at[d] \in Claimed)
      /\ ~(at[c] \in Claimed \cup {"running"} /\ at[d] \in Claimed \cup {"running"}
           /\ picked[c].service = picked[d].service)

Exempt(e) == ~picked[e].reused \/ late[e] # "no"

\* Under its lease a call has seen the session idle: what came since is exempt.
Alone ==
  \A c \in Starts :
    at[c] = "prompt" /\ picked[c].reused => \A d \in turn[picked[c].session] : Exempt(d)

ClaimInv ==
  /\ Types /\ Chosen /\ TurnsAreOfRuns /\ Apart
  /\ ClaimsAreReturned /\ KeysAreOfLiveRuns
  /\ Alone /\ OneRunPerSession

LEMMA ClaimInitially == ASSUME ConstantsOK, ClaimInit PROVE ClaimInv
BY DEF ConstantsOK, ClaimInit, ClaimInv, Types, Before, Claimed, Places, Chosen, TurnsAreOfRuns, Apart,
   ClaimsAreReturned, KeysAreOfLiveRuns, Alone, OneRunPerSession

\* What start_run notes of a call keeps its shape, field by field.
LEMMA NotesService ==
  ASSUME NEW S, NEW c \in Starts, NEW n \in Nat,
         NEW P \in [Starts -> [service : Nat, session : S, reused : BOOLEAN]]
  PROVE  [P EXCEPT ![c].service = n] \in [Starts -> [service : Nat, session : S, reused : BOOLEAN]]
OBVIOUS

LEMMA TypesInductive ==
  ASSUME ConstantsOK, Types, Chosen, [ClaimNext]_claimVars
  PROVE  Types'
<1> USE DEF ConstantsOK, Types, Before, Claimed, Places, To, relayVars
<1>1. ASSUME NEW c \in Starts, StartService(c) PROVE Types'
  <2>1. On[c] \in Relays /\ at' \in [Starts -> Places]
      BY <1>1 DEF StartService
  <2>2. CASE serviceOf[On[c]] # 0
    <3>1. UNCHANGED <<opened, serviceOf, starting, lease, created, turn, late>>
        BY <1>1, <2>2 DEF StartService
    <3>2. picked' = [picked EXCEPT ![c].service = serviceOf[On[c]]] /\ serviceOf[On[c]] \in Nat
        BY <1>1, <2>1, <3>1 DEF StartService
    <3>3. picked' \in [Starts -> [service : Nat, session : Sessions \cup {None}, reused : BOOLEAN]]
        BY <3>2, NotesService
    <3> QED BY <2>1, <3>1, <3>3
  <2>3. CASE serviceOf[On[c]] = 0
    <3>1. opened[On[c]] + 1 \in Nat
        BY <2>1
    <3>2. /\ opened' = [opened EXCEPT ![On[c]] = opened[On[c]] + 1]
          /\ serviceOf' = [serviceOf EXCEPT ![On[c]] = opened[On[c]] + 1]
        BY <1>1, <2>1, <2>3 DEF StartService
    <3>3. picked' = [picked EXCEPT ![c].service = opened[On[c]] + 1]
        BY <1>1, <2>1, <3>2 DEF StartService
    <3>4. picked' \in [Starts -> [service : Nat, session : Sessions \cup {None}, reused : BOOLEAN]]
        BY <3>1, <3>3, NotesService
    <3>5. opened' \in [Relays -> Nat] /\ serviceOf' \in [Relays -> Nat]
        BY <3>1, <3>2
    <3>6. UNCHANGED <<starting, lease, created, turn, late>>
        BY <1>1 DEF StartService
    <3> QED BY <2>1, <3>4, <3>5, <3>6
  <2> QED BY <2>2, <2>3
<1>2. ASSUME NEW c \in Starts, StartServiceFails(c) PROVE Types'
    BY <1>2 DEF StartServiceFails
<1>3. ASSUME NEW c \in Starts, Resolve(c) PROVE Types'
  <2>0. UNCHANGED <<relayVars, turn, late>>
      BY <1>3 DEF Resolve
  <2>1. CASE UNCHANGED <<picked, created>> /\ To(c, "failed")
    <3>1. at' \in [Starts -> Places]
        BY <2>1
    <3> QED BY <2>0, <2>1, <3>1
  <2>2. ASSUME NEW s \in Sessions, NEW b \in BOOLEAN, Pick(c, s, b), created' \subseteq Sessions
        PROVE  Types'
    <3>1. picked' \in [Starts -> [service : Nat, session : Sessions \cup {None}, reused : BOOLEAN]]
      <4> DEFINE Named == [picked EXCEPT ![c].session = s]
      <4>1. Named \in [Starts -> [service : Nat, session : Sessions \cup {None}, reused : BOOLEAN]]
          OBVIOUS
      <4>2. picked' = [Named EXCEPT ![c].reused = b]
          BY <2>2, Zenon DEF Pick
      <4> HIDE DEF Named
      <4> QED BY <4>1, <4>2
    <3>2. at' \in [Starts -> Places]
        BY <2>2 DEF Pick
    <3> QED BY <2>0, <2>2, <3>1, <3>2
  <2>3. CASE Asks[c] \in Sessions /\ Reusable(Asks[c]) /\ Pick(c, Asks[c], TRUE) /\ UNCHANGED created
      BY <2>2, <2>3
  <2>4. CASE UNCHANGED created /\ \E s \in Idle : Pick(c, s, TRUE)
      BY <2>2, <2>4 DEF Idle
  <2>5. CASE \E s \in Sessions \ created : Pick(c, s, FALSE) /\ created' = created \cup {s}
      BY <2>2, <2>5
  <2> QED BY <1>3, <2>1, <2>3, <2>4, <2>5 DEF Resolve
<1>4. ASSUME NEW c \in Starts, Claim(c) PROVE Types'
  <2>1. On[c] \in Relays /\ picked[c].session \in Sessions
      BY <1>4 DEF Claim, Chosen
  <2>2. starting' \in [Relays -> SUBSET Sessions]
      BY <1>4, <2>1 DEF Claim
  <2>3. at' \in [Starts -> Places]
    <3>1. \E w \in {"failed", "lease"} : at' = [at EXCEPT ![c] = w]
        BY <1>4 DEF Claim
    <3> QED BY <3>1
  <2> QED BY <1>4, <2>2, <2>3 DEF Claim
<1>5. ASSUME NEW c \in Starts, TakeLease(c) PROVE Types'
  <2>1. On[c] \in Relays /\ picked[c].session \in Sessions
      BY <1>5 DEF TakeLease, Chosen
  <2>2. starting' \in [Relays -> SUBSET Sessions]
      BY <1>5, <2>1 DEF TakeLease
  <2>3. at' \in [Starts -> Places]
    <3>1. \E w \in {"failed", "idle", "prompt"} : at' = [at EXCEPT ![c] = w]
        BY <1>5 DEF TakeLease
    <3> QED BY <3>1
  <2>4. lease' = lease \/ lease' = [lease EXCEPT ![picked[c].session] = c]
      BY <1>5 DEF TakeLease
  <2>5. lease' \in [Sessions -> Starts \cup {None}]
      BY <2>4
  <2> QED BY <1>5, <2>2, <2>3, <2>5 DEF TakeLease
<1>6. ASSUME NEW c \in Starts, AssertIdle(c) \/ SetUpFails(c) PROVE Types'
    BY <1>6 DEF AssertIdle, SetUpFails
<1>7. ASSUME NEW c \in Starts, Prompt(c) \/ LatePrompt(c) PROVE Types'
  <2>1. at' \in [Starts -> Places] /\ late' \in [Starts -> {"no", "waiting", "over"}]
    <3>1. CASE Prompt(c)
      <4>1. at' = [at EXCEPT ![c] = "leave"] \/ at' = [at EXCEPT ![c] = "abort"]
          BY <3>1 DEF Prompt
      <4>2. late' = late \/ late' = [late EXCEPT ![c] = "waiting"]
          BY <3>1 DEF Prompt
      <4>3. at' \in [Starts -> Places]
          BY <4>1
      <4>4. late' \in [Starts -> {"no", "waiting", "over"}]
          BY <4>2
      <4> QED BY <4>3, <4>4
    <3>2. CASE LatePrompt(c)
        BY <3>2 DEF LatePrompt
    <3> QED BY <1>7, <3>1, <3>2
  <2>2. turn' = turn \/ HostTakes(c)
      BY <1>7 DEF Prompt, LatePrompt
  <2>3. turn' \in [Sessions -> SUBSET Starts]
      BY <2>2 DEF HostTakes
  <2> QED BY <1>7, <2>1, <2>3 DEF Prompt, LatePrompt
<1>8. ASSUME NEW c \in Starts, Release(c) PROVE Types'
  <2>1. starting' \in [Relays -> SUBSET Sessions] /\ lease' \in [Sessions -> Starts \cup {None}]
      BY <1>8 DEF Release
  <2> QED BY <1>8, <2>1 DEF Release
<1>11. ASSUME NEW c \in Starts, TurnEnds(c) PROVE Types'
    BY <1>11 DEF TurnEnds
<1>12. ASSUME NEW c \in Starts, Finalize(c) PROVE Types'
    BY <1>12 DEF Finalize
<1>9. ASSUME NEW r \in Relays, StopService(r) PROVE Types'
    BY <1>9 DEF StopService
<1>10. CASE UNCHANGED claimVars
    BY <1>10 DEF claimVars
<1> QED
    BY <1>1, <1>2, <1>3, <1>4, <1>5, <1>6, <1>7, <1>8, <1>9, <1>10, <1>11, <1>12 DEF ClaimNext

\* resolve() changes where its call is, and what it has picked.
LEMMA Resolved ==
  ASSUME ConstantsOK, Types, NEW c \in Starts, Resolve(c)
  PROVE  /\ at[c] = "resolve" /\ at'[c] \in {"claim", "failed"}
         /\ at'[c] = "claim" => picked'[c].session \in Sessions
         /\ \A d \in Starts : d # c => at'[d] = at[d] /\ picked'[d] = picked[d]
         /\ UNCHANGED <<relayVars, turn, late>>
<1> USE DEF ConstantsOK, Types, Before, Claimed, Places, To
<1>1. at[c] = "resolve" /\ UNCHANGED <<relayVars, turn, late>>
    BY DEF Resolve
<1>2. CASE UNCHANGED picked /\ To(c, "failed")
    BY <1>1, <1>2
<1>3. ASSUME NEW s \in Sessions, NEW b \in BOOLEAN, Pick(c, s, b)
      PROVE  /\ at'[c] = "claim" /\ picked'[c].session \in Sessions
             /\ \A d \in Starts : d # c => at'[d] = at[d] /\ picked'[d] = picked[d]
    BY <1>3 DEF Pick
<1>4. CASE Asks[c] \in Sessions /\ Pick(c, Asks[c], TRUE)
    BY <1>1, <1>3, <1>4
<1>5. CASE \E s \in Idle : Pick(c, s, TRUE)
    BY <1>1, <1>3, <1>5 DEF Idle
<1>6. CASE \E s \in Sessions \ created : Pick(c, s, FALSE)
    BY <1>1, <1>3, <1>6
<1> QED BY <1>2, <1>4, <1>5, <1>6 DEF Resolve

-----------------------------------------------------------------------------
\* What a call holds of its session depends on where it is, and on no one else.
Working  == Claimed \cup {"running"}
Leasing  == Claimed \ {"lease"}
Keyed    == Leasing \cup {"running"}

ClaimsHold == Apart /\ ClaimsAreReturned /\ KeysAreOfLiveRuns

LEMMA Quiet ==
  ASSUME ClaimsHold, UNCHANGED <<starting, keys, lease>>,
         \A d \in Starts :
           /\ at'[d] \in Claimed <=> at[d] \in Claimed
           /\ at'[d] \in Leasing <=> at[d] \in Leasing
           /\ at'[d] \in Keyed <=> at[d] \in Keyed
           /\ at[d] \in Working => picked'[d] = picked[d]
  PROVE  ClaimsHold'
<1> USE DEF ClaimsHold, Working, Leasing, Keyed, Claimed
<1>1. Apart'
    BY DEF Apart
<1>2. \A r \in Relays : starting'[r] = {picked'[c].session : c \in {d \in Starts : On[d] = r /\ at'[d] \in Claimed}}
    BY DEF ClaimsAreReturned
<1>3. \A s \in Sessions, c \in Starts :
        lease'[s] = c <=> picked'[c].reused /\ picked'[c].session = s /\ at'[c] \in Claimed \ {"lease"}
    BY DEF ClaimsAreReturned
<1>4. ClaimsAreReturned'
    BY <1>2, <1>3 DEF ClaimsAreReturned
<1>5. KeysAreOfLiveRuns'
    BY DEF KeysAreOfLiveRuns, Key
<1> QED BY <1>1, <1>4, <1>5

LEMMA ClaimHolds ==
  ASSUME ConstantsOK, Types, Chosen, ClaimsHold, NEW c \in Starts, Claim(c)
  PROVE  ClaimsHold'
<1> USE DEF ConstantsOK, Types, Claimed, Before, Places, To
<1> DEFINE s == picked[c].session
           r == On[c]
<1>1. /\ at[c] = "claim" /\ UNCHANGED <<keys, lease, picked>>
      /\ r \in Relays /\ s \in Sessions
    BY DEF Claim, Chosen
<1>2. CASE at' = [at EXCEPT ![c] = "failed"] /\ starting' = starting
    BY <1>1, <1>2, Quiet DEF Working, Leasing, Keyed
<1>3. CASE /\ at' = [at EXCEPT ![c] = "lease"] /\ starting' = [starting EXCEPT ![r] = @ \cup {s}]
           /\ s \notin starting[r] /\ ~ \E k \in keys : k.key = Key(c)
  <2>1. \A d \in Starts : at'[d] = IF d = c THEN "lease" ELSE at[d]
      BY <1>3
  <2>2. \A d \in Starts : d # c /\ On[d] = r /\ picked[d].session = s => at[d] \notin Claimed
      BY <1>3 DEF ClaimsHold, ClaimsAreReturned
  <2>3. \A d \in Starts : at[d] = "running" => [key |-> Key(d), run |-> d] \in keys
      BY DEF ClaimsHold, KeysAreOfLiveRuns
  <2>4. \A d \in Starts : at[d] = "running" => Key(d) # Key(c)
    <3>1. ASSUME NEW d \in Starts, at[d] = "running", Key(d) = Key(c) PROVE FALSE
      <4>1. [key |-> Key(d), run |-> d].key = Key(c)
          BY <3>1
      <4> QED BY <1>3, <2>3, <3>1, <4>1
    <3> QED BY <3>1
  <2>5. Apart'
    <3>1. ASSUME NEW d \in Starts, d # c, On[d] = r, picked[d].session = s
          PROVE  /\ at'[d] \notin Claimed
                 /\ at'[d] = "running" => picked[d].service # picked[c].service
      <4>1. at[d] = "running" => Key(d) # Key(c)
          BY <2>4
      <4>2. at'[d] = at[d] /\ at[d] \notin Claimed
          BY <2>1, <2>2, <3>1
      <4> QED BY <3>1, <4>1, <4>2 DEF Key
    <3>2. ASSUME NEW d \in Starts, NEW e \in Starts, d # e, On[d] = On[e],
                 picked[d].session = picked[e].session
          PROVE  /\ ~(at'[d] \in Claimed /\ at'[e] \in Claimed)
                 /\ ~(at'[d] \in Claimed \cup {"running"} /\ at'[e] \in Claimed \cup {"running"}
                      /\ picked[d].service = picked[e].service)
      <4>1. CASE d = c
          BY <3>1, <3>2, <4>1
      <4>2. CASE e = c
          BY <3>1, <3>2, <4>2
      <4>3. CASE d # c /\ e # c
          BY <2>1, <3>2, <4>3 DEF ClaimsHold, Apart
      <4> QED BY <4>1, <4>2, <4>3
    <3> QED BY <1>1, <3>2 DEF Apart
  <2>6. ASSUME NEW q \in Relays
        PROVE  starting'[q] = {picked'[e].session : e \in {d \in Starts : On[d] = q /\ at'[d] \in Claimed}}
    <3>1. starting[q] = {picked[e].session : e \in {d \in Starts : On[d] = q /\ at[d] \in Claimed}}
        BY DEF ClaimsHold, ClaimsAreReturned
    <3>2. starting'[q] = IF q = r THEN starting[q] \cup {s} ELSE starting[q]
        BY <1>1, <1>3
    <3> QED BY <1>1, <2>1, <3>1, <3>2
  <2>7. ClaimsAreReturned'
      BY <1>1, <2>1, <2>6 DEF ClaimsHold, ClaimsAreReturned
  <2>8. KeysAreOfLiveRuns'
      BY <1>1, <2>1 DEF ClaimsHold, KeysAreOfLiveRuns, Key
  <2> QED BY <2>5, <2>7, <2>8 DEF ClaimsHold
<1> QED BY <1>2, <1>3 DEF Claim

\* A call that stops working gives its claim, its lease and its key back, and
\* nobody else's.
LEMMA GivesBack ==
  ASSUME ConstantsOK, Types, Chosen, ClaimsHold, NEW c \in Starts, UNCHANGED picked,
         at[c] \in Claimed,
         NEW where \in {"failed", "running"}, at' = [at EXCEPT ![c] = where],
         starting' = [starting EXCEPT ![On[c]] = @ \ {picked[c].session}]
  PROVE  /\ Apart'
         /\ \A q \in Relays :
              starting'[q] = {picked'[e].session : e \in {d \in Starts : On[d] = q /\ at'[d] \in Claimed}}
<1> USE DEF ConstantsOK, Types, Claimed, Before, Places
<1>1. \A d \in Starts : at'[d] = IF d = c THEN where ELSE at[d]
    OBVIOUS
<1>2. \A d \in Starts : d # c /\ On[d] = On[c] /\ at[d] \in Claimed => picked[d].session # picked[c].session
    BY DEF ClaimsHold, Apart
<1>3. Apart'
    BY <1>1 DEF ClaimsHold, Apart
<1>4. ASSUME NEW q \in Relays
      PROVE  starting'[q] = {picked'[e].session : e \in {d \in Starts : On[d] = q /\ at'[d] \in Claimed}}
  <2>1. starting[q] = {picked[e].session : e \in {d \in Starts : On[d] = q /\ at[d] \in Claimed}}
      BY DEF ClaimsHold, ClaimsAreReturned
  <2>2. starting'[q] = IF q = On[c] THEN starting[q] \ {picked[c].session} ELSE starting[q]
      OBVIOUS
  <2> QED BY <1>1, <1>2, <2>1, <2>2
<1> QED BY <1>3, <1>4
LEMMA TakeLeaseHolds ==
  ASSUME ConstantsOK, Types, Chosen, ClaimsHold, NEW c \in Starts, TakeLease(c)
  PROVE  ClaimsHold'
<1> USE DEF ConstantsOK, Types, Claimed, Before, Places, To
<1> DEFINE s == picked[c].session
           r == On[c]
<1>1. /\ at[c] = "lease" /\ UNCHANGED picked /\ r \in Relays /\ s \in Sessions
      /\ \A q \in Sessions : lease[q] # c
  <2>1. at[c] = "lease" /\ UNCHANGED picked /\ r \in Relays /\ s \in Sessions
      BY DEF TakeLease, Chosen
  <2> QED BY <2>1 DEF ClaimsHold, ClaimsAreReturned
<1>2. CASE /\ at' = [at EXCEPT ![c] = "failed"] /\ UNCHANGED <<keys, lease>>
           /\ starting' = [starting EXCEPT ![r] = @ \ {s}]
  <2>1. \A d \in Starts : at'[d] = IF d = c THEN "failed" ELSE at[d]
      BY <1>2
  <2>2. Apart' /\ \A q \in Relays :
          starting'[q] = {picked'[e].session : e \in {d \in Starts : On[d] = q /\ at'[d] \in Claimed}}
      BY <1>1, <1>2, GivesBack
  <2>3. \A d \in Starts : at'[d] \in Claimed \ {"lease"} <=> at[d] \in Claimed \ {"lease"}
      BY <1>1, <2>1
  <2>6. \A q \in Sessions, d \in Starts :
          lease'[q] = d <=> picked'[d].reused /\ picked'[d].session = q /\ at'[d] \in Claimed \ {"lease"}
      BY <1>1, <1>2, <2>3 DEF ClaimsHold, ClaimsAreReturned
  <2>5. ClaimsAreReturned'
      BY <2>2, <2>6 DEF ClaimsAreReturned
  <2>4. KeysAreOfLiveRuns'
      BY <1>1, <1>2, <2>1 DEF ClaimsHold, KeysAreOfLiveRuns, Key
  <2> QED BY <2>2, <2>4, <2>5 DEF ClaimsHold
<1>3. CASE /\ at' \in {[at EXCEPT ![c] = "idle"], [at EXCEPT ![c] = "prompt"]}
           /\ starting' = starting /\ Activate(c)
           /\ lease' = IF picked[c].reused THEN [lease EXCEPT ![s] = c] ELSE lease
           /\ picked[c].reused => lease[s] = None
  <2>1. \A d \in Starts : IF d = c THEN at'[d] \in {"idle", "prompt"} ELSE at'[d] = at[d]
      BY <1>3
  <2>2. Apart'
      BY <1>1, <2>1 DEF ClaimsHold, Apart
  <2>3. \A q \in Relays :
          starting'[q] = {picked'[e].session : e \in {d \in Starts : On[d] = q /\ at'[d] \in Claimed}}
      BY <1>1, <1>3, <2>1 DEF ClaimsHold, ClaimsAreReturned
  <2>4. ASSUME NEW q \in Sessions, NEW d \in Starts
        PROVE  lease'[q] = d <=> picked'[d].reused /\ picked'[d].session = q /\ at'[d] \in Claimed \ {"lease"}
    <3>1. lease[q] = d <=> picked[d].reused /\ picked[d].session = q /\ at[d] \in Claimed \ {"lease"}
        BY DEF ClaimsHold, ClaimsAreReturned
    <3>2. lease'[q] = IF picked[c].reused /\ q = s THEN c ELSE lease[q]
        BY <1>1, <1>3
    <3>3. CASE d = c
        BY <1>1, <2>1, <3>1, <3>2, <3>3
    <3>4. CASE d # c
      <4>1. ~(picked[c].reused /\ q = s /\ lease[q] = d)
          BY <1>3
      <4> QED BY <1>1, <2>1, <3>1, <3>2, <3>4, <4>1
    <3> QED BY <3>3, <3>4
  <2>5. KeysAreOfLiveRuns'
    <3>1. keys' = keys \cup {[key |-> Key(c), run |-> c]} /\ \A d \in Starts : Key(d)' = Key(d)
        BY <1>1, <1>3 DEF Activate, Key
    <3>2. {d \in Starts : at'[d] \in (Claimed \ {"lease"}) \cup {"running"}}
            = {d \in Starts : at[d] \in (Claimed \ {"lease"}) \cup {"running"}} \cup {c}
        BY <2>1
    <3> QED BY <3>1, <3>2 DEF ClaimsHold, KeysAreOfLiveRuns
  <2> QED BY <2>2, <2>3, <2>4, <2>5 DEF ClaimsHold, ClaimsAreReturned
<1> QED BY <1>2, <1>3 DEF TakeLease

\* The key that is dropped is the key of one run.
LEMMA OwnKey ==
  ASSUME ConstantsOK, Types, Chosen, ClaimsHold, NEW c \in Starts, UNCHANGED picked,
         at[c] \in {"abort", "running"}, keys' = Unkey(c),
         NEW where \in {"failed", "done"}, at' = [at EXCEPT ![c] = where]
  PROVE  KeysAreOfLiveRuns'
<1> USE DEF Types, Claimed
<1>1. \A d \in Starts : at'[d] = IF d = c THEN where ELSE at[d]
    OBVIOUS
<1>2. \A d \in Starts : at[d] \in (Claimed \ {"lease"}) \cup {"running"} /\ Key(d) = Key(c) => d = c
    BY DEF ClaimsHold, Apart, Key
<1>3. keys' = {[key |-> Key(d), run |-> d] : d \in {e \in Starts : at'[e] \in (Claimed \ {"lease"}) \cup {"running"}}}
  <2>1. keys = {[key |-> Key(d), run |-> d] : d \in {e \in Starts : at[e] \in (Claimed \ {"lease"}) \cup {"running"}}}
      BY DEF ClaimsHold, KeysAreOfLiveRuns
  <2>2. ASSUME NEW k \in keys' PROVE k \in keys /\ k.key # Key(c)
      BY DEF Unkey
  <2>3. ASSUME NEW d \in Starts, at'[d] \in (Claimed \ {"lease"}) \cup {"running"}
        PROVE  [key |-> Key(d), run |-> d] \in keys'
    <3>1. d # c /\ at[d] = at'[d]
        BY <1>1, <2>3
    <3>2. [key |-> Key(d), run |-> d] \in keys /\ Key(d) # Key(c)
        BY <1>2, <2>1, <2>3, <3>1
    <3> QED BY <3>2 DEF Unkey
  <2>4. ASSUME NEW k \in keys'
        PROVE  \E d \in Starts : at'[d] \in (Claimed \ {"lease"}) \cup {"running"} /\ k = [key |-> Key(d), run |-> d]
    <3>1. PICK d \in Starts : at[d] \in (Claimed \ {"lease"}) \cup {"running"} /\ k = [key |-> Key(d), run |-> d]
        BY <2>1, <2>2
    <3>2. d # c
        BY <2>2, <3>1
    <3> QED BY <1>1, <3>1, <3>2
  <2> QED BY <2>3, <2>4
<1>4. \A d \in Starts : Key(d)' = Key(d)
    BY DEF Key
<1> QED BY <1>3, <1>4 DEF KeysAreOfLiveRuns

LEMMA ReleaseHolds ==
  ASSUME ConstantsOK, Types, Chosen, ClaimsHold, NEW c \in Starts, Release(c)
  PROVE  ClaimsHold'
<1> USE DEF ConstantsOK, Types, Claimed, Before, Places, To
<1> DEFINE s == picked[c].session
           where == IF at[c] = "abort" THEN "failed" ELSE "running"
<1>1. /\ at[c] \in {"abort", "leave"} /\ UNCHANGED picked /\ at' = [at EXCEPT ![c] = where]
      /\ starting' = [starting EXCEPT ![On[c]] = @ \ {s}]
      /\ lease' = IF lease[s] = c THEN [lease EXCEPT ![s] = None] ELSE lease
      /\ s \in Sessions
    BY DEF Release, Chosen
<1>2. \A d \in Starts : at'[d] = IF d = c THEN where ELSE at[d]
    BY <1>1
<1>3. Apart' /\ \A q \in Relays :
        starting'[q] = {picked'[e].session : e \in {d \in Starts : On[d] = q /\ at'[d] \in Claimed}}
    BY <1>1, GivesBack
<1>4. ASSUME NEW q \in Sessions, NEW d \in Starts
      PROVE  lease'[q] = d <=> picked'[d].reused /\ picked'[d].session = q /\ at'[d] \in Claimed \ {"lease"}
  <2>1. lease[q] = d <=> picked[d].reused /\ picked[d].session = q /\ at[d] \in Claimed \ {"lease"}
      BY DEF ClaimsHold, ClaimsAreReturned
  <2>2. lease'[q] = IF q = s /\ lease[s] = c THEN None ELSE lease[q]
      BY <1>1
  <2>3. CASE d = c
      BY <1>1, <1>2, <2>1, <2>2, <2>3
  <2>4. CASE d # c
      BY <1>1, <1>2, <2>1, <2>2, <2>4
  <2> QED BY <2>3, <2>4
<1>5. KeysAreOfLiveRuns'
  <2>1. CASE at[c] = "abort"
      BY <1>1, <2>1, OwnKey DEF Release
  <2>2. CASE at[c] = "leave"
    <3>1. keys' = keys
        BY <2>2 DEF Release
    <3> QED BY <1>1, <1>2, <2>2, <3>1 DEF ClaimsHold, KeysAreOfLiveRuns, Key
  <2> QED BY <1>1, <2>1, <2>2
<1> QED BY <1>3, <1>4, <1>5 DEF ClaimsHold, ClaimsAreReturned

LEMMA FinalizeHolds ==
  ASSUME ConstantsOK, Types, Chosen, ClaimsHold, NEW c \in Starts, Finalize(c)
  PROVE  ClaimsHold'
<1> USE DEF Types, Claimed
<1>1. /\ at[c] = "running" /\ at' = [at EXCEPT ![c] = "done"] /\ keys' = Unkey(c)
      /\ UNCHANGED <<starting, lease, picked>>
    BY DEF Finalize, To
<1>2. \A d \in Starts : at'[d] = IF d = c THEN "done" ELSE at[d]
    BY <1>1
<1>3. KeysAreOfLiveRuns'
    BY <1>1, OwnKey
<1>4. Apart'
    BY <1>1, <1>2 DEF ClaimsHold, Apart
<1>5. \A d \in Starts : at'[d] \in Claimed <=> at[d] \in Claimed
    BY <1>1, <1>2
<1>6. ClaimsAreReturned'
  <2>1. \A q \in Relays : {d \in Starts : On[d] = q /\ at'[d] \in Claimed}
                            = {d \in Starts : On[d] = q /\ at[d] \in Claimed}
      BY <1>5
  <2>2. \A d \in Starts : at'[d] \in Claimed \ {"lease"} <=> at[d] \in Claimed \ {"lease"}
      BY <1>1, <1>2
  <2> QED BY <1>1, <2>1, <2>2 DEF ClaimsHold, ClaimsAreReturned
<1> QED BY <1>3, <1>4, <1>6 DEF ClaimsHold

LEMMA ClaimsInductive ==
  ASSUME ConstantsOK, Types, Chosen, ClaimsHold, [ClaimNext]_claimVars
  PROVE  ClaimsHold'
<1> USE DEF Types, Claimed, Before, Places, Working, Leasing, Keyed, To, relayVars
<1>1. ASSUME NEW c \in Starts, StartService(c) PROVE ClaimsHold'
  <2>1. /\ at[c] = "called" /\ UNCHANGED <<starting, keys, lease>>
        /\ \A d \in Starts : at'[d] = IF d = c THEN "resolve" ELSE at[d]
        /\ \A d \in Starts : d # c => picked'[d] = picked[d]
      BY <1>1 DEF StartService
  <2> QED BY <2>1, Quiet
<1>2. ASSUME NEW c \in Starts, StartServiceFails(c) PROVE ClaimsHold'
    BY <1>2, Quiet DEF StartServiceFails
<1>3. ASSUME NEW c \in Starts, Resolve(c) PROVE ClaimsHold'
    BY <1>3, Resolved, Quiet
<1>4. ASSUME NEW c \in Starts, AssertIdle(c) \/ SetUpFails(c) PROVE ClaimsHold'
    BY <1>4, Quiet DEF AssertIdle, SetUpFails
<1>5. ASSUME NEW c \in Starts, Prompt(c) PROVE ClaimsHold'
    BY <1>5, Quiet DEF Prompt
<1>6. ASSUME NEW c \in Starts, LatePrompt(c) \/ TurnEnds(c) PROVE ClaimsHold'
    BY <1>6, Quiet DEF LatePrompt, TurnEnds
<1>7. ASSUME NEW r \in Relays, StopService(r) PROVE ClaimsHold'
    BY <1>7, Quiet DEF StopService
<1>8. CASE UNCHANGED claimVars
    BY <1>8, Quiet DEF claimVars
<1> QED
    BY <1>1, <1>2, <1>3, <1>4, <1>5, <1>6, <1>7, <1>8,
       ClaimHolds, TakeLeaseHolds, ReleaseHolds, FinalizeHolds DEF ClaimNext

-----------------------------------------------------------------------------
\* A step of a call that has not prompted, and does not come to it, changes
\* nothing about the turns and who is alone.
LEMMA Elsewhere ==
  ASSUME Types, Chosen, TurnsAreOfRuns, NEW c \in Starts, at[c] \notin {"leave", "running", "done"},
         UNCHANGED <<turn, late>>,
         \A d \in Starts : d # c => at'[d] = at[d] /\ picked'[d] = picked[d]
  PROVE  /\ TurnsAreOfRuns'
         /\ OneRunPerSession => OneRunPerSession'
         /\ Alone /\ at'[c] # "prompt" => Alone'
<1>1. \A s \in Sessions : \A d \in turn[s] : d \in Starts /\ d # c /\ at'[d] = at[d] /\ picked'[d] = picked[d]
    BY DEF Types, TurnsAreOfRuns
<1>2. TurnsAreOfRuns'
    BY <1>1 DEF TurnsAreOfRuns
<1>3. OneRunPerSession => OneRunPerSession'
    BY <1>1 DEF OneRunPerSession
<1>4. ASSUME Alone, at'[c] # "prompt" PROVE Alone'
  <2> SUFFICES ASSUME NEW d \in Starts, at'[d] = "prompt", picked'[d].reused,
                      NEW e \in turn'[picked'[d].session]
               PROVE  Exempt(e)'
      BY DEF Alone
  <2>1. d # c /\ at[d] = "prompt" /\ picked'[d] = picked[d]
      BY <1>4
  <2>2. picked[d].session \in Sessions
      BY <2>1 DEF Chosen, Claimed
  <2>3. Exempt(e) /\ picked'[e] = picked[e]
      BY <1>1, <1>4, <2>1, <2>2 DEF Alone
  <2> QED BY <2>3 DEF Exempt
<1> QED BY <1>2, <1>3, <1>4

\* The turns of the Host are those of the runs that prompted it.
LEMMA TurnsInductive ==
  ASSUME ConstantsOK, Types, Chosen, TurnsAreOfRuns, [ClaimNext]_claimVars
  PROVE  Chosen' /\ TurnsAreOfRuns'
<1> USE DEF ConstantsOK, Types, Claimed, Before, Places, Chosen, TurnsAreOfRuns, To, relayVars
<1>1. ASSUME NEW c \in Starts, StartService(c) PROVE Chosen' /\ TurnsAreOfRuns'
    BY <1>1 DEF StartService
<1>2. ASSUME NEW c \in Starts, StartServiceFails(c) PROVE Chosen' /\ TurnsAreOfRuns'
    BY <1>2 DEF StartServiceFails
<1>3. ASSUME NEW c \in Starts, Resolve(c) PROVE Chosen' /\ TurnsAreOfRuns'
  <2>1. TurnsAreOfRuns'
      BY <1>3, Resolved, Elsewhere
  <2>2. Chosen'
    <3>1. /\ at[c] = "resolve" /\ at'[c] \in {"claim", "failed"}
          /\ at'[c] = "claim" => picked'[c].session \in Sessions
          /\ UNCHANGED late
        BY <1>3, Resolved
    <3>2. \A d \in Starts : d # c => at'[d] = at[d] /\ picked'[d] = picked[d]
        BY <1>3, Resolved
    <3>3. ASSUME NEW d \in Starts
          PROVE  /\ at'[d] \in Claimed \cup {"claim", "running", "done"} => picked'[d].session \in Sessions
                 /\ at'[d] \notin {"leave", "running", "done"} => late'[d] = "no"
      <4>1. CASE d = c
          BY <3>1, <4>1
      <4>2. CASE d # c
          BY <3>1, <3>2, <4>2
      <4> QED BY <4>1, <4>2
    <3> QED BY <3>3
  <2> QED BY <2>1, <2>2
<1>4. ASSUME NEW c \in Starts, Claim(c) PROVE Chosen' /\ TurnsAreOfRuns'
  <2>1. at[c] = "claim" /\ UNCHANGED <<picked, turn, late>>
      BY <1>4 DEF Claim
  <2>2. at' = [at EXCEPT ![c] = "failed"] \/ at' = [at EXCEPT ![c] = "lease"]
      BY <1>4 DEF Claim
  <2>3. \A d \in Starts : IF d = c THEN at'[d] \in {"failed", "lease"} ELSE at'[d] = at[d]
      BY <2>2
  <2>4. TurnsAreOfRuns'
      BY <2>1, <2>3, Elsewhere
  <2> QED BY <2>1, <2>3, <2>4
<1>5. ASSUME NEW c \in Starts, TakeLease(c) PROVE Chosen' /\ TurnsAreOfRuns'
    BY <1>5 DEF TakeLease
<1>6. ASSUME NEW c \in Starts, AssertIdle(c) \/ SetUpFails(c) PROVE Chosen' /\ TurnsAreOfRuns'
  <2>1. at[c] \in {"idle", "prompt"} /\ UNCHANGED <<picked, turn, late>>
      BY <1>6 DEF AssertIdle, SetUpFails
  <2>2. at'[c] \in {"abort", "prompt"} /\ at' \in [Starts -> Places]
      BY <1>6 DEF AssertIdle, SetUpFails
  <2>3. \A d \in Starts : d # c => at'[d] = at[d]
      BY <1>6 DEF AssertIdle, SetUpFails
  <2>4. TurnsAreOfRuns'
      BY <2>1, <2>3, Elsewhere
  <2> QED BY <2>1, <2>2, <2>3, <2>4
<1>7. ASSUME NEW c \in Starts, Prompt(c) PROVE Chosen' /\ TurnsAreOfRuns'
  <2>1. at[c] = "prompt" /\ UNCHANGED picked /\ picked[c].session \in Sessions
      BY <1>7 DEF Prompt
  <2>2. CASE HostTakes(c) /\ To(c, "leave") /\ UNCHANGED late
      BY <2>1, <2>2 DEF HostTakes
  <2>3. CASE To(c, "abort") /\ UNCHANGED <<turn, late>>
    <3>1. \A d \in Starts : IF d = c THEN at'[d] = "abort" ELSE at'[d] = at[d]
        BY <2>3
    <3>2. TurnsAreOfRuns'
        BY <2>1, <2>3, <3>1, Elsewhere
    <3>3. Chosen'
        BY <2>1, <2>3, <3>1
    <3> QED BY <3>2, <3>3
  <2>4. CASE late' = [late EXCEPT ![c] = "waiting"] /\ To(c, "leave") /\ UNCHANGED turn
      BY <2>1, <2>4
  <2> QED BY <1>7, <2>2, <2>3, <2>4 DEF Prompt
<1>8. ASSUME NEW c \in Starts, LatePrompt(c) PROVE Chosen' /\ TurnsAreOfRuns'
  <2>1. late' = [late EXCEPT ![c] = "over"] /\ UNCHANGED <<at, picked>> /\ late[c] = "waiting"
      BY <1>8 DEF LatePrompt
  <2>2. Chosen'
      BY <2>1
  <2>3. CASE UNCHANGED turn
      BY <2>1, <2>2, <2>3
  <2>4. CASE HostTakes(c) /\ at[c] \in {"leave", "running", "done"}
    <3>1. \A s \in Sessions :
            /\ s = picked[c].session => turn'[s] = turn[s] \cup {c}
            /\ s # picked[c].session => turn'[s] = turn[s]
        BY <2>4 DEF HostTakes
    <3>2. TurnsAreOfRuns'
      <4> SUFFICES ASSUME NEW s \in Sessions, NEW d \in turn'[s]
                   PROVE  d \in Starts /\ at'[d] \in {"leave", "running", "done"} /\ picked'[d].session = s
          BY DEF TurnsAreOfRuns
      <4>1. CASE d \in turn[s]
          BY <2>1, <4>1
      <4>2. CASE d = c /\ s = picked[c].session
          BY <2>1, <2>4, <4>2
      <4>3. d \in turn[s] \/ (d = c /\ s = picked[c].session)
        <5>1. CASE s = picked[c].session
            BY <3>1, <5>1
        <5>2. CASE s # picked[c].session
            BY <3>1, <5>2
        <5> QED BY <5>1, <5>2
      <4> QED BY <4>1, <4>2, <4>3
    <3> QED BY <2>2, <3>2
  <2>5. at[c] \in {"leave", "running", "done"}
      BY <2>1
  <2> QED BY <1>8, <2>3, <2>4, <2>5 DEF LatePrompt
<1>9. ASSUME NEW c \in Starts, Release(c) PROVE Chosen' /\ TurnsAreOfRuns'
    BY <1>9 DEF Release
<1>10. ASSUME NEW c \in Starts, TurnEnds(c) PROVE Chosen' /\ TurnsAreOfRuns'
    BY <1>10 DEF TurnEnds
<1>11. ASSUME NEW c \in Starts, Finalize(c) PROVE Chosen' /\ TurnsAreOfRuns'
    BY <1>11 DEF Finalize
<1>12. CASE UNCHANGED claimVars \/ \E r \in Relays : StopService(r)
    BY <1>12 DEF claimVars, StopService
<1> QED
    BY <1>1, <1>2, <1>3, <1>4, <1>5, <1>6, <1>7, <1>8, <1>9, <1>10, <1>11, <1>12 DEF ClaimNext

\* Where nothing is prompted and no one comes to the point of prompting, nothing
\* changes about who is alone.
LEMMA AloneInductive ==
  ASSUME ConstantsOK, Types, Chosen, TurnsAreOfRuns, ClaimsAreReturned, Alone, OneRunPerSession,
         [ClaimNext]_claimVars
  PROVE  Alone' /\ OneRunPerSession'
<1> USE DEF ConstantsOK, Types, Claimed, Before, Places, Alone, OneRunPerSession, Exempt, To, relayVars
<1>0. \A s \in Sessions : \A d \in turn[s] : d \in Starts /\ at[d] \notin Before /\ picked[d].session = s
    BY DEF TurnsAreOfRuns
<1>1. ASSUME NEW c \in Starts, StartService(c) PROVE Alone' /\ OneRunPerSession'
  <2>1. /\ at[c] = "called" /\ UNCHANGED <<turn, late>>
        /\ \A d \in Starts : at'[d] = IF d = c THEN "resolve" ELSE at[d]
        /\ \A d \in Starts : d # c => picked'[d] = picked[d]
      BY <1>1 DEF StartService
  <2> QED BY <2>1, Elsewhere
<1>2. ASSUME NEW c \in Starts, StartServiceFails(c) PROVE Alone' /\ OneRunPerSession'
    BY <1>2 DEF StartServiceFails
<1>3. ASSUME NEW c \in Starts, Resolve(c) PROVE Alone' /\ OneRunPerSession'
    BY <1>3, Resolved, Elsewhere
<1>4. ASSUME NEW c \in Starts, Claim(c) PROVE Alone' /\ OneRunPerSession'
  <2>1. at[c] = "claim" /\ UNCHANGED <<picked, turn, late>>
      BY <1>4 DEF Claim
  <2>2. \A d \in Starts : IF d = c THEN at'[d] \in {"failed", "lease"} ELSE at'[d] = at[d]
      BY <1>4 DEF Claim
  <2> QED BY <2>1, <2>2, Elsewhere
<1>5. ASSUME NEW c \in Starts, TakeLease(c) PROVE Alone' /\ OneRunPerSession'
    BY <1>5 DEF TakeLease
<1>6. ASSUME NEW c \in Starts, AssertIdle(c) PROVE Alone' /\ OneRunPerSession'
  <2>1. /\ at[c] = "idle" /\ UNCHANGED <<picked, turn, late>>
        /\ at' = [at EXCEPT ![c] = IF turn[picked[c].session] # {} THEN "abort" ELSE "prompt"]
      BY <1>6 DEF AssertIdle, runs
  <2>2. OneRunPerSession'
      BY <2>1, Elsewhere
  <2>3. Alone'
    <3>1. \A d \in Starts : d # c => at'[d] = at[d]
        BY <2>1
    <3>2. at'[c] = "prompt" => turn[picked[c].session] = {}
        BY <2>1
    <3> QED BY <2>1, <3>1, <3>2
  <2> QED BY <2>2, <2>3
<1>7. ASSUME NEW c \in Starts, SetUpFails(c) PROVE Alone' /\ OneRunPerSession'
    BY <1>7 DEF SetUpFails
<1>8. ASSUME NEW c \in Starts, Prompt(c) PROVE Alone' /\ OneRunPerSession'
  <2>1. at[c] = "prompt" /\ UNCHANGED picked /\ picked[c].session \in Sessions
      BY <1>8 DEF Prompt, Chosen
  <2>2. \A d \in Starts : d # c /\ at[d] = "prompt" /\ picked[d].reused /\ picked[c].reused
                            => picked[d].session # picked[c].session
      BY <2>1 DEF ClaimsAreReturned, Chosen
  <2>3. CASE HostTakes(c) /\ To(c, "leave") /\ UNCHANGED late
      BY <1>0, <2>1, <2>2, <2>3 DEF HostTakes
  <2>4. CASE To(c, "abort") /\ UNCHANGED <<turn, late>>
      BY <2>1, <2>4
  <2>5. CASE late' = [late EXCEPT ![c] = "waiting"] /\ To(c, "leave") /\ UNCHANGED turn
      BY <1>0, <2>1, <2>5
  <2> QED BY <1>8, <2>3, <2>4, <2>5 DEF Prompt
<1>9. ASSUME NEW c \in Starts, LatePrompt(c) PROVE Alone' /\ OneRunPerSession'
  <2>1. late' = [late EXCEPT ![c] = "over"] /\ UNCHANGED <<at, picked>> /\ late[c] = "waiting"
      BY <1>9 DEF LatePrompt
  <2>2. \A s \in Sessions : turn'[s] \subseteq turn[s] \cup {c}
      BY <1>9 DEF LatePrompt, HostTakes
  <2>3. \A s \in Sessions : \A d \in turn'[s] : d = c \/ d \in turn[s]
      BY <2>2
  <2>4. Exempt(c)' /\ \A d \in Starts : Exempt(d) => Exempt(d)'
      BY <2>1
  <2>5. OneRunPerSession'
      BY <1>0, <2>1, <2>3, <2>4
  <2>6. Alone'
      BY <1>0, <2>1, <2>3, <2>4 DEF Chosen
  <2> QED BY <2>5, <2>6
<1>10. ASSUME NEW c \in Starts, Release(c) \/ Finalize(c) PROVE Alone' /\ OneRunPerSession'
    BY <1>10 DEF Release, Finalize
<1>11. ASSUME NEW c \in Starts, TurnEnds(c) PROVE Alone' /\ OneRunPerSession'
    BY <1>11 DEF TurnEnds
<1>12. CASE UNCHANGED claimVars \/ \E r \in Relays : StopService(r)
    BY <1>12 DEF claimVars, StopService
<1> QED
    BY <1>1, <1>2, <1>3, <1>4, <1>5, <1>6, <1>7, <1>8, <1>9, <1>10, <1>11, <1>12 DEF ClaimNext

-----------------------------------------------------------------------------
\* However many calls of however many Relays ask for one session, and whatever
\* fails or is stopped on the way, two runs are in it together only if one of
\* them created it or came late, and every claim, lease and key is given back
\* with its run and with no other (relay-broker-facade.ts:233-345, 640-651).
THEOREM SessionsAreClaimed ==
  ASSUME ConstantsOK
  PROVE  ClaimSpec => [](OneRunPerSession /\ ClaimsAreReturned /\ KeysAreOfLiveRuns)
<1>1. ClaimInit => ClaimInv
    BY ClaimInitially
<1>2. ClaimInv /\ [ClaimNext]_claimVars => ClaimInv'
    BY TypesInductive, ClaimsInductive, TurnsInductive, AloneInductive DEF ClaimInv, ClaimsHold
<1>3. ClaimInv => OneRunPerSession /\ ClaimsAreReturned /\ KeysAreOfLiveRuns
    BY DEF ClaimInv
<1> QED
    BY <1>1, <1>2, <1>3, PTL DEF ClaimSpec
=============================================================================
