---------------------------- MODULE ServicesProofs ---------------------------
(* What holds of the smaller services around the pipeline, of each by itself *)
(* and for every value of its constants: the GitHub identity, the providers, *)
(* the repository registry, the feature defaults, the migrations, the tmux   *)
(* sessions and the working copies. Each part states the invariant that is   *)
(* inductive, one lemma for each action that could disturb it, and ends in   *)
(* the theorem.                                                              *)
(****************************************************************************)
EXTENDS AgentSessions, Providers, Defaults, Boot, Registry, GitHubClient, Worktrees,
        FiniteSetTheorems, NaturalsInduction, TLAPS

-----------------------------------------------------------------------------
(* The GitHub identity.                                                    *)

GitHubCall == [at : {"new", "exchanging", "minted", "token", "alive", "auth error"},
               since : Nat, token : Nat, got : Nat]

GitHubTypes ==
    /\ now \in Nat
    /\ cache \in [token : Nat, until : Nat]
    /\ ghcall \in [GitHubCallers -> GitHubCall]

\* A call holds no token before GitHub mints one; one that was minted outlives
\* the request that asked for it, which is given up before that.
CallInLife(call) ==
    /\ call.at \in {"new", "exchanging", "minted"} => call.got = 0
    /\ call.at \in {"exchanging", "minted"} =>
          call.since <= now /\ now <= call.since + HttpTimeout
    /\ call.at = "minted" => call.since + TokenLife <= call.token
    /\ call.token # 0 /\ call.got # 0 => call.got <= call.token

\* A cache entry ends with its token.
GitHubInv ==
    /\ GitHubTypes
    /\ cache.until = cache.token
    /\ \A c \in GitHubCallers : CallInLife(ghcall[c])

LEMMA GitHubStarts == GitHubInit => GitHubInv
BY DEF GitHubInit, GitHubInv, GitHubTypes, GitHubCall, NoCall, CallInLife

LEMMA TimeoutInLife == HttpTimeout \in Nat /\ TokenLife \in Nat /\ HttpTimeout <= TokenLife
BY GitHubAssumption

\* A call moves; what it moves to keeps the others as they are.
LEMMA GitHubCallMoves ==
  ASSUME GitHubInv, NEW c \in GitHubCallers, NEW call \in GitHubCall, CallInLife(call),
         ghcall' = [ghcall EXCEPT ![c] = call],
         UNCHANGED now, UNCHANGED cache
  PROVE  GitHubInv'
<1>1. GitHubTypes'
  BY DEF GitHubInv, GitHubTypes
<1>2. ASSUME NEW d \in GitHubCallers PROVE CallInLife(ghcall[d])'
  <2>1. ghcall'[d] = IF d = c THEN call ELSE ghcall[d]
    BY DEF GitHubInv, GitHubTypes
  <2> QED
    BY <2>1 DEF GitHubInv, CallInLife
<1> QED
  BY <1>1, <1>2 DEF GitHubInv

LEMMA GitHubSteps == GitHubInv /\ [GitHubNext]_githubVars => GitHubInv'
<1> SUFFICES ASSUME GitHubInv, [GitHubNext]_githubVars
             PROVE  GitHubInv'
  OBVIOUS
<1>1. CASE TimePasses
  <2>1. now' = now + 1 /\ UNCHANGED <<cache, ghcall>>
    BY <1>1 DEF TimePasses
  <2>2. ASSUME NEW c \in GitHubCallers PROVE CallInLife(ghcall[c])'
    <3>1. /\ ghcall[c] \in GitHubCall /\ now \in Nat /\ CallInLife(ghcall[c])
          /\ ghcall[c].since \in Nat
      BY DEF GitHubInv, GitHubTypes, GitHubCall
    <3>2. ghcall[c].at \in {"exchanging", "minted"} => now < ghcall[c].since + HttpTimeout
      BY <1>1 DEF TimePasses, InFlight
    <3> QED
      BY <2>1, <3>1, <3>2, TimeoutInLife DEF CallInLife
  <2> QED
    BY <2>1, <2>2 DEF GitHubInv, GitHubTypes
<1>2. CASE InstallationChanges
  BY <1>2 DEF InstallationChanges, GitHubInv, GitHubTypes, CallInLife
<1>3. ASSUME NEW c \in GitHubCallers,
             GetToken(c) \/ Mints(c) \/ ExchangeFails(c) \/ ReceivesToken(c) \/ Probe(c)
      PROVE  GitHubInv'
  <2> DEFINE call == ghcall[c]
  <2>1. /\ call \in GitHubCall /\ CallInLife(call) /\ now \in Nat
        /\ cache \in [token : Nat, until : Nat] /\ cache.until = cache.token
        /\ ghcall \in [GitHubCallers -> GitHubCall]
        /\ call.since \in Nat /\ call.token \in Nat /\ call.got \in Nat
    BY TimeoutInLife DEF GitHubInv, GitHubTypes, GitHubCall
  <2>2. CASE GetToken(c)
    <3>1. CASE cache.token # 0 /\ now <= cache.until
      <4>1. ghcall' = [ghcall EXCEPT ![c] =
               [call EXCEPT !.at = "token", !.token = cache.token, !.got = now]]
        BY <2>2, <3>1 DEF GetToken, Hands
      <4>2. [call EXCEPT !.at = "token", !.token = cache.token, !.got = now] \in GitHubCall
        BY <2>1 DEF GitHubCall
      <4>3. CallInLife([call EXCEPT !.at = "token", !.token = cache.token, !.got = now])
        BY <2>1, <3>1 DEF CallInLife, GitHubCall
      <4> QED
        BY <2>2, <4>1, <4>2, <4>3, GitHubCallMoves DEF GetToken
    <3>2. CASE ghcall' = [ghcall EXCEPT ![c].at = "exchanging", ![c].since = now]
      <4>1. ghcall' = [ghcall EXCEPT ![c] = [call EXCEPT !.at = "exchanging", !.since = now]]
        BY <3>2
      <4> DEFINE next == [call EXCEPT !.at = "exchanging", !.since = now]
      <4>2. /\ next \in GitHubCall /\ next.at = "exchanging" /\ next.since = now
            /\ next.token = call.token /\ next.got = call.got /\ call.got = 0
        BY <2>1, <2>2 DEF GetToken, CallInLife, GitHubCall
      <4>3. CallInLife(next)
        <5> HIDE DEF next
        <5> QED
          BY <2>1, <4>2, TimeoutInLife DEF CallInLife
      <4> QED
        BY <2>2, <4>1, <4>2, <4>3, GitHubCallMoves DEF GetToken
    <3>3. CASE Ends(c, "auth error")
      <4>1. ghcall' = [ghcall EXCEPT ![c] = [call EXCEPT !.at = "auth error"]]
        BY <3>3 DEF Ends
      <4>2. /\ [call EXCEPT !.at = "auth error"] \in GitHubCall
            /\ CallInLife([call EXCEPT !.at = "auth error"])
        BY <2>1 DEF CallInLife, GitHubCall
      <4> QED
        BY <2>2, <4>1, <4>2, GitHubCallMoves DEF GetToken
    <3> QED
      BY <2>2, <3>1, <3>2, <3>3 DEF GetToken
  <2>3. CASE Mints(c) /\ installed
    <3> DEFINE next == [call EXCEPT !.at = "minted", !.token = now + TokenLife]
    <3>1. call.at = "exchanging" /\ ghcall' = [ghcall EXCEPT ![c] = next]
      BY <2>3 DEF Mints
    <3>2. /\ next \in GitHubCall /\ next.at = "minted" /\ next.token = now + TokenLife
          /\ next.since = call.since /\ next.got = call.got
      <4>1. now + TokenLife \in Nat
        BY <2>1, TimeoutInLife
      <4> QED
        BY <2>1, <4>1 DEF GitHubCall
    <3>3. CallInLife(next)
      <4> HIDE DEF next
      <4> QED
        BY <2>1, <3>1, <3>2, TimeoutInLife DEF CallInLife
    <3> QED
      BY <2>3, <3>1, <3>2, <3>3, GitHubCallMoves DEF Mints
  <2>4. ASSUME NEW at \in {"alive", "auth error"}, Ends(c, at), UNCHANGED <<now, cache>>
        PROVE  GitHubInv'
    <3>1. ghcall' = [ghcall EXCEPT ![c] = [call EXCEPT !.at = at]]
      BY <2>4 DEF Ends
    <3>2. [call EXCEPT !.at = at] \in GitHubCall /\ CallInLife([call EXCEPT !.at = at])
      BY <2>1 DEF CallInLife, GitHubCall
    <3> QED
      BY <2>4, <3>1, <3>2, GitHubCallMoves
  <2>5. CASE ReceivesToken(c)
    <3> DEFINE got == [call EXCEPT !.at = "token", !.token = call.token, !.got = now]
    <3>1. /\ call.at = "minted" /\ UNCHANGED now
          /\ cache' = [token |-> call.token, until |-> call.token]
          /\ ghcall' = [ghcall EXCEPT ![c] = got]
      BY <2>5 DEF ReceivesToken, Hands, CachedUntil
    <3>2. got \in GitHubCall /\ CallInLife(got)
      <4>1. now <= call.token
        BY <2>1, <3>1, TimeoutInLife DEF CallInLife
      <4>2. /\ got \in GitHubCall
            /\ got.at = "token" /\ got.token = call.token /\ got.got = now
        BY <2>1, <3>1 DEF GitHubCall
      <4> HIDE DEF got
      <4> QED
        BY <4>1, <4>2 DEF CallInLife
    <3>3. /\ cache' \in [token : Nat, until : Nat]
          /\ cache'.until = cache'.token
      BY <2>1, <3>1 DEF GitHubCall
    <3>4. ghcall' \in [GitHubCallers -> GitHubCall]
      BY <2>1, <3>1, <3>2
    <3>5. ASSUME NEW d \in GitHubCallers PROVE CallInLife(ghcall[d])'
      <4> HIDE DEF got
      <4>1. ghcall'[d] = IF d = c THEN got ELSE ghcall[d]
        BY <2>1, <3>1
      <4> QED
        BY <3>1, <3>2, <4>1 DEF GitHubInv, CallInLife
    <3> QED
      BY <2>1, <3>1, <3>3, <3>4, <3>5 DEF GitHubInv, GitHubTypes
  <2> QED
    BY <1>3, <2>2, <2>3, <2>4, <2>5 DEF Mints, ExchangeFails, Probe
<1>4. CASE UNCHANGED githubVars
  BY <1>4 DEF githubVars, GitHubInv, GitHubTypes, CallInLife
<1> QED
  BY <1>1, <1>2, <1>3, <1>4 DEF GitHubNext

\* A token is never handed out after it expired, whatever the order in which
\* the callers fill the cache and however late an answer is: the client's
\* timeout is within the life of a token, and a cache entry ends with its own
\* token (native.go, getToken; token_cache.go).
THEOREM TokenAlwaysInLife == GitHubSpec => []TokenInLife
<1>1. GitHubInv => TokenInLife
  BY DEF GitHubInv, TokenInLife, CallInLife
<1> QED
  BY GitHubStarts, GitHubSteps, <1>1, PTL DEF GitHubSpec

\* No token was minted later than the clock says.
GitHubBounds ==
    /\ GitHubTypeOK
    /\ \A c \in GitHubCallers : ghcall[c].token <= MaxTime + TokenLife

LEMMA GitHubBoundsKept ==
  GitHubInv /\ GitHubBounds /\ [GitHubNext]_githubVars => GitHubBounds'
<1> SUFFICES ASSUME GitHubInv, GitHubBounds, [GitHubNext]_githubVars
             PROVE  GitHubBounds'
  OBVIOUS
<1> DEFINE most == MaxTime + TokenLife
<1>1. /\ GitHubTypes /\ GitHubTypes' /\ most \in Nat
      /\ MaxTime \in Nat /\ TokenLife \in Nat
  BY GitHubSteps, GitHubAssumption DEF GitHubInv
<1>2. /\ now \in 1..MaxTime /\ installed \in BOOLEAN /\ now \in Nat
      /\ cache \in [token : Nat, until : Nat] /\ cache.token \in 0..most
      /\ \A d \in GitHubCallers : ghcall[d].token <= most
  BY <1>1 DEF GitHubBounds, GitHubTypeOK, GitHubTypes
<1>3. now' \in 1..MaxTime /\ installed' \in BOOLEAN
  <2>1. now' = now \/ (now < MaxTime /\ now' = now + 1)
    BY DEF GitHubNext, githubVars, TimePasses,
           InstallationChanges, GetToken, Mints, ExchangeFails, ReceivesToken, Probe
  <2>2. installed' = installed \/ installed' = ~installed
    BY DEF GitHubNext, githubVars, TimePasses,
           InstallationChanges, GetToken, Mints, ExchangeFails, ReceivesToken, Probe
  <2>3. now' \in 1..MaxTime
    BY <1>1, <1>2, <2>1
  <2>4. installed' \in BOOLEAN
    BY <1>2, <2>2
  <2> QED
    BY <2>3, <2>4
<1>4. ASSUME NEW c \in GitHubCallers, cache.token <= most,
             \A d \in GitHubCallers : ghcall[d].token <= most,
             GetToken(c) \/ Mints(c) \/ ExchangeFails(c) \/ ReceivesToken(c) \/ Probe(c)
      PROVE  /\ cache'.token <= most
             /\ \A d \in GitHubCallers : ghcall'[d].token <= most
  <2>1. ASSUME NEW token \in Nat, token <= most, NEW d \in GitHubCallers,
               ghcall'[c].token = token, d # c => ghcall'[d] = ghcall[d]
        PROVE  ghcall'[d].token <= most
    BY <1>4, <2>1
  <2>2. \A d \in GitHubCallers \ {c} : ghcall'[d] = ghcall[d]
    BY <1>1, <1>4 DEF GitHubTypes, GetToken, Mints, ExchangeFails, ReceivesToken, Probe, Hands, Ends
  <2>3. /\ cache' = cache \/ cache'.token = ghcall[c].token
        /\ \/ ghcall'[c].token \in {ghcall[c].token, cache.token}
           \/ ghcall'[c].token = now + TokenLife
    <3>1. ghcall[c] \in GitHubCall /\ c \in DOMAIN ghcall
      BY <1>1 DEF GitHubTypes
    <3>2. CASE ReceivesToken(c)
      BY <3>1, <3>2 DEF ReceivesToken, Hands, GitHubCall
    <3>3. CASE GetToken(c)
      <4>1. \/ Hands(c, cache.token) \/ Ends(c, "auth error")
            \/ ghcall' = [ghcall EXCEPT ![c].at = "exchanging", ![c].since = now]
        BY <3>3 DEF GetToken
      <4>2. ASSUME Hands(c, cache.token)
            PROVE  ghcall'[c].token \in {ghcall[c].token, cache.token}
        BY <3>1, <4>2 DEF Hands, GitHubCall
      <4>3. ASSUME Ends(c, "auth error")
            PROVE  ghcall'[c].token \in {ghcall[c].token, cache.token}
        BY <3>1, <4>3 DEF Ends, GitHubCall
      <4>4. ASSUME ghcall' = [ghcall EXCEPT ![c].at = "exchanging", ![c].since = now]
            PROVE  ghcall'[c].token \in {ghcall[c].token, cache.token}
        BY <3>1, <4>4 DEF GitHubCall
      <4>5. ghcall'[c].token \in {ghcall[c].token, cache.token}
        BY <4>1, <4>2, <4>3, <4>4
      <4> QED
        BY <3>3, <4>5 DEF GetToken
    <3>4. CASE Mints(c) \/ ExchangeFails(c) \/ Probe(c)
      BY <3>1, <3>4 DEF Mints, ExchangeFails, Probe, Ends, GitHubCall
    <3> QED
      BY <1>4, <3>2, <3>3, <3>4
  <2>4. now + TokenLife \in Nat /\ now + TokenLife <= most
    <3>1. now \in Nat /\ TokenLife \in Nat /\ MaxTime \in Nat
      BY <1>1, <1>2
    <3>2. now <= MaxTime
      BY <1>2, <3>1
    <3> QED
      BY <3>1, <3>2
  <2>5. cache.token \in Nat /\ ghcall[c].token \in Nat
    BY <1>1 DEF GitHubTypes, GitHubCall
  <2> QED
    BY <1>4, <2>1, <2>2, <2>3, <2>4, <2>5
<1>5. cache.token <= most /\ \A d \in GitHubCallers : ghcall[d].token <= most
  BY <1>1, <1>2
<1>6. cache'.token <= most /\ \A d \in GitHubCallers : ghcall'[d].token <= most
  <2>1. CASE UNCHANGED <<cache, ghcall>>
    BY <1>5, <2>1
  <2> HIDE DEF most
  <2> QED
    BY <1>4, <1>5, <2>1 DEF GitHubNext, githubVars, TimePasses, InstallationChanges
<1>7. /\ cache'.token \in Nat
      /\ \A d \in GitHubCallers : ghcall'[d].at \in
            {"new", "exchanging", "minted", "token", "alive", "auth error"}
  BY <1>1 DEF GitHubTypes, GitHubCall
<1>8. cache'.token \in 0..most
  <2>1. \A i \in Nat : i <= most => i \in 0..most
    BY <1>1
  <2> QED
    BY <1>6, <1>7, <2>1
<1> QED
  BY <1>3, <1>6, <1>7, <1>8 DEF GitHubBounds, GitHubTypeOK

\* The clock, the cache and the calls of the GitHub client have their types in
\* every state: no call is anywhere but where a step of getToken leaves it, and
\* no token outlives the clock by more than the life GitHub gives it.
THEOREM GitHubTypeCorrect == GitHubSpec => []GitHubTypeOK
<1>1. GitHubInit => GitHubBounds
  <2> SUFFICES ASSUME GitHubInit PROVE GitHubBounds
    OBVIOUS
  <2>1. now = 1 /\ cache.token = 0 /\ installed = TRUE
    BY DEF GitHubInit
  <2>2. \A c \in GitHubCallers : ghcall[c].token = 0 /\ ghcall[c].at = "new"
    BY DEF GitHubInit, NoCall
  <2>3. /\ MaxTime \in Nat \ {0} /\ TokenLife \in Nat
        /\ 1 \in 1..MaxTime /\ 0 \in 0..(MaxTime + TokenLife) /\ 0 <= MaxTime + TokenLife
    BY GitHubAssumption
  <2>4. GitHubTypeOK
    BY <2>1, <2>2, <2>3 DEF GitHubTypeOK
  <2> QED
    BY <2>2, <2>3, <2>4 DEF GitHubBounds
<1>2. GitHubBounds => GitHubTypeOK
  BY DEF GitHubBounds
<1> QED
  BY GitHubStarts, GitHubSteps, GitHubBoundsKept, <1>1, <1>2, PTL DEF GitHubSpec

-----------------------------------------------------------------------------
(* The providers.                                                          *)

\* Where a request stands that names a provider, and one that names a provider
\* it found enabled.
AskEnabled == {"tier enabled?", "role enabled?"}
Checking == {"tier model?", "role model?", "tier write", "role write"}

ProviderTypes ==
    /\ providers \in [ProviderNames -> ProviderRows \cup {NoProvider}]
    /\ override \in Overrides
    /\ wreq \in [SettingsReqs -> [at : {"idle"} \cup AskEnabled \cup Checking,
                                  provider : Nat, model : Models \cup {""}]]
    /\ dispatch.providers \in [ProviderNames -> ProviderRows \cup {NoProvider}]
    /\ DOMAIN dispatch = {"at", "providers", "override", "result", "created"}

\* A request past the first check, and an override, name a provider with a row.
NamesRow ==
    /\ \A w \in SettingsReqs :
          /\ wreq[w].at \in AskEnabled => wreq[w].provider \in ProviderNames
          /\ wreq[w].at \in Checking => wreq[w].provider \in Merged(providers)
    /\ override # NoOverride => override.provider \in Merged(providers)

\* What a dispatch has read of the providers it may meet: their rows, but for
\* those of providers created since.
ReadOrNew == Merged(dispatch.providers) \cup dispatch.created

ReadInv ==
    /\ dispatch.at = "overrides" => Merged(providers) \subseteq ReadOrNew
    /\ dispatch.at = "tiers" /\ dispatch.override # NoOverride
          => dispatch.override.provider \in ReadOrNew
    /\ dispatch.at # "resolved" => dispatch.result.end = "none"

ProvidersInv == ProviderTypes /\ NamesRow /\ ReadInv /\ UnknownOnlyNew

\* An enabled provider has a row: no provider is enabled by default.
LEMMA EnabledHasRow ==
  ASSUME NEW table \in [ProviderNames -> ProviderRows \cup {NoProvider}],
         NEW p \in ProviderNames, table[p].enabled
  PROVE  p \in Merged(table)
<1>1. table[p] \in ProviderRows \cup {NoProvider}
  OBVIOUS
<1>2. table[p] # NoProvider
  <2>1. NoProvider.enabled = FALSE
    BY DEF NoProvider
  <2> QED
    BY <2>1
<1>3. table[p].row = TRUE
  BY <1>1, <1>2 DEF ProviderRows
<1> QED
  BY <1>3 DEF Merged

\* A resolution that fails for an unknown provider names the override's one,
\* and found no row of it.
LEMMA UnknownIsOverride ==
  ASSUME NEW table \in [ProviderNames -> ProviderRows \cup {NoProvider}],
         NEW chosen, NEW models,
         ResolveProvider(table, chosen, models).end = "unknown"
  PROVE  /\ chosen # NoOverride
         /\ ResolveProvider(table, chosen, models).provider = chosen.provider
         /\ chosen.provider \notin Merged(table)
BY DEF ResolveProvider, Resolved, WithKey, FindProvider

LEMMA ProvidersStart == ProvidersInit => ProvidersInv
<1> SUFFICES ASSUME ProvidersInit
             PROVE  ProvidersInv
  OBVIOUS
<1>1. NoProvider \in ProviderRows \cup {NoProvider}
  OBVIOUS
<1>2. [row |-> TRUE, enabled |-> TRUE, models |-> {SeedModel},
       default |-> SeedModel, keyed |-> TRUE] \in ProviderRows
  BY ProvidersAssumption DEF ProviderRows
<1>3. providers \in [ProviderNames -> ProviderRows \cup {NoProvider}]
  BY <1>1, <1>2 DEF ProvidersInit
<1>4. /\ override = NoOverride /\ wreq = [w \in SettingsReqs |-> NoWrite]
      /\ dispatch.at = "idle" /\ dispatch.result.end = "none"
      /\ DOMAIN dispatch = {"at", "providers", "override", "result", "created"}
      /\ dispatch.providers = [p \in ProviderNames |-> NoProvider]
  BY DEF ProvidersInit, NoDispatch, Unresolved, Resolved
<1>5. ProviderTypes
  BY <1>3, <1>4 DEF ProviderTypes, Overrides, NoWrite, AskEnabled, Checking
<1>6. NamesRow
  BY <1>4 DEF NamesRow, NoWrite, AskEnabled, Checking
<1> QED
  BY <1>4, <1>5, <1>6 DEF ProvidersInv, ReadInv, UnknownOnlyNew

\* The request w moves on, and about which provider and model.
RequestGoes(w, at, p, model) ==
    /\ at \in {"idle"} \cup AskEnabled \cup Checking
    /\ p \in Nat /\ model \in Models \cup {""}
    /\ at \in AskEnabled => p \in ProviderNames
    /\ at \in Checking => p \in Merged(providers)
    /\ wreq' = [wreq EXCEPT ![w] = [at |-> at, provider |-> p, model |-> model]]

\* A request moves, and what it names is there: nothing else does.
LEMMA RequestMoves ==
  ASSUME ProvidersInv, NEW w \in SettingsReqs, NEW at, NEW p, NEW model,
         RequestGoes(w, at, p, model), UNCHANGED providers
  PROVE  /\ wreq' \in [SettingsReqs -> [at : {"idle"} \cup AskEnabled \cup Checking,
                                       provider : Nat, model : Models \cup {""}]]
         /\ \A v \in SettingsReqs :
               /\ wreq'[v].at \in AskEnabled => wreq'[v].provider \in ProviderNames
               /\ wreq'[v].at \in Checking => wreq'[v].provider \in Merged(providers)'
<1> DEFINE asked == [at |-> at, provider |-> p, model |-> model]
<1>1. /\ asked \in [at : {"idle"} \cup AskEnabled \cup Checking,
                    provider : Nat, model : Models \cup {""}]
      /\ asked.at = at /\ asked.provider = p
      /\ at \in AskEnabled => p \in ProviderNames
      /\ at \in Checking => p \in Merged(providers)
  BY DEF RequestGoes
<1>2. wreq' = [wreq EXCEPT ![w] = asked]
  BY DEF RequestGoes
<1> HIDE DEF asked
<1>3. Merged(providers)' = Merged(providers)
  BY DEF Merged
<1>4. wreq \in [SettingsReqs -> [at : {"idle"} \cup AskEnabled \cup Checking,
                                provider : Nat, model : Models \cup {""}]]
  BY DEF ProvidersInv, ProviderTypes
<1>5. ASSUME NEW v \in SettingsReqs
      PROVE  /\ wreq'[v].at \in AskEnabled => wreq'[v].provider \in ProviderNames
             /\ wreq'[v].at \in Checking => wreq'[v].provider \in Merged(providers)'
  <2>1. wreq'[v] = IF v = w THEN asked ELSE wreq[v]
    BY <1>2, <1>4
  <2> QED
    BY <1>1, <1>3, <2>1 DEF ProvidersInv, NamesRow
<1> QED
  BY <1>1, <1>2, <1>4, <1>5

LEMMA RequestAt ==
  ASSUME NEW r \in [at : {"idle"} \cup AskEnabled \cup Checking,
                   provider : Nat, model : Models \cup {""}],
         NEW to
  PROVE  [r EXCEPT !.at = to] = [at |-> to, provider |-> r.provider, model |-> r.model]
<1> DEFINE s == [r EXCEPT !.at = to]
           t == [at |-> to, provider |-> r.provider, model |-> r.model]
<1>1. DOMAIN r = {"at", "provider", "model"}
  OBVIOUS
<1>2. DOMAIN s = DOMAIN r
  OBVIOUS
<1>3. DOMAIN t = {"at", "provider", "model"}
  OBVIOUS
<1>4. s["at"] = to /\ s["provider"] = r.provider /\ s["model"] = r.model
  BY <1>1
<1>5. s = [f \in DOMAIN s |-> s[f]] /\ t = [f \in DOMAIN t |-> t[f]]
  OBVIOUS
<1>6. t["at"] = to /\ t["provider"] = r.provider /\ t["model"] = r.model
  OBVIOUS
<1> HIDE DEF s, t
<1> QED
  BY <1>1, <1>2, <1>3, <1>4, <1>5, <1>6

LEMMA ProviderRequestSteps ==
  ASSUME ProvidersInv, NEW w \in SettingsReqs,
         \/ PutTier(w) \/ PutRoleOverride(w) \/ CheckEnabled(w) \/ CheckModel(w)
         \/ RemoveRoleOverride(w) \/ WriteTier(w) \/ WriteRoleOverride(w)
  PROVE  ProvidersInv'
<1> DEFINE asked == wreq[w]
<1>1. /\ asked \in [at : {"idle"} \cup AskEnabled \cup Checking,
                    provider : Nat, model : Models \cup {""}]
      /\ asked.at \in AskEnabled => asked.provider \in ProviderNames
      /\ asked.at \in Checking => asked.provider \in Merged(providers)
      /\ asked = [at |-> asked.at, provider |-> asked.provider, model |-> asked.model]
      /\ wreq \in [SettingsReqs -> [at : {"idle"} \cup AskEnabled \cup Checking,
                                   provider : Nat, model : Models \cup {""}]]
  BY DEF ProvidersInv, ProviderTypes, NamesRow
<1>2. UNCHANGED <<providers, dispatch>>
  BY DEF PutTier, PutRoleOverride, CheckEnabled, CheckModel, RemoveRoleOverride,
         WriteTier, WriteRoleOverride
<1>3. override' = override \/ (override' \in Overrides /\ (override' # NoOverride
                                 => override'.provider \in Merged(providers)))
  <2>1. CASE WriteRoleOverride(w)
    <3>1. override' = [provider |-> asked.provider, model |-> asked.model]
          /\ asked.at = "role write"
      BY <2>1 DEF WriteRoleOverride
    <3>2. asked.provider \in Merged(providers) /\ asked.model \in Models \cup {""}
      BY <1>1, <3>1 DEF Checking
    <3>3. asked.provider \in ProviderNames
      BY <3>2 DEF Merged
    <3> QED
      BY <3>1, <3>2, <3>3 DEF Overrides
  <2>2. CASE RemoveRoleOverride(w)
    BY <2>2 DEF RemoveRoleOverride, Overrides
  <2> QED
    BY <2>1, <2>2 DEF PutTier, PutRoleOverride, CheckEnabled, CheckModel, WriteTier
<1>4. \E at, p, model : RequestGoes(w, at, p, model)
  <2>1. ASSUME NEW at \in Checking, asked.provider \in Merged(providers), ChecksOut(w, at)
        PROVE  RequestGoes(w, at, asked.provider, asked.model)
    <3>1. wreq' = [wreq EXCEPT ![w] = [at |-> at, provider |-> asked.provider,
                                       model |-> asked.model]]
      <4>1. wreq' = [wreq EXCEPT ![w] = [asked EXCEPT !.at = at]]
        BY <2>1 DEF ChecksOut
      <4>2. [asked EXCEPT !.at = at] = [at |-> at, provider |-> asked.provider,
                                        model |-> asked.model]
        BY <1>1, RequestAt
      <4> QED
        BY <4>1, <4>2
    <3>2. asked.provider \in Nat /\ asked.model \in Models \cup {""} /\ at \notin AskEnabled
      BY <1>1 DEF Checking, AskEnabled
    <3> QED
      BY <2>1, <3>1, <3>2 DEF RequestGoes
  <2>2. ASSUME Answers400(w)
        PROVE  RequestGoes(w, "idle", 0, "")
    BY <2>2 DEF Answers400, NoWrite, RequestGoes, AskEnabled, Checking
  <2>3. ASSUME NEW at \in AskEnabled, NEW p \in ProviderNames, NEW model \in Models \cup {""},
               Asks(w, at, p, model)
        PROVE  RequestGoes(w, at, p, model)
    <3>1. p \in Nat /\ at \notin Checking
      BY ProvidersAssumption DEF AskEnabled, Checking
    <3> QED
      BY <2>3, <3>1 DEF Asks, RequestGoes
  <2>4. CASE PutTier(w)
    <3>1. PICK p \in ProviderNames, model \in Models : Asks(w, "tier enabled?", p, model)
      BY <2>4 DEF PutTier
    <3> QED
      BY <2>3, <3>1 DEF AskEnabled
  <2>5. CASE PutRoleOverride(w)
    <3>1. PICK p \in ProviderNames, model \in Models \cup {""} :
             Asks(w, "role enabled?", p, model)
      BY <2>5 DEF PutRoleOverride
    <3> QED
      BY <2>3, <3>1 DEF AskEnabled
  <2>6. CASE RemoveRoleOverride(w)
    BY <2>2, <2>6 DEF RemoveRoleOverride, Asks, Answers400, NoWrite
  <2>7. CASE CheckEnabled(w)
    <3>1. asked.at \in AskEnabled /\ asked.provider \in ProviderNames
      BY <1>1, <2>7 DEF CheckEnabled, AskEnabled
    <3>2. CASE ~providers[asked.provider].enabled
      BY <2>2, <2>7, <3>2 DEF CheckEnabled
    <3>3. CASE providers[asked.provider].enabled
      <4>1. asked.provider \in Merged(providers)
        BY <3>1, <3>3, EnabledHasRow DEF ProvidersInv, ProviderTypes
      <4>2. ChecksOut(w, "tier model?") \/ ChecksOut(w, "role model?")
                                         \/ ChecksOut(w, "role write")
        BY <2>7, <3>3 DEF CheckEnabled
      <4>3. PICK at \in Checking : ChecksOut(w, at)
        BY <4>2 DEF Checking
      <4> QED
        BY <2>1, <4>1, <4>3
    <3> QED
      BY <3>2, <3>3
  <2>8. CASE CheckModel(w)
    <3>1. asked.provider \in Merged(providers)
      BY <1>1, <2>8 DEF CheckModel, Checking
    <3>2. \/ Answers400(w)
          \/ ChecksOut(w, "tier write") \/ ChecksOut(w, "role write")
      BY <2>8 DEF CheckModel
    <3>3. ASSUME NEW at \in Checking, ChecksOut(w, at)
          PROVE  \E x, p, model : RequestGoes(w, x, p, model)
      BY <2>1, <3>1, <3>3
    <3> QED
      BY <2>2, <3>2, <3>3 DEF Checking
  <2>9. CASE WriteTier(w) \/ WriteRoleOverride(w)
    BY <2>2, <2>9 DEF WriteTier, WriteRoleOverride
  <2> QED
    BY <2>4, <2>5, <2>6, <2>7, <2>8, <2>9
<1>5. /\ wreq' \in [SettingsReqs -> [at : {"idle"} \cup AskEnabled \cup Checking,
                                     provider : Nat, model : Models \cup {""}]]
      /\ \A v \in SettingsReqs :
            /\ wreq'[v].at \in AskEnabled => wreq'[v].provider \in ProviderNames
            /\ wreq'[v].at \in Checking => wreq'[v].provider \in Merged(providers)'
  <2>1. PICK at, p, model : RequestGoes(w, at, p, model)
    BY <1>4
  <2> QED
    BY <1>2, <2>1, RequestMoves
<1>6. Merged(providers)' = Merged(providers)
  BY <1>2 DEF Merged
<1>7. ProviderTypes'
  BY <1>2, <1>3, <1>5 DEF ProvidersInv, ProviderTypes
<1>8. NamesRow'
  BY <1>3, <1>5, <1>6 DEF ProvidersInv, NamesRow
<1>9. ReadInv' /\ UnknownOnlyNew'
  BY <1>2 DEF ProvidersInv, ReadInv, ReadOrNew, Merged, UnknownOnlyNew
<1> QED
  BY <1>7, <1>8, <1>9 DEF ProvidersInv

\* A provider that is created while a dispatch resolves is one of those created.
LEMMA PutProviderSteps ==
  ASSUME ProvidersInv, NEW w \in SettingsReqs, PutProvider(w)
  PROVE  ProvidersInv'
<1>1. PICK p \in ProviderNames, row \in ProviderRows :
         /\ Asks(w, "idle", 0, "")
         /\ UpsertProvider(p, row)
         /\ dispatch' = IF providers[p].row \/ dispatch.at # "overrides" THEN dispatch
                        ELSE [dispatch EXCEPT !.created = @ \cup {p}]
         /\ UNCHANGED <<tierModels, override>>
  BY DEF PutProvider
<1>2. /\ providers \in [ProviderNames -> ProviderRows \cup {NoProvider}]
      /\ providers' = [providers EXCEPT ![p] = row]
      /\ row.row = TRUE
  BY <1>1 DEF UpsertProvider, ProvidersInv, ProviderTypes, ProviderRows
<1>3. providers' \in [ProviderNames -> ProviderRows \cup {NoProvider}]
  BY <1>2
<1>4. Merged(providers') = Merged(providers) \cup {p}
  <2>1. ASSUME NEW q \in ProviderNames
        PROVE  providers'[q].row <=> (q = p \/ providers[q].row)
    BY <1>2
  <2> QED
    BY <2>1 DEF Merged
<1>5. wreq' = [wreq EXCEPT ![w] = NoWrite]
  BY <1>1 DEF Asks, NoWrite
<1>6. wreq \in [SettingsReqs -> [at : {"idle"} \cup AskEnabled \cup Checking,
                                provider : Nat, model : Models \cup {""}]]
  BY DEF ProvidersInv, ProviderTypes
<1>7. NoWrite \in [at : {"idle"} \cup AskEnabled \cup Checking,
                   provider : Nat, model : Models \cup {""}]
      /\ NoWrite.at \notin AskEnabled \cup Checking
  BY DEF NoWrite, AskEnabled, Checking
<1>8. \A v \in SettingsReqs : wreq'[v] = IF v = w THEN NoWrite ELSE wreq[v]
  BY <1>5, <1>6
<1>9. NamesRow'
  BY <1>1, <1>4, <1>7, <1>8 DEF ProvidersInv, NamesRow
<1>10. /\ dispatch'.at = dispatch.at /\ dispatch'.result = dispatch.result
       /\ dispatch'.providers = dispatch.providers /\ dispatch'.override = dispatch.override
       /\ dispatch.created \subseteq dispatch'.created
       /\ dispatch.at = "overrides" => p \in Merged(providers) \cup dispatch'.created
       /\ DOMAIN dispatch' = DOMAIN dispatch
  <2>1. CASE providers[p].row \/ dispatch.at # "overrides"
    BY <1>1, <2>1 DEF Merged
  <2>2. CASE ~(providers[p].row \/ dispatch.at # "overrides")
    <3>1. /\ DOMAIN dispatch = {"at", "providers", "override", "result", "created"}
          /\ dispatch' = [dispatch EXCEPT !.created = @ \cup {p}]
      BY <1>1, <2>2 DEF ProvidersInv, ProviderTypes
    <3>2. dispatch'.created = dispatch.created \cup {p}
      BY <3>1
    <3>3. \A f \in {"at", "providers", "override", "result"} : dispatch'[f] = dispatch[f]
      BY <3>1
    <3> QED
      BY <3>1, <3>2, <3>3
  <2> QED
    BY <1>1, <2>1, <2>2
<1>11. ProviderTypes'
  <2>1. wreq' \in [SettingsReqs -> [at : {"idle"} \cup AskEnabled \cup Checking,
                                   provider : Nat, model : Models \cup {""}]]
    BY <1>5, <1>6, <1>7
  <2> QED
    BY <1>1, <1>3, <1>10, <2>1 DEF ProvidersInv, ProviderTypes
<1>12. ReadOrNew \subseteq ReadOrNew'
  BY <1>10 DEF ReadOrNew, Merged
<1>13. dispatch.at = "overrides" => Merged(providers') \subseteq ReadOrNew'
  BY <1>4, <1>10, <1>12 DEF ProvidersInv, ReadInv, ReadOrNew
<1>14. ReadInv'
  BY <1>10, <1>12, <1>13 DEF ProvidersInv, ReadInv
<1>15. UnknownOnlyNew'
  BY <1>10 DEF ProvidersInv, UnknownOnlyNew
<1> QED
  BY <1>9, <1>11, <1>14, <1>15 DEF ProvidersInv

LEMMA DispatchSteps ==
  ASSUME ProvidersInv, ReadProviders \/ ReadOverrides \/ ReadTiers
  PROVE  ProvidersInv'
<1>1. UNCHANGED <<providers, override, wreq>>
  BY DEF ReadProviders, ReadOverrides, ReadTiers
<1>2. NamesRow' /\ Merged(providers)' = Merged(providers)
  BY <1>1 DEF ProvidersInv, NamesRow, Merged
<1>3. CASE ReadProviders
  <2>1. /\ dispatch'.at = "overrides" /\ dispatch'.providers = providers
        /\ dispatch'.result.end = "none"
        /\ DOMAIN dispatch' = {"at", "providers", "override", "result", "created"}
    BY <1>3 DEF ReadProviders, NoDispatch, Unresolved, Resolved
  <2> QED
    BY <1>1, <1>2, <2>1
       DEF ProvidersInv, ProviderTypes, ReadInv, ReadOrNew, Merged, UnknownOnlyNew
<1>4. CASE ReadOverrides
  <2>1. /\ dispatch.at = "overrides"
        /\ dispatch' = [dispatch EXCEPT !.at = "tiers", !.override = override]
        /\ DOMAIN dispatch = {"at", "providers", "override", "result", "created"}
        /\ DOMAIN dispatch' = DOMAIN dispatch
    BY <1>4 DEF ReadOverrides, ProvidersInv, ProviderTypes
  <2>2. dispatch'.at = "tiers" /\ dispatch'.override = override
        /\ dispatch'.providers = dispatch.providers /\ dispatch'.created = dispatch.created
        /\ dispatch'.result = dispatch.result
    BY <2>1
  <2>3. ReadOrNew' = ReadOrNew
    BY <2>2 DEF ReadOrNew, Merged
  <2> QED
    BY <1>1, <1>2, <2>1, <2>2, <2>3
       DEF ProvidersInv, ProviderTypes, ReadInv, UnknownOnlyNew, NamesRow
<1>5. CASE ReadTiers
  <2> DEFINE result == ResolveProvider(dispatch.providers, dispatch.override, tierModels)
  <2>1. /\ dispatch.at = "tiers"
        /\ dispatch' = [dispatch EXCEPT !.at = "resolved", !.result = result]
        /\ DOMAIN dispatch = {"at", "providers", "override", "result", "created"}
        /\ DOMAIN dispatch' = DOMAIN dispatch
    BY <1>5 DEF ReadTiers, ProvidersInv, ProviderTypes
  <2>2. dispatch'.at = "resolved" /\ dispatch'.result = result
        /\ dispatch'.providers = dispatch.providers /\ dispatch'.created = dispatch.created
    BY <2>1
  <2>3. dispatch.providers \in [ProviderNames -> ProviderRows \cup {NoProvider}]
    BY DEF ProvidersInv, ProviderTypes
  <2>4. result.end = "unknown" => /\ dispatch.override # NoOverride
                                  /\ result.provider = dispatch.override.provider
                                  /\ dispatch.override.provider \notin Merged(dispatch.providers)
    BY <2>3, UnknownIsOverride
  <2> HIDE DEF result
  <2>5. result.end = "unknown" => result.provider \in dispatch.created
    BY <2>1, <2>4 DEF ProvidersInv, ReadInv, ReadOrNew
  <2>6. UnknownOnlyNew'
    BY <2>2, <2>5 DEF UnknownOnlyNew
  <2>7. ReadInv'
    BY <2>2 DEF ReadInv
  <2>8. ProviderTypes'
    BY <1>1, <2>1, <2>2 DEF ProvidersInv, ProviderTypes
  <2> QED
    BY <1>2, <2>6, <2>7, <2>8 DEF ProvidersInv
<1> QED
  BY <1>3, <1>4, <1>5

LEMMA ProvidersStep == ProvidersInv /\ [ProvidersNext]_providerVars => ProvidersInv'
<1> SUFFICES ASSUME ProvidersInv, [ProvidersNext]_providerVars
             PROVE  ProvidersInv'
  OBVIOUS
<1>1. CASE UNCHANGED providerVars
  BY <1>1 DEF providerVars, ProvidersInv, ProviderTypes, NamesRow, ReadInv, ReadOrNew,
              Merged, UnknownOnlyNew
<1> QED
  BY <1>1, ProviderRequestSteps, PutProviderSteps, DispatchSteps DEF ProvidersNext

\* However the settings requests and a dispatch interleave, each in several
\* queries, a dispatch meets an unknown provider only in an override that was
\* written for one created meanwhile: no request deletes a provider, and an
\* override is checked against a row that stays (resolve.go, findProvider).
THEOREM UnknownIsNew == ProvidersSpec => []UnknownOnlyNew
<1>1. ProvidersInv => UnknownOnlyNew
  BY DEF ProvidersInv
<1> QED
  BY ProvidersStart, ProvidersStep, <1>1, PTL DEF ProvidersSpec

\* The settings page and a dispatch without an override resolve a tier alike in
\* every state: they sort and filter in different orders, but a provider that
\* is enabled has a row (handlers of /api/config/tiers; resolve.go, ResolveTier).
THEOREM ShownAlwaysUsed == ProvidersSpec => []ShownIsUsed
<1>1. ProvidersInv => ShownIsUsed
  <2> SUFFICES ASSUME ProvidersInv PROVE ShownIsUsed
    OBVIOUS
  <2>1. \A p \in ProviderNames : providers[p].enabled => p \in Merged(providers)
    BY EnabledHasRow DEF ProvidersInv, ProviderTypes
  <2>2. {p \in ProviderNames : tierModels[p] # "" /\ providers[p].enabled}
          = {p \in EnabledIn(providers) : tierModels[p] # ""}
    BY <2>1 DEF EnabledIn, Merged
  <2> DEFINE Least(able) == IF able = {} THEN 0
                             ELSE CHOOSE p \in able : \A q \in able : p <= q
  <2>3. ShownResolved(providers, tierModels)
          = Least({p \in ProviderNames : tierModels[p] # "" /\ providers[p].enabled})
    BY Zenon DEF ShownResolved
  <2>4. ResolveTier(providers, tierModels)
          = Least({p \in EnabledIn(providers) : tierModels[p] # ""})
    BY Zenon DEF ResolveTier
  <2> HIDE DEF Least
  <2> QED
    BY <2>2, <2>3, <2>4, Zenon DEF ShownIsUsed
<1> QED
  BY ProvidersStart, ProvidersStep, <1>1, PTL DEF ProvidersSpec

\* Where a resolution ends.
ResolvedEnds == {"none", "ok", "opencode", "unknown", "key unset"}

\* The rest of the types: the tiers, the count of requests and the dispatch; a
\* write of a tier names a model.
ProvidersBounds ==
    /\ tierModels \in [ProviderNames -> Models \cup {""}]
    /\ writes \in 0..MaxWrites
    /\ dispatch.at \in {"idle", "overrides", "tiers", "resolved"}
    /\ dispatch.result.end \in ResolvedEnds

LEMMA ResolvesAtEnd ==
  ASSUME NEW table, NEW chosen, NEW models
  PROVE  ResolveProvider(table, chosen, models).end \in ResolvedEnds
<1> DEFINE sole == CHOOSE p \in EnabledIn(table) : TRUE
           result == ResolveProvider(table, chosen, models)
<1>1. \A p, model : WithKey(table, p, model).end \in ResolvedEnds
  BY DEF WithKey, Resolved, ResolvedEnds
<1>2. CASE Merged(table) = {}
  <2>1. ResolveTier(table, models) = 0
    BY <1>2 DEF ResolveTier, EnabledIn
  <2>2. result = Resolved("opencode", 0, "")
    BY <1>2, <2>1 DEF ResolveProvider
  <2>3. Resolved("opencode", 0, "").end \in ResolvedEnds
    BY DEF Resolved, ResolvedEnds
  <2> QED
    BY <2>2, <2>3
<1>3. CASE Merged(table) # {} /\ chosen # NoOverride
  BY <1>1, <1>3 DEF ResolveProvider, Resolved, ResolvedEnds
<1>4. CASE Merged(table) # {} /\ chosen = NoOverride
  <2> DEFINE byTier == ResolveTier(table, models)
  <2>1. CASE byTier # 0
    <3>1. result = WithKey(table, byTier, models[byTier])
      BY <1>4, <2>1, Zenon DEF ResolveProvider
    <3> QED
      BY <1>1, <3>1
  <2>2. CASE byTier = 0
    <3>1. result = IF Cardinality(EnabledIn(table)) # 1 THEN Resolved("opencode", 0, "")
                   ELSE WithKey(table, sole, table[sole].default)
      BY <1>4, <2>2 DEF ResolveProvider
    <3>2. Resolved("opencode", 0, "").end \in ResolvedEnds
      BY DEF Resolved, ResolvedEnds
    <3> QED
      BY <1>1, <3>1, <3>2
  <2> QED
    BY <2>1, <2>2
<1> QED
  BY <1>2, <1>3, <1>4

LEMMA ProvidersBoundsKept ==
  ProvidersInv /\ ProvidersBounds /\ [ProvidersNext]_providerVars => ProvidersBounds'
<1> SUFFICES ASSUME ProvidersInv, ProvidersBounds, [ProvidersNext]_providerVars
             PROVE  ProvidersBounds'
  OBVIOUS
<1>1. MaxWrites \in Nat /\ writes \in 0..MaxWrites /\ ProviderNames \subseteq Nat
  BY ProvidersAssumption DEF ProvidersBounds
<1>2. writes' \in 0..MaxWrites
  <2>1. writes' = writes \/ (writes < MaxWrites /\ writes' = writes + 1)
    BY DEF ProvidersNext, providerVars, PutProvider, PutTier, PutRoleOverride,
           RemoveRoleOverride, Asks, CheckEnabled, CheckModel, WriteTier, WriteRoleOverride,
           ReadProviders, ReadOverrides, ReadTiers
  <2> QED
    BY <1>1, <2>1
<1>3. tierModels' \in [ProviderNames -> Models \cup {""}]
  <2>1. ASSUME NEW w \in SettingsReqs, WriteTier(w)
        PROVE  tierModels' \in [ProviderNames -> Models \cup {""}]
    <3>1. tierModels' = [tierModels EXCEPT ![wreq[w].provider] = wreq[w].model]
      BY <2>1 DEF WriteTier
    <3>2. wreq[w].model \in Models \cup {""}
      BY DEF ProvidersInv, ProviderTypes
    <3> QED
      BY <3>1, <3>2 DEF ProvidersBounds
  <2>2. (\E w \in SettingsReqs : WriteTier(w)) \/ UNCHANGED tierModels
    BY DEF ProvidersNext, providerVars, PutProvider, PutTier, PutRoleOverride,
           RemoveRoleOverride, CheckEnabled, CheckModel, WriteRoleOverride,
           ReadProviders, ReadOverrides, ReadTiers
  <2> QED
    BY <2>1, <2>2 DEF ProvidersBounds
<1>4. /\ dispatch'.at \in {"idle", "overrides", "tiers", "resolved"}
      /\ dispatch'.result.end \in ResolvedEnds
  <2>1. DOMAIN dispatch = {"at", "providers", "override", "result", "created"}
    BY DEF ProvidersInv, ProviderTypes
  <2>2. CASE ReadProviders
    BY <2>2 DEF ReadProviders, NoDispatch, Unresolved, Resolved, ResolvedEnds
  <2>3. CASE ReadOverrides
    <3>1. dispatch'.at = "tiers" /\ dispatch'.result = dispatch.result
      BY <2>1, <2>3 DEF ReadOverrides
    <3> QED
      BY <3>1 DEF ProvidersBounds
  <2>4. CASE ReadTiers
    <3> DEFINE result == ResolveProvider(dispatch.providers, dispatch.override, tierModels)
    <3>1. result.end \in ResolvedEnds
      BY ResolvesAtEnd
    <3>2. dispatch' = [dispatch EXCEPT !.at = "resolved", !.result = result]
      BY <2>4 DEF ReadTiers
    <3> HIDE DEF result
    <3>3. dispatch'.at = "resolved" /\ dispatch'.result = result
      BY <2>1, <3>2
    <3> QED
      BY <3>1, <3>3
  <2>5. ASSUME NEW w \in SettingsReqs, PutProvider(w)
        PROVE  dispatch'.at = dispatch.at /\ dispatch'.result = dispatch.result
    <3>1. PICK p \in ProviderNames :
             dispatch' = dispatch \/ dispatch' = [dispatch EXCEPT !.created = @ \cup {p}]
      BY <2>5 DEF PutProvider
    <3> QED
      BY <2>1, <3>1
  <2>6. (\E w \in SettingsReqs : PutProvider(w)) \/ ReadProviders \/ ReadOverrides
        \/ ReadTiers \/ UNCHANGED dispatch
    BY DEF ProvidersNext, providerVars, PutTier, PutRoleOverride, RemoveRoleOverride,
           CheckEnabled, CheckModel, WriteTier, WriteRoleOverride
  <2> QED
    BY <2>2, <2>3, <2>4, <2>5, <2>6 DEF ProvidersBounds
<1> QED
  BY <1>2, <1>3, <1>4 DEF ProvidersBounds

\* The tables of the providers, the requests and the dispatch have their types in
\* every state: the database holds no model for a provider it has no name of,
\* and a resolution ends in one of the four ways the dispatch tells apart
\* (config/store.go; resolve.go).
THEOREM ProvidersTypeCorrect == ProvidersSpec => []ProvidersTypeOK
<1>1. ProvidersInit => ProvidersBounds
  <2> SUFFICES ASSUME ProvidersInit PROVE ProvidersBounds
    OBVIOUS
  <2>1. tierModels \in [ProviderNames -> Models \cup {""}]
    BY ProvidersAssumption DEF ProvidersInit
  <2>3. writes \in 0..MaxWrites
    <3>1. MaxWrites \in Nat /\ writes = 0
      BY ProvidersAssumption DEF ProvidersInit
    <3> QED
      BY <3>1
  <2>2. dispatch.at = "idle" /\ dispatch.result.end = "none"
    BY DEF ProvidersInit, NoDispatch, Unresolved, Resolved
  <2> QED
    BY <2>1, <2>2, <2>3 DEF ProvidersBounds, ResolvedEnds
<1>2. ProvidersInv /\ ProvidersBounds => ProvidersTypeOK
  BY DEF ProvidersInv, ProviderTypes, ProvidersBounds, ProvidersTypeOK, ResolvedEnds,
         AskEnabled, Checking
<1> QED
  BY ProvidersStart, ProvidersStep, ProvidersBoundsKept, <1>1, <1>2, PTL DEF ProvidersSpec

-----------------------------------------------------------------------------
(* The repository registry.                                                *)

RepoCommand == [at : {"new", "discovering", "asking", "writing",
                      "exit 0", "exit 1", "exit 2"},
                repo : RegistryRepos \cup {""}, todo : SUBSET RegistryRepos]

RegistryTypes ==
    /\ registry \in [RegistryRepos -> {"absent", "found", "managed"}]
    /\ repoSettings \subseteq RegistryRepos
    /\ repoCmd \in [RepoCommands -> RepoCommand]

\* A `repo set` that is past its check is about a repository that is managed.
SetsManaged(cmd) ==
    cmd.at \in {"asking", "writing"} =>
       cmd.repo \in RegistryRepos /\ registry[cmd.repo] = "managed"

RegistryInv ==
    /\ RegistryTypes
    /\ \A k \in RepoCommands : SetsManaged(repoCmd[k])
    /\ SetOnlyManaged

\* No write takes a repository out of management.
StaysManaged ==
    /\ registry' \in [RegistryRepos -> {"absent", "found", "managed"}]
    /\ \A r \in RegistryRepos : registry[r] = "managed" => registry'[r] = "managed"

LEMMA RegistryStarts == RegistryInit => RegistryInv
<1> SUFFICES ASSUME RegistryInit
             PROVE  RegistryInv
  OBVIOUS
<1>1. NoCommand \in RepoCommand /\ SetsManaged(NoCommand)
  BY DEF RepoCommand, NoCommand, SetsManaged
<1>2. repoCmd = [k \in RepoCommands |-> NoCommand] /\ repoSettings = {}
  BY DEF RegistryInit
<1>3. registry \in [RegistryRepos -> {"absent", "found", "managed"}]
  BY DEF RegistryInit
<1> QED
  BY <1>1, <1>2, <1>3 DEF RegistryInv, RegistryTypes, SetOnlyManaged

\* A command starts: at a prompt, or about to write, of a managed repository.
LEMMA CommandStarts ==
  ASSUME RegistryInv, NEW k \in RepoCommands, StaysManaged,
         NEW at \in {"discovering", "asking", "writing", "exit 0", "exit 1", "exit 2"},
         NEW r \in RegistryRepos \cup {""}, NEW todo \in SUBSET RegistryRepos,
         at \in {"asking", "writing"} => r \in RegistryRepos /\ registry[r] = "managed",
         CmdStarts(k, at, r, todo), UNCHANGED repoSettings
  PROVE  RegistryInv'
<1> DEFINE cmd == [at |-> at, repo |-> r, todo |-> todo]
<1>1. cmd \in RepoCommand /\ cmd.at = at /\ cmd.repo = r
  BY DEF RepoCommand
<1>2. repoCmd' = [repoCmd EXCEPT ![k] = cmd]
  BY DEF CmdStarts
<1> HIDE DEF cmd
<1>3. SetsManaged(cmd)
  BY <1>1 DEF SetsManaged
<1>4. RegistryTypes'
  BY <1>1, <1>2 DEF RegistryInv, RegistryTypes, StaysManaged
<1>5. ASSUME NEW j \in RepoCommands PROVE SetsManaged(repoCmd[j])'
  <2>1. repoCmd'[j] = IF j = k THEN cmd ELSE repoCmd[j]
    BY <1>2 DEF RegistryInv, RegistryTypes
  <2> QED
    BY <1>3, <2>1 DEF RegistryInv, SetsManaged, StaysManaged
<1> QED
  BY <1>4, <1>5 DEF RegistryInv, RegistryTypes, SetOnlyManaged, StaysManaged

LEMMA CommandAt ==
  ASSUME NEW cmd \in RepoCommand, NEW to
  PROVE  [cmd EXCEPT !.at = to] = [at |-> to, repo |-> cmd.repo, todo |-> cmd.todo]
<1> DEFINE s == [cmd EXCEPT !.at = to]
           t == [at |-> to, repo |-> cmd.repo, todo |-> cmd.todo]
<1>1. DOMAIN cmd = {"at", "repo", "todo"}
  BY DEF RepoCommand
<1>2. DOMAIN s = DOMAIN cmd /\ DOMAIN t = {"at", "repo", "todo"}
  OBVIOUS
<1>3. s["at"] = to /\ s["repo"] = cmd.repo /\ s["todo"] = cmd.todo
  BY <1>1
<1>4. t["at"] = to /\ t["repo"] = cmd.repo /\ t["todo"] = cmd.todo
  OBVIOUS
<1>5. s = [f \in DOMAIN s |-> s[f]] /\ t = [f \in DOMAIN t |-> t[f]]
  OBVIOUS
<1> HIDE DEF s, t
<1> QED
  BY <1>1, <1>2, <1>3, <1>4, <1>5

\* A command that goes on, to any place but the prompt, after a check or not.
LEMMA CommandGoes ==
  ASSUME RegistryInv, NEW k \in RepoCommands,
         NEW at \in {"discovering", "writing", "exit 0", "exit 1", "exit 2"},
         CmdGoes(k, at), UNCHANGED registry, at = "writing" => repoCmd[k].at = "asking",
         UNCHANGED repoSettings \/ (/\ repoCmd[k].at = "writing"
                                    /\ repoSettings' = repoSettings \cup {repoCmd[k].repo})
  PROVE  RegistryInv'
<1> DEFINE cmd == [at |-> at, repo |-> repoCmd[k].repo, todo |-> repoCmd[k].todo]
<1>1. repoCmd[k] \in RepoCommand /\ SetsManaged(repoCmd[k])
  BY DEF RegistryInv, RegistryTypes
<1>2. cmd \in RepoCommand /\ cmd.at = at /\ cmd.repo = repoCmd[k].repo
  BY <1>1 DEF RepoCommand
<1>3. repoCmd' = [repoCmd EXCEPT ![k] = cmd]
  <2>1. repoCmd' = [repoCmd EXCEPT ![k] = [repoCmd[k] EXCEPT !.at = at]]
    BY DEF CmdGoes
  <2> QED
    BY <1>1, <2>1, CommandAt
<1> HIDE DEF cmd
<1>4. SetsManaged(cmd)
  BY <1>1, <1>2 DEF SetsManaged
<1>5. ASSUME NEW j \in RepoCommands PROVE SetsManaged(repoCmd[j])'
  <2>1. repoCmd'[j] = IF j = k THEN cmd ELSE repoCmd[j]
    BY <1>3 DEF RegistryInv, RegistryTypes
  <2> QED
    BY <1>4, <2>1 DEF RegistryInv, SetsManaged
<1>6. \A r \in repoSettings' : r \in RegistryRepos /\ registry[r] = "managed"
  BY <1>1 DEF RegistryInv, RegistryTypes, SetOnlyManaged, SetsManaged
<1> QED
  BY <1>2, <1>3, <1>5, <1>6 DEF RegistryInv, RegistryTypes, SetOnlyManaged

LEMMA RegistrySteps == RegistryInv /\ [RegistryNext]_registryVars => RegistryInv'
<1> SUFFICES ASSUME RegistryInv, [RegistryNext]_registryVars
             PROVE  RegistryInv'
  OBVIOUS
<1>1. UNCHANGED registry => StaysManaged
  BY DEF StaysManaged, RegistryInv, RegistryTypes
<1>2. CASE RepoTableNext \/ UNCHANGED registryVars
  <2>1. UNCHANGED <<registry, repoSettings, repoCmd>>
    BY <1>2 DEF RepoTableNext, CreateRepo, Reference, Unreference, CountReferences,
                DeleteRepo, registryVars
  <2> QED
    BY <2>1 DEF RegistryInv, RegistryTypes, SetsManaged, SetOnlyManaged
<1>3. ASSUME NEW k \in RepoCommands,
             \/ ListRepos(k) \/ ListFails(k) \/ UpsertRepoRegistry(k) \/ ListEnds(k)
             \/ ManageRepo(k) \/ DryRun(k) \/ RefuseField(k)
             \/ SetReadsRow(k) \/ Confirmed(k) \/ SetWrites(k)
      PROVE  RegistryInv'
  <2>1. repoCmd[k] \in RepoCommand /\ repoCmd[k].todo \in SUBSET RegistryRepos
    BY DEF RegistryInv, RegistryTypes, RepoCommand
  <2>2. CASE ListRepos(k) \/ ListFails(k) \/ DryRun(k) \/ RefuseField(k)
    <3>1. PICK at \in {"discovering", "exit 0", "exit 1", "exit 2"},
               todo \in SUBSET RegistryRepos : CmdStarts(k, at, "", todo)
      BY <2>2 DEF ListRepos, ListFails, DryRun, RefuseField
    <3>2. UNCHANGED <<registry, repoSettings>>
      BY <2>2 DEF ListRepos, ListFails, DryRun, RefuseField
    <3> QED
      BY <1>1, <3>1, <3>2, CommandStarts
  <2>3. CASE ManageRepo(k)
    <3>1. PICK r \in RegistryRepos :
             /\ CmdStarts(k, IF registry[r] = "absent" THEN "exit 1" ELSE "exit 0", r, {})
             /\ SetRepoManaged(r)
      BY <2>3 DEF ManageRepo
    <3>2. StaysManaged
      BY <3>1 DEF SetRepoManaged, StaysManaged, RegistryInv, RegistryTypes
    <3>3. PICK at \in {"exit 0", "exit 1"} : CmdStarts(k, at, r, {})
      BY <3>1
    <3>4. UNCHANGED repoSettings
      BY <2>3 DEF ManageRepo
    <3>5. /\ at \in {"discovering", "asking", "writing", "exit 0", "exit 1", "exit 2"}
          /\ r \in RegistryRepos \cup {""} /\ {} \in SUBSET RegistryRepos
          /\ at \notin {"asking", "writing"}
      OBVIOUS
    <3> QED
      BY <3>2, <3>3, <3>4, <3>5, CommandStarts
  <2>4. CASE SetReadsRow(k)
    <3>1. PICK r \in RegistryRepos : \E at \in IF registry[r] # "managed" THEN {"exit 1"}
                 ELSE {"exit 0", "asking", "writing"} : CmdStarts(k, at, r, {})
      BY <2>4 DEF SetReadsRow
    <3>2. PICK at \in {"exit 0", "exit 1", "asking", "writing"} :
             /\ CmdStarts(k, at, r, {})
             /\ at \in {"asking", "writing"} => registry[r] = "managed"
      BY <3>1
    <3>3. UNCHANGED <<registry, repoSettings>>
      BY <2>4 DEF SetReadsRow
    <3>4. /\ at \in {"discovering", "asking", "writing", "exit 0", "exit 1", "exit 2"}
          /\ r \in RegistryRepos \cup {""} /\ {} \in SUBSET RegistryRepos
      OBVIOUS
    <3> QED
      BY <1>1, <3>2, <3>3, <3>4, CommandStarts
  <2>5. CASE UpsertRepoRegistry(k)
    <3>1. PICK r \in repoCmd[k].todo :
             /\ registry' = [registry EXCEPT ![r] = IF @ = "absent" THEN "found" ELSE @]
             /\ repoCmd' = [repoCmd EXCEPT ![k].todo = @ \ {r}]
      BY <2>5 DEF UpsertRepoRegistry
    <3>2. repoCmd[k].at = "discovering" /\ UNCHANGED repoSettings
      BY <2>5 DEF UpsertRepoRegistry, CmdAt
    <3>3. StaysManaged
      BY <2>1, <3>1 DEF StaysManaged, RegistryInv, RegistryTypes
    <3>4. ASSUME NEW j \in RepoCommands
          PROVE  /\ repoCmd'[j].at = repoCmd[j].at /\ repoCmd'[j].repo = repoCmd[j].repo
                 /\ repoCmd'[j] \in RepoCommand
      <4>1. repoCmd'[j] = IF j = k THEN [repoCmd[k] EXCEPT !.todo = @ \ {r}] ELSE repoCmd[j]
        BY <3>1 DEF RegistryInv, RegistryTypes
      <4>2. repoCmd[j] \in RepoCommand
        BY DEF RegistryInv, RegistryTypes
      <4>3. CASE j = k
        <5>1. repoCmd'[k] = [repoCmd[k] EXCEPT !.todo = @ \ {r}]
          BY <4>1, <4>3
        <5>2. repoCmd[k].todo \ {r} \in SUBSET RegistryRepos
          BY <4>2, <4>3 DEF RepoCommand
        <5> QED
          BY <4>2, <4>3, <5>1, <5>2 DEF RepoCommand
      <4>4. CASE j # k
        BY <4>1, <4>2, <4>4
      <4> QED
        BY <4>3, <4>4
    <3>5. repoCmd' \in [RepoCommands -> RepoCommand]
      BY <3>1, <3>4 DEF RegistryInv, RegistryTypes
    <3>6. \A j \in RepoCommands : SetsManaged(repoCmd[j])'
      BY <3>3, <3>4 DEF RegistryInv, SetsManaged, StaysManaged
    <3> QED
      BY <3>2, <3>3, <3>5, <3>6
         DEF RegistryInv, RegistryTypes, SetOnlyManaged, StaysManaged
  <2>6. CASE ListEnds(k)
    <3>1. CmdGoes(k, "exit 0") /\ UNCHANGED <<registry, repoSettings>>
      BY <2>6 DEF ListEnds
    <3> QED
      BY <3>1, CommandGoes
  <2>7. CASE Confirmed(k)
    <3>1. /\ repoCmd[k].at = "asking" /\ UNCHANGED <<registry, repoSettings>>
          /\ CmdGoes(k, "writing") \/ CmdGoes(k, "exit 1")
      BY <2>7 DEF Confirmed, CmdAt
    <3> QED
      BY <3>1, CommandGoes
  <2>8. CASE SetWrites(k)
    <3>1. /\ repoCmd[k].at = "writing" /\ UNCHANGED registry
          /\ \/ repoSettings' = repoSettings \cup {repoCmd[k].repo} /\ CmdGoes(k, "exit 0")
             \/ UNCHANGED repoSettings /\ CmdGoes(k, "exit 1")
      BY <2>8 DEF SetWrites, CmdAt
    <3> QED
      BY <3>1, CommandGoes
  <2> QED
    BY <1>3, <2>2, <2>3, <2>4, <2>5, <2>6, <2>7, <2>8
<1> QED
  BY <1>2, <1>3 DEF RegistryNext, RepoCommandNext

\* Only a managed repository ever has settings, though `repo set` checks it
\* before a prompt that may wait for ever and writes without checking again:
\* neither discovery nor `repo manage` takes a repository out of management
\* (repo.go, repoSet; repo_registry_store.go).
THEOREM SettingsOnlyManaged == RegistrySpec => []SetOnlyManaged
<1>1. RegistryInv => SetOnlyManaged
  BY DEF RegistryInv
<1> QED
  BY RegistryStarts, RegistrySteps, <1>1, PTL DEF RegistrySpec

\* The rest of the types: the repos table and the delete requests.
RegistryBounds ==
    /\ repoTable \subseteq RegistryRepos /\ referenced \subseteq RegistryRepos
    /\ deletion \in [DeleteReqs -> [at : {"new", "unreferenced", "204", "404", "409"},
                                    repo : RegistryRepos \cup {""}]]

LEMMA RegistryBoundsKept ==
  RegistryBounds /\ [RegistryNext]_registryVars => RegistryBounds'
<1> SUFFICES ASSUME RegistryBounds, [RegistryNext]_registryVars
             PROVE  RegistryBounds'
  OBVIOUS
<1>1. CASE UNCHANGED Tables
  BY <1>1 DEF RegistryBounds, Tables
<1>2. CASE CreateRepo \/ Reference \/ Unreference
  BY <1>2 DEF RegistryBounds, CreateRepo, InsertRepo, Reference, Unreference
<1>3. ASSUME NEW d \in DeleteReqs, CountReferences(d)
      PROVE  RegistryBounds'
  <2>1. PICK r \in RegistryRepos, at \in {"409", "unreferenced"} :
           deletion' = [deletion EXCEPT ![d] = [at |-> at, repo |-> r]]
    BY <1>3 DEF CountReferences
  <2> QED
    BY <1>3, <2>1 DEF RegistryBounds, CountReferences
<1>4. ASSUME NEW d \in DeleteReqs, DeleteRepo(d)
      PROVE  RegistryBounds'
  BY <1>4 DEF RegistryBounds, DeleteRepo
<1>5. RepoCommandNext => UNCHANGED Tables
  BY DEF RepoCommandNext, ListRepos, ListFails, UpsertRepoRegistry, ListEnds, ManageRepo,
         DryRun, RefuseField, SetReadsRow, Confirmed, SetWrites
<1> QED
  BY <1>1, <1>2, <1>3, <1>4, <1>5 DEF RegistryNext, RepoTableNext, registryVars, Tables

\* The two tables of repositories, the commands and the delete requests have
\* their types in every state: settings and references are of repositories there
\* are, and a command ends with one of its three exit codes (repo.go).
THEOREM RegistryTypeCorrect == RegistrySpec => []RegistryTypeOK
<1>1. RegistryInit => RegistryBounds
  <2>1. [at |-> "new", repo |-> ""] \in [at : {"new", "unreferenced", "204", "404", "409"},
                                        repo : RegistryRepos \cup {""}]
    OBVIOUS
  <2> QED
    BY <2>1 DEF RegistryInit, RegistryBounds
<1>2. RegistryInv /\ RegistryBounds => RegistryTypeOK
  BY DEF RegistryInv, RegistryTypes, RepoCommand, RegistryBounds, RegistryTypeOK
<1> QED
  BY RegistryStarts, RegistrySteps, RegistryBoundsKept, <1>1, <1>2, PTL DEF RegistrySpec

-----------------------------------------------------------------------------
(* The feature defaults.                                                   *)

CreateRequest == [at : {"new", "repo row", "repo exists?", "global", "refused", "created"},
                  repos : BOOLEAN, given : BOOLEAN,
                  read : RepoPuts \cup {""}, repo : RepoPuts \cup {""},
                  scope : GlobalPuts \cup RepoPuts \cup {""}]

DefaultsTypes ==
    /\ DOMAIN globalRows \subseteq GlobalPuts
    /\ \A i \in DOMAIN globalRows : globalRows[i] \in GlobalPuts
    /\ repoRow \in RepoPuts \cup {"none"}
    /\ dput \in [DefaultWrites -> {"new", "insert", "answered"}]
    /\ \A w \in DefaultWrites : dput[w] = "insert" => w \in GlobalPuts
    /\ creates \in [Creates -> CreateRequest]

\* What is answered before another begins is answered; and a write that began
\* after it was answered has overwritten it, in every row there is.
OverwrittenInv ==
    \A x, y : <<x, y>> \in before =>
       /\ x \in DefaultWrites /\ dput[x] = "answered"
       /\ x \in GlobalPuts /\ y \in GlobalPuts =>
             \A i \in DOMAIN globalRows : globalRows[i] # x
       /\ x \in RepoPuts /\ y \in RepoPuts \cup RepoDeletes => repoRow \in {"none"} \/ repoRow # x

\* Nothing that a create has read was replaced before the create began.
ReadCurrent(c) ==
    /\ creates[c].read # "" => ~ReplacedBefore(creates[c].read, c)
    /\ creates[c].repo # "" => ~ReplacedBefore(creates[c].repo, c)
    /\ creates[c].scope # "" => ~ReplacedBefore(creates[c].scope, c)

DefaultsInv ==
    /\ DefaultsTypes
    /\ OverwrittenInv
    /\ \A c \in Creates : ReadCurrent(c)

LEMMA DefaultsStart == DefaultsInit => DefaultsInv
<1> SUFFICES ASSUME DefaultsInit
             PROVE  DefaultsInv
  OBVIOUS
<1>1. NoCreate \in CreateRequest
      /\ NoCreate.read = "" /\ NoCreate.repo = "" /\ NoCreate.scope = ""
  BY DEF NoCreate, CreateRequest
<1>2. /\ creates = [c \in Creates |-> NoCreate] /\ before = {}
      /\ repoRow = "none" /\ dput = [w \in DefaultWrites |-> "new"]
      /\ globalRows = [i \in {} |-> ""]
  BY DEF DefaultsInit
<1> QED
  BY <1>1, <1>2 DEF DefaultsInv, DefaultsTypes, OverwrittenInv, ReadCurrent

\* y begins, a write or a create: the new pairs end in y.
LEMMA NewPairs ==
  ASSUME DefaultsTypes, NEW y, FollowsAnswered(y), NEW a, NEW b, <<a, b>> \in before',
         <<a, b>> \notin before
  PROVE  b = y /\ a \in DefaultWrites /\ dput[a] = "answered" /\ SameRow(a, y)
BY DEF FollowsAnswered, AnsweredWrites, Answered

\* What was not replaced before a create began is not replaced later, either:
\* a write after which another began does not begin again.
LEMMA StaysUnreplaced ==
  ASSUME DefaultsInv, NEW c \in Creates, NEW x, ~ReplacedBefore(x, c),
         \/ UNCHANGED before
         \/ \E y \in DefaultWrites : dput[y] = "new" /\ FollowsAnswered(y)
         \/ \E y \in Creates \ {c} : FollowsAnswered(y)
  PROVE  ~ReplacedBefore(x, c)'
<1>1. CASE UNCHANGED before
  BY <1>1 DEF ReplacedBefore
<1>2. ASSUME NEW y \in DefaultWrites \cup Creates, FollowsAnswered(y), y # c,
             y \in DefaultWrites => dput[y] = "new",
             NEW w \in DefaultWrites, <<x, w>> \in before', <<w, c>> \in before'
      PROVE  <<x, w>> \in before /\ <<w, c>> \in before
  <2>1. <<w, c>> \in before
    BY <1>2, NewPairs DEF DefaultsInv
  <2>2. dput[w] = "answered"
    BY <2>1 DEF DefaultsInv, OverwrittenInv
  <2>3. w # y
    BY <1>2, <2>2, DefaultsAssumption DEF DefaultWrites
  <2> QED
    BY <1>2, <2>1, <2>3, NewPairs DEF DefaultsInv
<1>3. ASSUME NEW y \in DefaultWrites \cup Creates, FollowsAnswered(y), y # c,
             y \in DefaultWrites => dput[y] = "new"
      PROVE  ~ReplacedBefore(x, c)'
  BY <1>2, <1>3 DEF ReplacedBefore, DefaultWrites
<1>4. \A y \in DefaultWrites : y # c
  BY DefaultsAssumption DEF DefaultWrites
<1>5. \A y \in Creates : y \notin DefaultWrites
  BY DefaultsAssumption DEF DefaultWrites
<1> QED
  BY <1>1, <1>3, <1>4, <1>5

LEMMA DefaultWriteSteps ==
  ASSUME DefaultsInv, NEW w \in DefaultWrites,
         PutGlobal(w) \/ InsertGlobal(w) \/ PutForRepo(w) \/ DeleteForRepo(w)
  PROVE  DefaultsInv'
<1>1. UNCHANGED creates
  BY DEF PutGlobal, InsertGlobal, PutForRepo, DeleteForRepo
<1>2. dput[w] # "answered" /\ dput \in [DefaultWrites -> {"new", "insert", "answered"}]
      /\ repoRow \in RepoPuts \cup {"none"}
  BY DEF PutGlobal, InsertGlobal, PutForRepo, DeleteForRepo, DefaultsInv, DefaultsTypes
<1>3. UNCHANGED before \/ (dput[w] = "new" /\ FollowsAnswered(w))
  BY DEF PutGlobal, InsertGlobal, PutForRepo, DeleteForRepo
<1>4. \A c \in Creates : ReadCurrent(c)'
  BY <1>1, <1>3, StaysUnreplaced DEF DefaultsInv, ReadCurrent
<1>5. \E to \in {"insert", "answered"} : /\ dput' = [dput EXCEPT ![w] = to]
                                         /\ to = "insert" => w \in GlobalPuts
  BY DEF PutGlobal, UpdateGlobal, InsertGlobal, PutForRepo, DeleteForRepo
<1>6. /\ dput' \in [DefaultWrites -> {"new", "insert", "answered"}]
      /\ \A v \in DefaultWrites : dput'[v] = "insert" => v \in GlobalPuts
      /\ \A v \in DefaultWrites : dput[v] = "answered" => dput'[v] = "answered"
  BY <1>2, <1>5 DEF DefaultsInv, DefaultsTypes
<1>7. CASE PutGlobal(w)
  <2>1. /\ globalRows' = [i \in DOMAIN globalRows |-> w] /\ w \in GlobalPuts
        /\ UNCHANGED repoRow /\ FollowsAnswered(w)
    BY <1>7 DEF PutGlobal, UpdateGlobal
  <2>2. DefaultsTypes'
    BY <1>1, <1>6, <2>1 DEF DefaultsInv, DefaultsTypes
  <2>3. ASSUME NEW x, NEW y, <<x, y>> \in before'
        PROVE  /\ x \in DefaultWrites /\ dput'[x] = "answered"
               /\ x \in GlobalPuts /\ y \in GlobalPuts =>
                     \A i \in DOMAIN globalRows' : globalRows'[i] # x
               /\ x \in RepoPuts /\ y \in RepoPuts \cup RepoDeletes =>
                     repoRow' \in {"none"} \/ repoRow' # x
    <3>1. x \in DefaultWrites /\ dput[x] = "answered"
      BY <2>1, <2>3, NewPairs DEF DefaultsInv, OverwrittenInv
    <3>2. y \in RepoPuts \cup RepoDeletes => <<x, y>> \in before
      BY <2>1, <2>3, NewPairs, DefaultsAssumption DEF DefaultsInv
    <3>3. x # w
      BY <1>2, <3>1
    <3> QED
      BY <1>6, <2>1, <3>1, <3>2, <3>3 DEF DefaultsInv, OverwrittenInv
  <2> QED
    BY <1>4, <2>2, <2>3 DEF DefaultsInv, OverwrittenInv
<1>8. CASE InsertGlobal(w)
  <2>1. /\ globalRows' = [i \in DOMAIN globalRows \cup {w} |->
                             IF i = w THEN w ELSE globalRows[i]]
        /\ UNCHANGED <<repoRow, before>> /\ w \in GlobalPuts
    BY <1>8 DEF InsertGlobal, DefaultsInv, DefaultsTypes
  <2>2. /\ DOMAIN globalRows' = DOMAIN globalRows \cup {w}
        /\ \A i \in DOMAIN globalRows' : globalRows'[i] = w \/ (/\ i \in DOMAIN globalRows
                                                      /\ globalRows'[i] = globalRows[i])
    BY <2>1
  <2>3. DefaultsTypes'
    BY <1>1, <1>6, <2>1, <2>2 DEF DefaultsInv, DefaultsTypes
  <2>4. OverwrittenInv'
    BY <1>2, <1>6, <2>1, <2>2 DEF DefaultsInv, OverwrittenInv
  <2> QED
    BY <1>4, <2>3, <2>4 DEF DefaultsInv
<1>9. CASE PutForRepo(w) \/ DeleteForRepo(w)
  <2>1. /\ repoRow' = w \/ repoRow' = "none"
        /\ repoRow' \in RepoPuts \cup {"none"} /\ w \notin GlobalPuts
        /\ UNCHANGED globalRows /\ FollowsAnswered(w)
    BY <1>9, DefaultsAssumption DEF PutForRepo, DeleteForRepo
  <2>2. DefaultsTypes'
    BY <1>1, <1>6, <2>1 DEF DefaultsInv, DefaultsTypes
  <2>3. ASSUME NEW x, NEW y, <<x, y>> \in before'
        PROVE  /\ x \in DefaultWrites /\ dput'[x] = "answered"
               /\ x \in GlobalPuts /\ y \in GlobalPuts =>
                     \A i \in DOMAIN globalRows' : globalRows'[i] # x
               /\ x \in RepoPuts /\ y \in RepoPuts \cup RepoDeletes =>
                     repoRow' \in {"none"} \/ repoRow' # x
    <3>1. x \in DefaultWrites /\ dput[x] = "answered"
      BY <2>1, <2>3, NewPairs DEF DefaultsInv, OverwrittenInv
    <3>2. y \in GlobalPuts => <<x, y>> \in before
      BY <2>1, <2>3, NewPairs DEF DefaultsInv
    <3>3. x # w
      BY <1>2, <3>1
    <3> QED
      BY <1>6, <2>1, <3>1, <3>2, <3>3 DEF DefaultsInv, OverwrittenInv
  <2> QED
    BY <1>4, <2>2, <2>3 DEF DefaultsInv, OverwrittenInv
<1> QED
  BY <1>7, <1>8, <1>9

\* A create moves on, with what it read: no row is written.
LEMMA CreateMoves ==
  ASSUME DefaultsInv, NEW c \in Creates, NEW create \in CreateRequest,
         creates' = [creates EXCEPT ![c] = create],
         UNCHANGED <<globalRows, repoRow, dput>>,
         UNCHANGED before \/ FollowsAnswered(c),
         create.read # "" => ~ReplacedBefore(create.read, c)',
         create.repo # "" => ~ReplacedBefore(create.repo, c)',
         create.scope # "" => ~ReplacedBefore(create.scope, c)'
  PROVE  DefaultsInv'
<1>1. /\ creates' \in [Creates -> CreateRequest] /\ creates'[c] = create
      /\ \A d \in Creates \ {c} : creates'[d] = creates[d]
  BY DEF DefaultsInv, DefaultsTypes
<1>2. DefaultsTypes'
  BY <1>1 DEF DefaultsInv, DefaultsTypes
<1>3. ASSUME NEW d \in Creates, d # c PROVE ReadCurrent(d)'
  <2>1. ReadCurrent(d)
    BY DEF DefaultsInv
  <2> QED
    BY <1>1, <1>3, <2>1, StaysUnreplaced DEF ReadCurrent
<1>4. ReadCurrent(c)'
  BY <1>1 DEF ReadCurrent
<1>5. ASSUME NEW x, NEW y, <<x, y>> \in before'
      PROVE  \/ <<x, y>> \in before
             \/ x \in DefaultWrites /\ dput[x] = "answered" /\ y \in Creates
  <2>1. CASE FollowsAnswered(c) /\ <<x, y>> \notin before
    <3>1. y = c /\ x \in DefaultWrites /\ dput[x] = "answered"
      BY <1>5, <2>1 DEF FollowsAnswered, AnsweredWrites, Answered
    <3> QED
      BY <3>1
  <2> QED
    BY <1>5, <2>1
<1>6. \A y \in Creates : y \notin DefaultWrites
  BY DefaultsAssumption DEF DefaultWrites
<1>7. OverwrittenInv'
  BY <1>5, <1>6 DEF DefaultsInv, OverwrittenInv, DefaultWrites
<1> QED
  BY <1>2, <1>3, <1>4, <1>7 DEF DefaultsInv

\* What the rows hold is not replaced before any create.
LEMMA RowsCurrent ==
  ASSUME DefaultsInv, NEW c \in Creates
  PROVE  /\ \A field \in ReadGlobal : field # "" =>
               field \in GlobalPuts /\ ~ReplacedBefore(field, c)
         /\ Field(repoRow) # "" =>
               Field(repoRow) \in RepoPuts /\ ~ReplacedBefore(Field(repoRow), c)
<1>1. ASSUME NEW field \in ReadGlobal, field # ""
      PROVE  field \in GlobalPuts /\ ~ReplacedBefore(field, c)
  <2>1. PICK i \in DOMAIN globalRows : field = globalRows[i]
    BY <1>1 DEF ReadGlobal, Field
  <2> QED
    BY <2>1 DEF DefaultsInv, DefaultsTypes, OverwrittenInv, ReplacedBefore
<1>2. ASSUME Field(repoRow) # ""
      PROVE  Field(repoRow) \in RepoPuts /\ ~ReplacedBefore(Field(repoRow), c)
  <2>1. Field(repoRow) = repoRow /\ repoRow # "none" /\ repoRow \in RepoPuts
    BY <1>2 DEF Field, DefaultsInv, DefaultsTypes
  <2>2. repoRow \notin GlobalPuts
    BY <2>1, DefaultsAssumption
  <2> QED
    BY <2>1, <2>2 DEF DefaultsInv, OverwrittenInv, ReplacedBefore
<1> QED
  BY <1>1, <1>2

LEMMA CreateSteps ==
  ASSUME DefaultsInv, NEW c \in Creates,
         CreateBegins(c) \/ ReadRepoRow(c) \/ RepoRowExists(c) \/ CreateSaves(c)
  PROVE  DefaultsInv'
<1> DEFINE create == creates[c]
<1>1. create \in CreateRequest /\ ReadCurrent(c)
  BY DEF DefaultsInv, DefaultsTypes
<1>2. CASE CreateBegins(c)
  <2>1. PICK forRepos \in BOOLEAN, given \in BOOLEAN,
             at \in {"repo row", "global", "refused"} :
           creates' = [creates EXCEPT ![c] = [NoCreate EXCEPT
                         !.at = at, !.repos = forRepos, !.given = given]]
    BY <1>2 DEF CreateBegins
  <2> DEFINE begun == [NoCreate EXCEPT !.at = at, !.repos = forRepos, !.given = given]
  <2>2. begun \in CreateRequest /\ begun.read = "" /\ begun.repo = "" /\ begun.scope = ""
    BY DEF NoCreate, CreateRequest
  <2>3. UNCHANGED <<globalRows, repoRow, dput>> /\ FollowsAnswered(c)
    BY <1>2 DEF CreateBegins
  <2>4. creates' = [creates EXCEPT ![c] = begun]
    BY <2>1
  <2> HIDE DEF begun
  <2> QED
    BY <2>2, <2>3, <2>4, CreateMoves
<1>3. ASSUME UNCHANGED <<globalRows, repoRow, dput, before>>, NEW next \in CreateRequest,
             creates' = [creates EXCEPT ![c] = next],
             next.read = create.read \/ ~ReplacedBefore(next.read, c) \/ next.read = "",
             next.repo = create.repo \/ next.repo = create.read \/ next.repo = "",
             \/ next.scope = create.scope \/ next.scope = create.repo \/ next.scope = ""
             \/ ~ReplacedBefore(next.scope, c)
      PROVE  DefaultsInv'
  <2>1. \A x : ~ReplacedBefore(x, c) => ~ReplacedBefore(x, c)'
    BY <1>3 DEF ReplacedBefore
  <2>2. /\ next.read # "" => ~ReplacedBefore(next.read, c)
        /\ next.repo # "" => ~ReplacedBefore(next.repo, c)
        /\ next.scope # "" => ~ReplacedBefore(next.scope, c)
    BY <1>1, <1>3 DEF ReadCurrent
  <2> QED
    BY <1>3, <2>1, <2>2, CreateMoves
<1>4. CASE ReadRepoRow(c)
  <2> DEFINE next == [create EXCEPT !.at = "repo exists?", !.read = Field(repoRow)]
  <2>1. /\ creates' = [creates EXCEPT ![c] = next]
        /\ UNCHANGED <<globalRows, repoRow, dput, before>>
    BY <1>4 DEF ReadRepoRow
  <2>2. Field(repoRow) \in RepoPuts \cup {""}
        /\ (Field(repoRow) = "" \/ ~ReplacedBefore(Field(repoRow), c))
    BY RowsCurrent
  <2>3. /\ next \in CreateRequest /\ next.read = Field(repoRow)
        /\ next.repo = create.repo /\ next.scope = create.scope
    BY <1>1, <2>2 DEF CreateRequest
  <2> HIDE DEF next
  <2> QED
    BY <1>3, <2>1, <2>2, <2>3
<1>5. CASE RepoRowExists(c)
  <2>1. PICK repo \in {"", create.read} :
           creates' = [creates EXCEPT ![c].at = "global", ![c].repo = repo]
    BY <1>5 DEF RepoRowExists
  <2> DEFINE next == [create EXCEPT !.at = "global", !.repo = repo]
  <2>2. /\ creates' = [creates EXCEPT ![c] = next]
        /\ UNCHANGED <<globalRows, repoRow, dput, before>>
    BY <1>5, <2>1 DEF RepoRowExists
  <2>3. /\ next \in CreateRequest /\ next.read = create.read
        /\ next.repo \in {"", create.read} /\ next.scope = create.scope
    BY <1>1 DEF CreateRequest
  <2> HIDE DEF next
  <2> QED
    BY <1>3, <2>2, <2>3
<1>6. CASE CreateSaves(c)
  <2>1. PICK field \in ReadGlobal :
           creates' = [creates EXCEPT ![c].at = "created",
                         ![c].scope = IF create.given THEN ""
                                      ELSE IF create.repo # "" THEN create.repo ELSE field]
    BY <1>6 DEF CreateSaves
  <2>2. PICK scope \in {"", create.repo, field} :
           creates' = [creates EXCEPT ![c].at = "created", ![c].scope = scope]
    BY <2>1
  <2> DEFINE next == [create EXCEPT !.at = "created", !.scope = scope]
  <2>3. /\ creates' = [creates EXCEPT ![c] = next]
        /\ UNCHANGED <<globalRows, repoRow, dput, before>>
    BY <1>6, <2>2 DEF CreateSaves
  <2>4. field = "" \/ (field \in GlobalPuts /\ ~ReplacedBefore(field, c))
    BY RowsCurrent
  <2>5. /\ next \in CreateRequest /\ next.read = create.read
        /\ next.repo = create.repo /\ next.scope \in {"", create.repo, field}
    BY <1>1, <2>4 DEF CreateRequest
  <2> HIDE DEF next
  <2> QED
    BY <1>3, <2>3, <2>4, <2>5
<1> QED
  BY <1>2, <1>4, <1>5, <1>6

LEMMA DefaultsSteps == DefaultsInv /\ [DefaultsNext]_defaultsVars => DefaultsInv'
<1> SUFFICES ASSUME DefaultsInv, [DefaultsNext]_defaultsVars
             PROVE  DefaultsInv'
  OBVIOUS
<1>1. CASE UNCHANGED defaultsVars
  BY <1>1 DEF defaultsVars, DefaultsInv, DefaultsTypes, OverwrittenInv, ReadCurrent,
              ReplacedBefore
<1> QED
  BY <1>1, DefaultWriteSteps, CreateSteps DEF DefaultsNext

\* A feature never takes its scope from a default that had been replaced, or
\* deleted, before its creation began: a write of the global default that
\* begins after another was answered overwrites every row there is, so that two
\* first writes may leave two rows, but never a row older than both (store.go,
\* upsert; server.go, createFeature).
THEOREM CreatedAlwaysFromCurrent == DefaultsSpec => []CreatedFromCurrent
<1>1. DefaultsInv => CreatedFromCurrent
  BY DEF DefaultsInv, ReadCurrent, CreatedFromCurrent
<1> QED
  BY DefaultsStart, DefaultsSteps, <1>1, PTL DEF DefaultsSpec

LEMMA BeforeKept ==
  ASSUME before \subseteq DefaultWrites \X (DefaultWrites \cup Creates),
         [DefaultsNext]_defaultsVars
  PROVE  before' \subseteq DefaultWrites \X (DefaultWrites \cup Creates)
<1>1. ASSUME NEW x \in DefaultWrites \cup Creates, FollowsAnswered(x)
      PROVE  before' \subseteq DefaultWrites \X (DefaultWrites \cup Creates)
  BY <1>1 DEF FollowsAnswered, AnsweredWrites
<1>2. ASSUME NEW w \in DefaultWrites,
             PutGlobal(w) \/ InsertGlobal(w) \/ PutForRepo(w) \/ DeleteForRepo(w)
      PROVE  FollowsAnswered(w) \/ UNCHANGED before
  BY <1>2 DEF PutGlobal, InsertGlobal, PutForRepo, DeleteForRepo
<1>3. ASSUME NEW c \in Creates,
             CreateBegins(c) \/ ReadRepoRow(c) \/ RepoRowExists(c) \/ CreateSaves(c)
      PROVE  FollowsAnswered(c) \/ UNCHANGED before
  BY <1>3 DEF CreateBegins, ReadRepoRow, RepoRowExists, CreateSaves
<1> QED
  BY <1>1, <1>2, <1>3 DEF DefaultsNext, defaultsVars

\* The rows of the defaults and the requests have their types in every state: a
\* row holds what a request of its own kind wrote, and a created feature's scope
\* comes from such a row (settings/defaults/store.go; server.go, createFeature).
THEOREM DefaultsTypeCorrect == DefaultsSpec => []DefaultsTypeOK
<1> DEFINE Before == before \subseteq DefaultWrites \X (DefaultWrites \cup Creates)
<1>1. DefaultsInit => Before
  BY DEF DefaultsInit
<1>2. Before /\ [DefaultsNext]_defaultsVars => Before'
  BY BeforeKept
<1>3. DefaultsInv /\ Before => DefaultsTypeOK
  BY DEF DefaultsInv, DefaultsTypes, CreateRequest, DefaultsTypeOK
<1> HIDE DEF Before
<1> QED
  BY DefaultsStart, DefaultsSteps, <1>1, <1>2, <1>3, PTL DEF DefaultsSpec

-----------------------------------------------------------------------------
(* The migrations.                                                         *)

\* A set of naturals has a least element: by the well-founded order of finite
\* sets, each number standing for those up to it.
LEMMA LeastOfNaturals ==
  ASSUME NEW T \in SUBSET Nat, T # {}
  PROVE  \E x \in T : \A y \in T : x <= y
<1> DEFINE upTo == {1..x : x \in T}
<1>1. upTo \subseteq FiniteSubsetsOf(Nat)
  <2>1. ASSUME NEW x \in T PROVE (1..x) \in FiniteSubsetsOf(Nat)
    BY FS_Interval DEF FiniteSubsetsOf
  <2> QED
    BY <2>1
<1>2. PICK u \in upTo : \A v \in upTo : ~(<<v, u>> \in StrictSubsetOrdering(Nat))
  <2>1. upTo # {}
    OBVIOUS
  <2> HIDE DEF upTo
  <2> QED
    BY <1>1, <2>1, WFMin, FS_StrictSubsetOrderingWellFounded
<1>3. PICK x \in T : u = 1..x
  OBVIOUS
<1>4. ASSUME NEW y \in T, y < x PROVE FALSE
  <2>1. (1..y) \subseteq (1..x) /\ x \in 1..x /\ x \notin 1..y
    BY <1>4
  <2>2. <<1..y, u>> \in StrictSubsetOrdering(Nat)
    BY <1>3, <2>1 DEF StrictSubsetOrdering
  <2> QED
    BY <1>2, <2>2
<1> QED
  BY <1>4

OpenerState == [at : {"new", "read", "up", "record", "commit", "seeding", "repos",
                      "opened", "exited"},
                applied : SUBSET Versions, version : Nat, todo : SUBSET YamlRepos]

BootTypes ==
    /\ schemaMigrations \subseteq Versions
    /\ upCommitted \in [Versions -> Nat]
    /\ opener \in [Openers -> OpenerState]

\* Who is at a version has every version before it behind it; nobody commits
\* one that is recorded, and who is past the last one found them all.
OpenerOK(p) ==
    /\ p.applied \subseteq schemaMigrations
    /\ p.at \in {"up", "record", "commit"} =>
          p.version \in Versions /\ \A v \in Versions : v < p.version => v \in schemaMigrations
    /\ p.at = "commit" => p.version \notin schemaMigrations
    /\ p.at \in {"seeding", "repos", "opened"} => Versions \subseteq schemaMigrations

RecordedOnce ==
    /\ \A v \in Versions : upCommitted[v] = IF v \in schemaMigrations THEN 1 ELSE 0
    /\ \A v \in schemaMigrations : \A u \in Versions : u < v => u \in schemaMigrations

\* No two processes are about to commit one version: the INSERT of the second
\* waits for the first.
OneCommits ==
    \A o, p \in Openers :
       opener[o].at = "commit" /\ opener[p].at = "commit" /\ o # p
          => opener[o].version # opener[p].version

BootInv ==
    /\ BootTypes
    /\ RecordedOnce
    /\ \A o \in Openers : OpenerOK(opener[o])
    /\ OneCommits

LEMMA BootStarts == BootInit => BootInv
<1> SUFFICES ASSUME BootInit
             PROVE  BootInv
  OBVIOUS
<1>1. NoOpener \in OpenerState /\ OpenerOK(NoOpener) /\ NoOpener.at = "new"
  BY DEF NoOpener, OpenerState, OpenerOK
<1>2. /\ schemaMigrations = {} /\ upCommitted = [v \in Versions |-> 0]
      /\ opener = [o \in Openers |-> NoOpener]
  BY DEF BootInit
<1> HIDE DEF NoOpener
<1> QED
  BY <1>1, <1>2 DEF BootInv, BootTypes, RecordedOnce, OneCommits

\* The next pending version: what is before it was applied, and without one all
\* was.
LEMMA NextPendingIs ==
  ASSUME NEW o \in Openers, NEW v \in Nat
  PROVE  /\ NextPending(o, v) = 0 => \A x \in Versions : x > v => x \in opener[o].applied
         /\ NextPending(o, v) # 0 =>
               /\ NextPending(o, v) \in Versions
               /\ \A x \in Versions :
                     x > v /\ x < NextPending(o, v) => x \in opener[o].applied
<1> DEFINE todo == {x \in Versions : x > v /\ x \notin opener[o].applied}
<1>1. todo \in SUBSET Nat /\ todo \subseteq Versions /\ 0 \notin todo
  BY BootAssumption DEF Versions
<1>2. CASE todo = {}
  BY <1>2 DEF NextPending
<1>3. CASE todo # {}
  <2> DEFINE next == CHOOSE x \in todo : \A y \in todo : x <= y
  <2>1. NextPending(o, v) = next
    BY <1>3 DEF NextPending
  <2>2. \E x \in todo : \A y \in todo : x <= y
    BY <1>1, <1>3, LeastOfNaturals
  <2>3. next \in todo /\ \A y \in todo : next <= y
    BY <2>2, Zenon
  <2> HIDE DEF next
  <2>4. ASSUME NEW x \in Versions, x > v, x < next, x \notin opener[o].applied
        PROVE  FALSE
    <3>1. x \in todo /\ x \in Nat /\ next \in Nat
      BY <1>1, <2>3, <2>4
    <3> QED
      BY <2>3, <2>4, <3>1
  <2> QED
    BY <1>1, <2>1, <2>3, <2>4
<1> QED
  BY <1>2, <1>3

\* One process moves and no version is recorded.
LEMMA OpenerMoves ==
  ASSUME BootInv, NEW o \in Openers, NEW next \in OpenerState, OpenerOK(next),
         opener' = [opener EXCEPT ![o] = next],
         next.at = "commit" =>
            \A p \in Openers : opener[p].at = "commit" => opener[p].version # next.version,
         UNCHANGED <<schemaMigrations, upCommitted>>
  PROVE  BootInv'
<1>1. \A p \in Openers : opener'[p] = IF p = o THEN next ELSE opener[p]
  BY DEF BootInv, BootTypes
<1>2. BootTypes' /\ RecordedOnce'
  BY DEF BootInv, BootTypes, RecordedOnce
<1>3. \A p \in Openers : OpenerOK(opener[p])'
  BY <1>1 DEF BootInv, OpenerOK
<1>4. OneCommits'
  BY <1>1 DEF BootInv, OneCommits
<1> QED
  BY <1>2, <1>3, <1>4 DEF BootInv

\* Where a process goes after version v, with what it had read as applied.
AfterTurn(o, v) ==
    [opener[o] EXCEPT !.version = NextPending(o, v),
                      !.at = IF NextPending(o, v) # 0 THEN "up"
                             ELSE IF o \in Servers THEN "seeding" ELSE "opened"]

LEMMA TurnIsGood ==
  ASSUME BootInv, NEW o \in Openers, NEW v \in Nat, NEW rows \in SUBSET Versions,
         schemaMigrations \subseteq rows,
         \A x \in Versions : x <= v => x \in rows
  PROVE  /\ AfterTurn(o, v) \in OpenerState
         /\ AfterTurn(o, v).applied \subseteq rows
         /\ AfterTurn(o, v).at \in {"up", "seeding", "opened"}
         /\ AfterTurn(o, v).at = "up" =>
               /\ AfterTurn(o, v).version \in Versions
               /\ \A x \in Versions : x < AfterTurn(o, v).version => x \in rows
         /\ AfterTurn(o, v).at # "up" => Versions \subseteq rows
<1> DEFINE next == NextPending(o, v)
<1>1. /\ opener[o] \in OpenerState /\ opener[o].applied \subseteq rows
  BY DEF BootInv, BootTypes, OpenerOK
<1>2. Versions \subseteq Nat
  BY BootAssumption DEF Versions
<1>3. /\ next = 0 => \A x \in Versions : x > v => x \in opener[o].applied
      /\ next # 0 => /\ next \in Versions
                     /\ \A x \in Versions : x > v /\ x < next => x \in opener[o].applied
  BY NextPendingIs
<1> HIDE DEF next
<1>4. next \in Nat
  <2>1. CASE next = 0
    BY <2>1
  <2> QED
    BY <1>2, <1>3, <2>1
<1>5. PICK at \in {"up", "seeding", "opened"} :
         /\ AfterTurn(o, v) = [opener[o] EXCEPT !.version = next, !.at = at]
         /\ at = "up" <=> next # 0
  BY DEF AfterTurn, next
<1>6. /\ AfterTurn(o, v) \in OpenerState /\ AfterTurn(o, v).at = at
      /\ AfterTurn(o, v).version = next /\ AfterTurn(o, v).applied = opener[o].applied
  BY <1>1, <1>4, <1>5 DEF OpenerState
<1>7. \A x \in Versions : x <= v \/ x > v
  BY <1>2
<1> QED
  BY <1>1, <1>3, <1>5, <1>6, <1>7

LEMMA BootSteps == BootInv /\ [BootNext]_bootVars => BootInv'
<1> SUFFICES ASSUME BootInv, [BootNext]_bootVars
             PROVE  BootInv'
  OBVIOUS
<1>1. CASE UNCHANGED bootVars
  BY <1>1 DEF bootVars, BootInv, BootTypes, RecordedOnce, OpenerOK, OneCommits
<1>2. ASSUME NEW o \in Openers,
             \/ ReadApplied(o) \/ FirstPending(o) \/ UpRuns(o) \/ RecordMigration(o)
             \/ CommitMigration(o) \/ CountRepos(o) \/ SeedRepo(o) \/ StartServing(o)
             \/ Killed(o)
      PROVE  BootInv'
  <2> DEFINE p == opener[o]
  <2>1. p \in OpenerState /\ OpenerOK(p) /\ opener \in [Openers -> OpenerState]
    BY DEF BootInv, BootTypes
  <2>2. ASSUME NEW at \in {"record", "commit", "opened", "exited"}, Moves(o, at),
               UNCHANGED <<schemaMigrations, upCommitted>>,
               at \in {"record", "commit"} => p.at \in {"up", "record"},
               at = "opened" => p.at = "repos",
               at = "commit" =>
                  /\ p.version \notin schemaMigrations
                  /\ \A q \in Openers : opener[q].at = "commit" => opener[q].version # p.version
        PROVE  BootInv'
    <3> DEFINE next == [p EXCEPT !.at = at]
    <3>1. opener' = [opener EXCEPT ![o] = next]
      BY <2>2 DEF Moves
    <3>2. /\ next \in OpenerState /\ next.at = at /\ next.version = p.version
          /\ next.applied = p.applied
      BY <2>1 DEF OpenerState
    <3> HIDE DEF next
    <3>3. OpenerOK(next)
      BY <2>1, <2>2, <3>2 DEF OpenerOK
    <3> QED
      BY <2>2, <3>1, <3>2, <3>3, OpenerMoves
  <2>3. CASE ReadApplied(o)
    <3> DEFINE next == [p EXCEPT !.applied = schemaMigrations, !.at = "read"]
    <3>1. /\ opener' = [opener EXCEPT ![o] = next]
          /\ UNCHANGED <<schemaMigrations, upCommitted>>
      BY <2>3 DEF ReadApplied
    <3>2. next \in OpenerState /\ next.at = "read" /\ next.applied = schemaMigrations
      BY <2>1 DEF OpenerState, BootInv, BootTypes
    <3> HIDE DEF next
    <3> QED
      BY <3>1, <3>2, OpenerMoves DEF OpenerOK
  <2>4. CASE FirstPending(o)
    <3>1. /\ opener' = [opener EXCEPT ![o] = AfterTurn(o, 0)]
          /\ UNCHANGED <<schemaMigrations, upCommitted>>
      BY <2>4 DEF FirstPending, Turns, AfterTurn
    <3>2. \A x \in Versions : x <= 0 => x \in schemaMigrations
      BY BootAssumption DEF Versions
    <3>3. schemaMigrations \in SUBSET Versions /\ 0 \in Nat
      BY DEF BootInv, BootTypes
    <3>4. OpenerOK(AfterTurn(o, 0)) /\ AfterTurn(o, 0).at # "commit"
                                    /\ AfterTurn(o, 0) \in OpenerState
      BY <3>2, <3>3, TurnIsGood DEF OpenerOK
    <3> QED
      BY <3>1, <3>4, OpenerMoves
  <2>5. CASE UpRuns(o)
    <3>1. p.at = "up" /\ UNCHANGED <<schemaMigrations, upCommitted>>
          /\ (Moves(o, "record") \/ Moves(o, "exited"))
      BY <2>5 DEF UpRuns, At
    <3> QED
      BY <2>2, <3>1
  <2>6. CASE RecordMigration(o)
    <3>1. /\ p.at = "record" /\ UNCHANGED <<schemaMigrations, upCommitted>>
          /\ \A q \in Openers : opener[q].at = "commit" => opener[q].version # p.version
      BY <2>6 DEF RecordMigration, At
    <3>2. \/ Moves(o, "exited")
          \/ Moves(o, "commit") /\ p.version \notin schemaMigrations
      BY <2>6 DEF RecordMigration
    <3> QED
      BY <2>2, <3>1, <3>2
  <2>7. CASE CommitMigration(o)
    <3>0. PICK v, next : v = p.version /\ next = AfterTurn(o, v)
      OBVIOUS
    <3>1. /\ p.at = "commit"
          /\ schemaMigrations' = schemaMigrations \cup {v}
          /\ upCommitted' = [upCommitted EXCEPT ![v] = @ + 1]
          /\ opener' = [opener EXCEPT ![o] = next]
      BY <2>7, <3>0 DEF CommitMigration, Turns, AfterTurn, At
    <3>2. /\ v \in Versions /\ v \in Nat /\ v \notin schemaMigrations
          /\ \A x \in Versions : x < v => x \in schemaMigrations
          /\ schemaMigrations \subseteq Versions /\ Versions \subseteq Nat
      BY <2>1, <3>0, <3>1, BootAssumption DEF OpenerOK, BootInv, BootTypes, Versions
    <3>3. \A x \in Versions : x <= v => x \in schemaMigrations'
      BY <3>1, <3>2
    <3>4. OpenerOK(next)' /\ next \in OpenerState /\ next.at # "commit"
      <4>1. schemaMigrations' \in SUBSET Versions
        BY <3>1, <3>2
      <4>2. /\ next \in OpenerState /\ next.applied \subseteq schemaMigrations'
            /\ next.at \in {"up", "seeding", "opened"}
            /\ next.at = "up" =>
                  /\ next.version \in Versions
                  /\ \A x \in Versions : x < next.version => x \in schemaMigrations'
            /\ next.at # "up" => Versions \subseteq schemaMigrations'
        BY <3>0, <3>1, <3>2, <3>3, <4>1, TurnIsGood
      <4> QED
        BY <4>2 DEF OpenerOK
    <3>5. \A q \in Openers : opener'[q] = IF q = o THEN next ELSE opener[q]
      BY <2>1, <3>1
    <3>6. ASSUME NEW q \in Openers PROVE OpenerOK(opener[q])'
      <4>1. q # o /\ opener[q].at = "commit" => opener[q].version # v
        BY <3>0, <3>1 DEF BootInv, OneCommits
      <4>2. OpenerOK(opener[q])
        BY DEF BootInv
      <4> QED
        BY <3>1, <3>2, <3>4, <3>5, <4>1, <4>2 DEF OpenerOK
    <3>7. BootTypes'
      BY <2>1, <3>1, <3>2, <3>4 DEF BootInv, BootTypes
    <3>8. RecordedOnce'
      BY <3>1, <3>2 DEF BootInv, BootTypes, RecordedOnce
    <3>9. OneCommits'
      BY <3>4, <3>5 DEF BootInv, OneCommits
    <3> QED
      BY <3>6, <3>7, <3>8, <3>9 DEF BootInv
  <2>8. CASE CountRepos(o)
    <3>1. PICK todo \in SUBSET YamlRepos : 
             opener' = [opener EXCEPT ![o].todo = todo, ![o].at = "repos"]
      BY <2>8 DEF CountRepos
    <3> DEFINE next == [p EXCEPT !.todo = todo, !.at = "repos"]
    <3>2. opener' = [opener EXCEPT ![o] = next]
      BY <3>1
    <3>3. next \in OpenerState /\ next.at = "repos" /\ next.applied = p.applied
      BY <2>1 DEF OpenerState
    <3> HIDE DEF next
    <3> QED
      BY <2>1, <2>8, <3>2, <3>3, OpenerMoves DEF OpenerOK, CountRepos, At
  <2>9. CASE SeedRepo(o)
    <3>1. PICK r \in p.todo : opener' = [opener EXCEPT ![o].todo = @ \ {r}]
      BY <2>9 DEF SeedRepo
    <3> DEFINE next == [p EXCEPT !.todo = @ \ {r}]
    <3>2. opener' = [opener EXCEPT ![o] = next]
      BY <3>1
    <3>3. next \in OpenerState /\ next.at = p.at /\ next.applied = p.applied
      BY <2>1 DEF OpenerState
    <3> HIDE DEF next
    <3> QED
      BY <2>1, <2>9, <3>2, <3>3, OpenerMoves DEF OpenerOK, SeedRepo, At
  <2>10. CASE StartServing(o)
    <3>1. /\ p.at = "repos" /\ UNCHANGED <<schemaMigrations, upCommitted>>
          /\ (Moves(o, "opened") \/ Moves(o, "exited"))
      BY <2>10 DEF StartServing, At
    <3> QED
      BY <2>2, <3>1
  <2>11. CASE Killed(o)
    <3>1. PICK next \in {NoOpener, [NoOpener EXCEPT !.at = "exited"]} :
             opener' = [opener EXCEPT ![o] = next]
      BY <2>11 DEF Killed
    <3>2. next \in OpenerState /\ next.at \in {"new", "exited"} /\ next.applied = {}
      BY DEF NoOpener, OpenerState
    <3>3. UNCHANGED <<schemaMigrations, upCommitted>>
      BY <2>11 DEF Killed
    <3> QED
      BY <3>1, <3>2, <3>3, OpenerMoves DEF OpenerOK
  <2> QED
    BY <1>2, <2>3, <2>4, <2>5, <2>6, <2>7, <2>8, <2>9, <2>10, <2>11
<1> QED
  BY <1>1, <1>2 DEF BootNext

\* Each migration is committed exactly when it is recorded, once and in order,
\* and whoever gets past migrate works on the complete schema, for any number
\* of processes that migrate side by side and are killed at any step
\* (migrations.go, migrate).
THEOREM AlwaysMigratedOnce == BootSpec => []MigratedOnce
<1>1. BootInv => MigratedOnce
  <2> SUFFICES ASSUME BootInv PROVE MigratedOnce
    OBVIOUS
  <2>1. ASSUME NEW v \in schemaMigrations PROVE 1..v \subseteq schemaMigrations
    <3>1. v \in Versions
      BY DEF BootInv, BootTypes
    <3>2. \A u \in 1..v : u \in Versions /\ (u < v \/ u = v)
      BY <3>1, BootAssumption DEF Versions
    <3> QED
      BY <3>2 DEF BootInv, RecordedOnce
  <2> QED
    BY <2>1 DEF BootInv, BootTypes, RecordedOnce, OpenerOK, MigratedOnce
<1> QED
  BY BootStarts, BootSteps, <1>1, PTL DEF BootSpec

\* The rest of the types: the repos table, and the counters' bounds.
BootBounds ==
    /\ repos \subseteq YamlRepos /\ killed \in 0..MaxKilled
    /\ \A o \in Openers : opener[o].version \in 0..NumVersions

LEMMA BootBoundsKept ==
  BootInv /\ BootBounds /\ [BootNext]_bootVars => BootBounds'
<1> SUFFICES ASSUME BootInv, BootBounds, [BootNext]_bootVars
             PROVE  BootBounds'
  OBVIOUS
<1>1. /\ MaxKilled \in Nat /\ NumVersions \in Nat
      /\ opener \in [Openers -> OpenerState]
  BY BootAssumption DEF BootInv, BootTypes
<1>2. killed' \in 0..MaxKilled
  <2>1. killed' = killed \/ (killed < MaxKilled /\ killed' = killed + 1)
    BY DEF BootNext, bootVars, ReadApplied, FirstPending, UpRuns, RecordMigration,
           CommitMigration, CountRepos, SeedRepo, StartServing, Killed
  <2> QED
    BY <1>1, <2>1 DEF BootBounds
<1>3. repos' \subseteq YamlRepos
  <2>1. ASSUME NEW o \in Openers, SeedRepo(o)
        PROVE  repos' \subseteq YamlRepos
    BY <1>1, <2>1 DEF SeedRepo, OpenerState, BootBounds
  <2>2. (\E o \in Openers : SeedRepo(o)) \/ repos' = repos
    BY DEF BootNext, bootVars, ReadApplied, FirstPending, UpRuns, RecordMigration,
           CommitMigration, CountRepos, StartServing, Killed
  <2> QED
    BY <2>1, <2>2 DEF BootBounds
<1>4. ASSUME NEW o \in Openers
      PROVE  opener'[o].version \in 0..NumVersions
  <2>1. opener[o].version \in 0..NumVersions /\ 0 \in 0..NumVersions
    BY <1>1 DEF BootBounds
  <2>2. ASSUME NEW p \in Openers, NEW v \in Nat, Turns(p, v)
        PROVE  opener'[o].version \in 0..NumVersions
    <3>1. PICK at : opener' = [opener EXCEPT ![p].version = NextPending(p, v), ![p].at = at]
      BY <2>2 DEF Turns
    <3>2. NextPending(p, v) \in 0..NumVersions
      BY <1>1, NextPendingIs DEF Versions
    <3>3. opener[p] \in OpenerState
      BY <1>1
    <3>4. opener'[o] = IF o = p THEN [opener[p] EXCEPT !.version = NextPending(p, v), !.at = at]
                       ELSE opener[o]
      BY <1>1, <3>1
    <3> QED
      BY <2>1, <3>2, <3>3, <3>4 DEF OpenerState
  <2>3. ASSUME NEW p \in Openers, FirstPending(p) \/ CommitMigration(p)
        PROVE  \E v \in Nat : Turns(p, v)
    <3>1. opener[p].version \in Nat /\ 0 \in Nat
      BY <1>1 DEF OpenerState
    <3> QED
      BY <2>3, <3>1 DEF FirstPending, CommitMigration
  <2>4. ASSUME NEW p \in Openers,
               \/ ReadApplied(p) \/ UpRuns(p) \/ RecordMigration(p)
               \/ CountRepos(p) \/ SeedRepo(p) \/ StartServing(p)
        PROVE  opener'[o].version = opener[o].version
    <3>1. opener[p] \in OpenerState
      BY <1>1
    <3>2. CASE \E at : Moves(p, at)
      BY <1>1, <3>1, <3>2 DEF Moves, OpenerState
    <3>3. CASE ReadApplied(p)
      BY <1>1, <3>1, <3>3 DEF ReadApplied, OpenerState
    <3>4. CASE CountRepos(p)
      <4>1. PICK todo : opener' = [opener EXCEPT ![p].todo = todo, ![p].at = "repos"]
        BY <3>4 DEF CountRepos
      <4> QED
        BY <1>1, <3>1, <4>1 DEF OpenerState
    <3>5. CASE SeedRepo(p)
      BY <1>1, <3>1, <3>5 DEF SeedRepo, OpenerState
    <3> QED
      BY <2>4, <3>2, <3>3, <3>4, <3>5 DEF UpRuns, RecordMigration, StartServing
  <2>5. ASSUME NEW p \in Openers, Killed(p)
        PROVE  opener'[o].version \in 0..NumVersions
    <3>1. PICK next \in {NoOpener, [NoOpener EXCEPT !.at = "exited"]} :
             opener' = [opener EXCEPT ![p] = next]
      BY <2>5 DEF Killed
    <3>2. next.version = 0
      BY DEF NoOpener
    <3> QED
      BY <1>1, <2>1, <3>1, <3>2
  <2> QED
    BY <2>1, <2>2, <2>3, <2>4, <2>5 DEF BootNext, bootVars
<1> QED
  BY <1>2, <1>3, <1>4 DEF BootBounds

\* The tables and processes of a start have their types in every state: no
\* process is at a version beyond the last migration, whatever it read before
\* another recorded more, and only repositories of repos.yaml are seeded
\* (migrations.go; seed.go, SeedReposFromYAML).
THEOREM BootTypeCorrect == BootSpec => []BootTypeOK
<1>1. BootInit => BootBounds
  <2> SUFFICES ASSUME BootInit PROVE BootBounds
    OBVIOUS
  <2>1. repos = {} /\ killed = 0 /\ \A o \in Openers : opener[o].version = 0
    BY DEF BootInit, NoOpener
  <2>2. 0 \in 0..MaxKilled /\ 0 \in 0..NumVersions
    BY BootAssumption
  <2> QED
    BY <2>1, <2>2 DEF BootBounds
<1>2. BootInv /\ BootBounds => BootTypeOK
  BY DEF BootInv, BootTypes, OpenerState, BootBounds, BootTypeOK
<1> QED
  BY BootStarts, BootSteps, BootBoundsKept, <1>1, <1>2, PTL DEF BootSpec

-----------------------------------------------------------------------------
(* The tmux sessions.                                                      *)

SessionRows == {NoRow} \cup [state : SessionStates, stage : 0..Len(SessionPath)]
RunLabels == {"idle", "checking", "marking", "starting", "resolving", "launching",
              "agent", "reviewer", "gate", "answered"}
Launched == {"launching", "agent", "reviewer"}

SessionTypes ==
    /\ tmuxRow \in [SessionKey -> SessionRows]
    /\ alive \subseteq SessionKey /\ place \in Places
    /\ rpc \in [Runners -> RunLabels]
    /\ runs \in [Runners -> [stage : Places, bolt : {key.bolt : key \in SessionKey}]]
    /\ loose \subseteq SessionPhases /\ unsaved \subseteq SessionKey

BoltKey(bolt) == [phase |-> BoltPhase, bolt |-> bolt]

\* The session has its row, or it is known that the row could not be saved.
Recorded(key) == tmuxRow[key] # NoRow \/ key \in unsaved
OfThisPhase(key) == key.phase \in loose \/ key.phase = SessionPath[place].phase

\* A RunStage is about a session the feature may have; it comes to the launch
\* with a row, or without one that could not be saved, and it is about the
\* feature's current stage, unless it is a resume, whose phase is known to be one
\* where the user resumed.
RunnerOK(x) ==
    /\ BoltKey(runs[x].bolt) \in SessionKey
    /\ rpc[x] \in Launched => Recorded(RunKey(x))
    /\ x = "loop" /\ rpc[x] # "idle" => runs[x].stage = place
    /\ x \in Resumes /\ rpc[x] \notin {"idle", "answered"} =>
          SessionPath[runs[x].stage].phase \in loose

SessionInv ==
    /\ SessionTypes
    /\ \A x \in Runners : RunnerOK(x)
    /\ AliveKnown /\ PhaseSessionsEnd

\* Rows are written and never deleted, and the new ones are of phases that may
\* have sessions.
RowsStay ==
    /\ tmuxRow' \in [SessionKey -> SessionRows]
    /\ unsaved \subseteq unsaved' /\ unsaved' \subseteq SessionKey
    /\ \A key \in SessionKey :
          /\ tmuxRow[key] # NoRow => tmuxRow'[key] # NoRow
          /\ tmuxRow[key] = NoRow => tmuxRow'[key] = NoRow \/ OfThisPhase(key)

LEMMA StageShape ==
  ASSUME NEW i \in Places
  PROVE  /\ SessionPath[i] = [phase |-> SessionPath[i].phase, bolt |-> SessionPath[i].bolt]
         /\ SessionPath[i].bolt \in Nat
         /\ SessionPath[i].phase # BoltPhase => SessionPath[i].bolt = 0
         /\ SessionPath[i] \in SessionKey /\ SessionPath[i].phase \in SessionPhases
BY WalkAssumption DEF SessionKey, SessionPhases

LEMMA PlacesAre == /\ Len(SessionPath) \in Nat /\ 1 \in Places /\ Places \subseteq Nat
                   /\ \A i \in Places : i \in 0..Len(SessionPath)
                   /\ \A i \in 0..Len(SessionPath) : i # 0 => i \in Places
BY WalkAssumption DEF Places

\* A row that is written is a row.
LEMMA RowIsRow ==
  ASSUME NEW state \in SessionStates, NEW i \in 0..Len(SessionPath)
  PROVE  SessionRow(state, i) \in SessionRows /\ SessionRow(state, i) # NoRow
<1>1. SessionRow(state, i).state = state /\ NoRow.state = "none"
  BY DEF SessionRow, NoRow
<1>2. state # "none"
  BY DEF SessionStates
<1>3. SessionRow(state, i) # NoRow
  BY <1>1, <1>2
<1> QED
  BY <1>3 DEF SessionRow, SessionRows

LEMMA GreatestOfNaturals ==
  ASSUME NEW n \in Nat, NEW T \in SUBSET (1..n), T # {}
  PROVE  \E x \in T : \A y \in T : y <= x
<1> DEFINE U == {n - x : x \in T}
<1>1. U \in SUBSET Nat /\ U # {}
  <2>1. \A x \in T : n - x \in Nat
    OBVIOUS
  <2> QED
    BY <2>1
<1>2. PICK u \in U : \A v \in U : u <= v
  <2> HIDE DEF U
  <2> QED
    BY <1>1, LeastOfNaturals
<1>3. PICK x \in T : u = n - x
  OBVIOUS
<1>4. ASSUME NEW y \in T PROVE y <= x
  <2>1. n - y \in U
    OBVIOUS
  <2>2. n - x <= n - y /\ x \in 1..n /\ y \in 1..n
    BY <1>2, <1>3, <2>1
  <2> QED
    BY <2>2
<1> QED
  BY <1>4

\* The feature's current Bolt is 0, or that of a stage of the walk.
LEMMA CurrentBoltIs ==
  ASSUME place \in Places
  PROVE  BoltKey(CurrentBolt) \in SessionKey
<1> DEFINE begun == {i \in 1..place :
                        SessionPath[i].phase = BoltPhase /\ SessionPath[i].bolt > 0}
<1>1. place \in Nat /\ begun \in SUBSET (1..place) /\ begun \subseteq Places
  BY WalkAssumption DEF Places
<1>2. CASE begun = {}
  BY <1>2 DEF CurrentBolt, BoltKey, SessionKey
<1>3. CASE begun # {}
  <2> DEFINE last == CHOOSE i \in begun : \A j \in begun : j <= i
  <2>1. CurrentBolt = SessionPath[last].bolt
    BY <1>3 DEF CurrentBolt
  <2>2. last \in begun
    <3>1. \E i \in begun : \A j \in begun : j <= i
      <4> HIDE DEF begun
      <4> QED
        BY <1>1, <1>3, GreatestOfNaturals
    <3> QED
      BY <3>1, Zenon
  <2> HIDE DEF last
  <2>3. last \in Places /\ SessionPath[last].phase = BoltPhase
    BY <1>1, <2>2
  <2> QED
    BY <2>1, <2>3, StageShape DEF BoltKey
<1> QED
  BY <1>2, <1>3

\* Every key that the code computes is one of a session the feature may have.
LEMMA KeysAre ==
  ASSUME SessionInv
  PROVE  /\ \A x \in Runners : /\ RunKey(x) \in SessionKey
                               /\ RunKey(x).phase = SessionPath[runs[x].stage].phase
                               /\ ReviewKey(x) \in {RunKey(x), BoltReviews}
                               /\ ReviewKey(x).phase = RunKey(x).phase
         /\ BoltReviews \in SessionKey
         /\ \A phase \in SessionPhases : KeyOf(phase) \in SessionKey
<1>1. ASSUME NEW x \in Runners
      PROVE  /\ RunKey(x) \in SessionKey
             /\ RunKey(x).phase = SessionPath[runs[x].stage].phase
             /\ ReviewKey(x) \in {RunKey(x), BoltReviews}
             /\ ReviewKey(x).phase = RunKey(x).phase
  <2>1. runs[x].stage \in Places /\ BoltKey(runs[x].bolt) \in SessionKey
    BY DEF SessionInv, SessionTypes, RunnerOK
  <2>2. CASE SessionPath[runs[x].stage].phase = BoltPhase
    BY <2>1, <2>2 DEF RunKey, BoltKey, ReviewKey, BoltReviews
  <2>3. CASE SessionPath[runs[x].stage].phase # BoltPhase
    <3>1. /\ RunKey(x) = [phase |-> SessionPath[runs[x].stage].phase, bolt |-> 0]
          /\ ReviewKey(x) = RunKey(x)
      BY <2>3 DEF RunKey, ReviewKey
    <3>2. RunKey(x) = SessionPath[runs[x].stage]
      BY <2>1, <2>3, <3>1, StageShape
    <3> QED
      BY <2>1, <3>1, <3>2, StageShape
  <2> QED
    BY <2>2, <2>3
<1>2. ASSUME NEW phase \in SessionPhases PROVE KeyOf(phase) \in SessionKey
  <2>1. CASE phase = BoltPhase
    BY <2>1, CurrentBoltIs DEF KeyOf, BoltKey, SessionInv, SessionTypes
  <2>2. CASE phase # BoltPhase
    <3>1. PICK key \in SessionKey : key.phase = phase
      BY DEF SessionPhases
    <3>2. key \notin [phase : {BoltPhase}, bolt : {0}]
      BY <2>2, <3>1
    <3>3. PICK i \in Places : key = SessionPath[i]
      BY <3>2 DEF SessionKey
    <3>4. KeyOf(phase) = [phase |-> phase, bolt |-> 0]
      BY <2>2 DEF KeyOf
    <3>5. SessionPath[i].bolt = 0 /\ SessionPath[i] = [phase |-> phase, bolt |-> SessionPath[i].bolt]
      BY <2>2, <3>1, <3>3, StageShape
    <3> QED
      BY <3>3, <3>4, <3>5
  <2> QED
    BY <2>1, <2>2
<1>3. BoltReviews \in SessionKey
  BY DEF BoltReviews, SessionKey
<1> QED
  BY <1>1, <1>2, <1>3

LEMMA SessionsStart == SessionInit => SessionInv
<1> SUFFICES ASSUME SessionInit
             PROVE  SessionInv
  OBVIOUS
<1>1. NoRun \in [stage : Places, bolt : {key.bolt : key \in SessionKey}]
      /\ NoRun.bolt = 0 /\ BoltKey(0) \in SessionKey
  <2>1. BoltKey(0) \in SessionKey /\ BoltKey(0).bolt = 0
    BY DEF BoltKey, SessionKey
  <2>2. 0 \in {key.bolt : key \in SessionKey}
    BY <2>1
  <2> QED
    BY <2>1, <2>2, PlacesAre DEF NoRun
<1>2. /\ tmuxRow = [key \in SessionKey |-> NoRow] /\ alive = {} /\ loose = {}
      /\ unsaved = {} /\ place = 1 /\ rpc = [x \in Runners |-> "idle"] /\ runs = [x \in Runners |-> NoRun]
  BY DEF SessionInit
<1> HIDE DEF NoRun
<1>3. SessionTypes
  BY <1>1, <1>2, PlacesAre DEF SessionTypes, SessionRows, RunLabels
<1>4. \A x \in Runners : RunnerOK(x)
  BY <1>1, <1>2 DEF RunnerOK, Launched
<1> QED
  BY <1>2, <1>3, <1>4 DEF SessionInv, AliveKnown, PhaseSessionsEnd

LEMMA NoRunIs == /\ NoRun \in [stage : Places, bolt : {key.bolt : key \in SessionKey}]
                 /\ NoRun.bolt = 0 /\ BoltKey(0) \in SessionKey
<1>1. BoltKey(0) \in SessionKey /\ BoltKey(0).bolt = 0
  BY DEF BoltKey, SessionKey
<1>2. 0 \in {key.bolt : key \in SessionKey}
  BY <1>1
<1> QED
  BY <1>1, <1>2, PlacesAre DEF NoRun

\* A run that is untouched stays as good as it was.
LEMMA RunsAside ==
  ASSUME SessionInv, NEW x \in Runners, RowsStay, loose \subseteq loose',
         rpc'[x] = rpc[x], runs'[x] = runs[x],
         place' = place \/ x # "loop" \/ rpc[x] = "idle"
  PROVE  RunnerOK(x)'
<1>1. RunnerOK(x) /\ RunKey(x) \in SessionKey
  BY KeysAre DEF SessionInv
<1>2. RunKey(x)' = RunKey(x)
  BY DEF RunKey
<1> QED
  BY <1>1, <1>2 DEF RunnerOK, RowsStay, Recorded

\* The sessions that live are known, and of a phase that may have some, as long as
\* none starts and the walk stands still.
LEMMA SessionsAside ==
  ASSUME SessionInv, RowsStay, alive' \subseteq alive, place' = place,
         loose \subseteq loose'
  PROVE  AliveKnown' /\ PhaseSessionsEnd'
<1>1. AliveKnown'
  BY DEF SessionInv, SessionTypes, AliveKnown, RowsStay
<1>2. ASSUME NEW key \in alive'
      PROVE  \/ key.phase \in loose' \/ key.phase = SessionPath[place'].phase
             \/ tmuxRow'[key] = NoRow /\ key \in unsaved' \cup {BoltReviews}
  <2>1. /\ key \in SessionKey
        /\ \/ OfThisPhase(key)
           \/ tmuxRow[key] = NoRow /\ key \in unsaved \cup {BoltReviews}
    BY DEF SessionInv, SessionTypes, PhaseSessionsEnd, OfThisPhase
  <2> QED
    BY <2>1 DEF RowsStay, OfThisPhase
<1> QED
  BY <1>1, <1>2 DEF PhaseSessionsEnd

\* One runner goes to a label, with the run it has or none.
LEMMA RunnerGoes ==
  ASSUME SessionInv, NEW x \in Runners, NEW label \in RunLabels, RowsStay,
         rpc' = [rpc EXCEPT ![x] = label],
         \/ UNCHANGED runs /\ (label \in Launched => Recorded(RunKey(x))')
                           /\ rpc[x] \notin {"idle", "answered"}
         \/ runs' = [runs EXCEPT ![x] = NoRun]
               /\ (IF x = "loop" THEN label = "idle" ELSE label = "answered"),
         UNCHANGED <<place, loose>>,
         alive' \subseteq alive
  PROVE  SessionInv'
<1>1. /\ rpc \in [Runners -> RunLabels]
      /\ runs \in [Runners -> [stage : Places, bolt : {key.bolt : key \in SessionKey}]]
      /\ NoRun \in [stage : Places, bolt : {key.bolt : key \in SessionKey}]
      /\ NoRun.bolt = 0 /\ BoltKey(0) \in SessionKey
  BY NoRunIs DEF SessionInv, SessionTypes
<1>2. /\ \A y \in Runners : rpc'[y] = IF y = x THEN label ELSE rpc[y]
      /\ rpc' \in [Runners -> RunLabels]
  BY <1>1
<1>3. /\ \A y \in Runners : y # x => runs'[y] = runs[y]
      /\ runs'[x] = runs[x] \/ runs'[x] = NoRun
      /\ runs' \in [Runners -> [stage : Places, bolt : {key.bolt : key \in SessionKey}]]
  BY <1>1
<1> HIDE DEF NoRun
<1>4. ASSUME NEW y \in Runners, y # x PROVE RunnerOK(y)'
  BY <1>2, <1>3, <1>4, RunsAside
<1>5. RunnerOK(x)'
  <2>1. RunnerOK(x)
    BY DEF SessionInv
  <2>2. CASE /\ runs' = [runs EXCEPT ![x] = NoRun]
             /\ IF x = "loop" THEN label = "idle" ELSE label = "answered"
    <3>1. runs'[x] = NoRun /\ rpc'[x] \in {"idle", "answered"} /\ (x = "loop" => rpc'[x] = "idle")
      BY <1>1, <1>2, <2>2
    <3> QED
      BY <1>1, <3>1 DEF RunnerOK, Launched
  <2>3. CASE /\ UNCHANGED runs
             /\ label \in Launched => Recorded(RunKey(x))'
             /\ rpc[x] \notin {"idle", "answered"}
    <3>1. RunKey(x)' = RunKey(x)
      BY <2>3 DEF RunKey
    <3> QED
      BY <1>2, <2>1, <2>3, <3>1 DEF RunnerOK
  <2> QED
    BY <2>2, <2>3
<1>6. SessionTypes'
  BY <1>2, <1>3 DEF SessionInv, SessionTypes, RowsStay
<1> QED
  BY <1>4, <1>5, <1>6, SessionsAside DEF SessionInv

\* The row of a key is written, if it is there or anyway.
LEMMA RowWritten ==
  ASSUME SessionInv, NEW key \in SessionKey, NEW state \in SessionStates,
         NEW i \in 0..Len(SessionPath),
         \/ UNCHANGED tmuxRow
         \/ /\ tmuxRow' = [tmuxRow EXCEPT ![key] = SessionRow(state, i)]
            /\ tmuxRow[key] # NoRow \/ OfThisPhase(key)
         \/ SetState(key, state, i),
         unsaved \subseteq unsaved', unsaved' \subseteq SessionKey
  PROVE  RowsStay
<1>1. SessionRow(state, i) \in SessionRows /\ SessionRow(state, i) # NoRow
  BY RowIsRow
<1>2. NoRow \in SessionRows
  BY DEF SessionRows
<1> HIDE DEF SessionRow
<1> QED
  BY <1>1, <1>2 DEF RowsStay, SetState, SessionInv, SessionTypes

\* A RunStage under way is about a phase that may have sessions.
LEMMA RunsOfThisPhase ==
  ASSUME SessionInv, NEW x \in Runners, rpc[x] \notin {"idle", "answered"}
  PROVE  OfThisPhase(RunKey(x)) /\ OfThisPhase(ReviewKey(x))
BY KeysAre DEF SessionInv, RunnerOK, Runners, OfThisPhase

LEMMA RunSteps ==
  ASSUME SessionInv, NEW x \in Runners,
         \/ SetSessionRunning(x) \/ ResolveOrCreateSession(x)
         \/ StageFails(x) \/ SetSessionAwaitingGate(x)
  PROVE  SessionInv'
<1>1. RunKey(x) \in SessionKey /\ runs[x].stage \in 0..Len(SessionPath)
      /\ 0 \in 0..Len(SessionPath) /\ unsaved \subseteq SessionKey
      /\ GateKey(x) \in SessionKey
  <2>1. runs[x].stage \in Places /\ unsaved \subseteq SessionKey
    BY DEF SessionInv, SessionTypes
  <2>2. RunKey(x) \in SessionKey /\ GateKey(x) \in SessionKey
    BY KeysAre DEF GateKey
  <2>3. runs[x].stage \in 0..Len(SessionPath)
    BY <2>1, PlacesAre
  <2>4. 0 \in 0..Len(SessionPath)
    BY PlacesAre
  <2> QED
    BY <2>1, <2>2, <2>3, <2>4
<1>2. {"running", "created", "awaiting_gate"} \subseteq SessionStates
  BY DEF SessionStates
<1>3. CASE SetSessionRunning(x)
  <2>1. /\ rpc[x] = "starting" /\ SetState(RunKey(x), "running", runs[x].stage)
        /\ rpc' = [rpc EXCEPT ![x] = "resolving"]
        /\ UNCHANGED <<alive, place, runs, loose, unsaved>>
    BY <1>3 DEF SetSessionRunning, RGoto, sessionPast
  <2>2. RowsStay
    BY <1>1, <1>2, <2>1, RowWritten
  <2> QED
    BY <2>1, <2>2, RunnerGoes DEF RunLabels, Launched
<1>4. CASE ResolveOrCreateSession(x)
  <2>1. /\ rpc[x] = "resolving" /\ rpc' = [rpc EXCEPT ![x] = "launching"]
        /\ UNCHANGED <<alive, place, runs, loose>>
        /\ \/ tmuxRow[RunKey(x)] # NoRow /\ UNCHANGED <<tmuxRow, unsaved>>
           \/ /\ tmuxRow' = [tmuxRow EXCEPT ![RunKey(x)] = SessionRow("created", 0)]
              /\ UNCHANGED unsaved
           \/ unsaved' = unsaved \cup {RunKey(x)} /\ UNCHANGED tmuxRow
    BY <1>4 DEF ResolveOrCreateSession, RGoto
  <2>2. OfThisPhase(RunKey(x)) /\ unsaved \subseteq unsaved' /\ unsaved' \subseteq SessionKey
    BY <1>1, <2>1, RunsOfThisPhase
  <2>3. RowsStay
    BY <1>1, <1>2, <2>1, <2>2, RowWritten
  <2>4. RunKey(x)' = RunKey(x)
    BY <2>1 DEF RunKey
  <2>5. Recorded(RunKey(x))'
    BY <1>1, <1>2, <2>1, <2>4, RowIsRow DEF SessionInv, SessionTypes, Recorded
  <2> QED
    BY <2>1, <2>3, <2>5, RunnerGoes DEF RunLabels
<1>5. ASSUME Unmarks(x), RowsStay, UNCHANGED <<alive, place, loose>>
      PROVE  SessionInv'
  <2>1. CASE x = "loop"
    BY <1>5, <2>1, RunnerGoes DEF Unmarks, RGoto, RunLabels
  <2>2. CASE x # "loop"
    BY <1>5, <2>2, RunnerGoes DEF Unmarks, RGoto, RunLabels
  <2> QED
    BY <2>1, <2>2
<1>6. CASE StageFails(x)
  <2>1. RowsStay
    BY <1>1, <1>2, <1>6, RowWritten DEF StageFails, sessionPast
  <2> QED
    BY <1>5, <1>6, <2>1 DEF StageFails, sessionPast
<1>7. CASE SetSessionAwaitingGate(x)
  <2>1. /\ rpc[x] \in {"agent", "reviewer"}
        /\ SetState(GateKey(x), "awaiting_gate", runs[x].stage)
        /\ UNCHANGED <<alive, place, loose, unsaved>>
    BY <1>7 DEF SetSessionAwaitingGate, sessionPast
  <2>2. RowsStay
    BY <1>1, <1>2, <2>1, RowWritten
  <2>3. CASE x = "loop"
    <3>1. rpc' = [rpc EXCEPT ![x] = "gate"] /\ UNCHANGED runs
      BY <1>7, <2>3 DEF SetSessionAwaitingGate, RGoto
    <3> QED
      BY <2>1, <2>2, <3>1, RunnerGoes DEF RunLabels, Launched
  <2>4. CASE x # "loop"
    BY <1>5, <1>7, <2>1, <2>2, <2>4 DEF SetSessionAwaitingGate
  <2> QED
    BY <2>3, <2>4
<1> QED
  BY <1>3, <1>4, <1>6, <1>7

\* The session that is made is one of the current phase or one where the user
\* resumed; its row is there, or could not be saved, or it is the reviewers'.
LEMMA LaunchSteps ==
  ASSUME SessionInv, NEW x \in Runners, LaunchSession(x) \/ LaunchReviewer(x)
  PROVE  SessionInv'
<1>1. PICK label \in {"agent", "reviewer"}, key \in {RunKey(x), ReviewKey(x)} :
         /\ rpc[x] \in {"launching", "agent"}
         /\ alive' = alive \cup {key} \/ alive' = alive
         /\ rpc' = [rpc EXCEPT ![x] = label]
         /\ UNCHANGED <<tmuxRow, place, runs, loose, unsaved>>
  BY DEF LaunchSession, LaunchReviewer, RGoto, sessionPast
<1>2. /\ key \in SessionKey /\ key \in {RunKey(x), BoltReviews}
      /\ RunnerOK(x) /\ Recorded(RunKey(x)) /\ OfThisPhase(key)
  BY <1>1, KeysAre, RunsOfThisPhase DEF SessionInv, RunnerOK, Launched
<1>3. RowsStay
  BY <1>1 DEF RowsStay, SessionInv, SessionTypes
<1>4. SessionTypes'
  BY <1>1, <1>2 DEF SessionInv, SessionTypes, RunLabels
<1>5. ASSUME NEW y \in Runners PROVE RunnerOK(y)'
  <2>1. rpc'[y] = IF y = x THEN label ELSE rpc[y]
    BY <1>1 DEF SessionInv, SessionTypes
  <2>2. CASE y # x
    BY <1>1, <1>3, <2>1, <2>2, RunsAside
  <2>3. CASE y = x
    <3>1. RunKey(x)' = RunKey(x)
      BY <1>1 DEF RunKey
    <3> QED
      BY <1>1, <1>2, <2>1, <2>3, <3>1 DEF RunnerOK, Recorded
  <2> QED
    BY <2>2, <2>3
<1>6. AliveKnown'
  BY <1>1, <1>2 DEF Recorded, SessionInv, AliveKnown
<1>7. PhaseSessionsEnd'
  BY <1>1, <1>2 DEF OfThisPhase, SessionInv, PhaseSessionsEnd
<1> QED
  BY <1>4, <1>5, <1>6, <1>7 DEF SessionInv

\* The walk leaves a phase: of its sessions those that have rows end.
LEMMA AdvanceSteps ==
  ASSUME SessionInv, AdvanceToNext
  PROVE  SessionInv'
<1> DEFINE phase == SessionPath[place].phase
           ended == {key \in SessionKey : key.phase = phase /\ tmuxRow[key] # NoRow}
<1>1. /\ rpc["loop"] = "gate" /\ place < Len(SessionPath) /\ place' = place + 1
      /\ rpc' = [rpc EXCEPT !["loop"] = "idle"]
      /\ runs' = [runs EXCEPT !["loop"] = NoRun]
      /\ UNCHANGED <<loose, unsaved>>
  BY DEF AdvanceToNext, Unmarks, RGoto, sessionPast
<1>2. \/ SessionPath[place'].phase = phase /\ UNCHANGED <<alive, tmuxRow>>
      \/ /\ alive' = alive \ ended
         /\ tmuxRow' = [key \in SessionKey |->
                          IF key \in ended THEN SessionRow("done", 0) ELSE tmuxRow[key]]
  BY <1>1 DEF AdvanceToNext, CompletePhaseSessions
<1>3. SessionRow("done", 0) \in SessionRows /\ SessionRow("done", 0) # NoRow
  BY RowIsRow, PlacesAre DEF SessionStates
<1>4. RowsStay
  <2>1. \A key \in ended : tmuxRow[key] # NoRow
    OBVIOUS
  <2> HIDE DEF ended
  <2> QED
    BY <1>1, <1>2, <1>3, <2>1 DEF RowsStay, SessionInv, SessionTypes
<1>5. "loop" \in Runners
  BY DEF Runners
<1>6. SessionTypes'
  <2>1. place' \in Places
    BY <1>1 DEF SessionInv, SessionTypes, Places
  <2>2. alive' \subseteq SessionKey
    BY <1>2 DEF SessionInv, SessionTypes
  <2> QED
    BY <1>1, <1>4, <1>5, <2>1, <2>2, NoRunIs DEF SessionInv, SessionTypes, RowsStay, RunLabels
<1>7. ASSUME NEW y \in Runners PROVE RunnerOK(y)'
  <2>1. /\ rpc'[y] = IF y = "loop" THEN "idle" ELSE rpc[y]
        /\ runs'[y] = IF y = "loop" THEN NoRun ELSE runs[y]
    BY <1>1 DEF SessionInv, SessionTypes
  <2>2. CASE y # "loop"
    BY <1>1, <1>4, <2>1, <2>2, RunsAside
  <2>3. CASE y = "loop"
    BY <2>1, <2>3, NoRunIs DEF RunnerOK, Launched
  <2> QED
    BY <2>2, <2>3
<1>8. AliveKnown'
  BY <1>2, <1>4 DEF SessionInv, SessionTypes, AliveKnown, RowsStay
<1>9. ASSUME NEW key \in alive'
      PROVE  \/ key.phase \in loose' \/ key.phase = SessionPath[place'].phase
             \/ tmuxRow'[key] = NoRow /\ key \in unsaved' \cup {BoltReviews}
  <2>1. /\ key \in alive /\ key \in SessionKey
        /\ tmuxRow[key] # NoRow \/ key \in unsaved \cup {BoltReviews}
        /\ \/ key.phase \in loose \/ key.phase = phase
           \/ tmuxRow[key] = NoRow
    BY <1>2 DEF SessionInv, SessionTypes, AliveKnown, PhaseSessionsEnd
  <2>2. tmuxRow[key] = NoRow => tmuxRow'[key] = NoRow
    BY <1>2, <2>1
  <2>3. tmuxRow[key] # NoRow /\ key.phase = phase => SessionPath[place'].phase = phase
    BY <1>2, <1>9, <2>1
  <2> QED
    BY <1>1, <2>1, <2>2, <2>3
<1> QED
  BY <1>6, <1>7, <1>8, <1>9 DEF SessionInv, PhaseSessionsEnd

\* The walk jumps over phases that are known, from then on, as jumped over.
LEMMA JumpSteps ==
  ASSUME SessionInv, NEW i \in Places, Jump(i)
  PROVE  SessionInv'
<1>1. /\ rpc["loop"] = "idle" /\ place' = i /\ place < i
      /\ loose' = loose \cup {SessionPath[j].phase : j \in place..(i - 1)}
      /\ UNCHANGED <<tmuxRow, alive, rpc, runs, unsaved>>
  BY PlacesAre DEF Jump, SessionInv, SessionTypes
<1>2. place \in place..(i - 1) /\ (place..(i - 1)) \subseteq Places
  BY <1>1, PlacesAre DEF SessionInv, SessionTypes, Places
<1>3. SessionPath[place].phase \in loose' /\ loose' \subseteq SessionPhases
      /\ loose \subseteq loose'
  BY <1>1, <1>2, StageShape DEF SessionInv, SessionTypes
<1>4. RowsStay
  BY <1>1 DEF RowsStay, SessionInv, SessionTypes
<1>5. SessionTypes'
  BY <1>1, <1>3 DEF SessionInv, SessionTypes
<1>6. \A y \in Runners : RunnerOK(y)'
  BY <1>1, <1>3, <1>4, RunsAside
<1>7. AliveKnown' /\ PhaseSessionsEnd'
  BY <1>1, <1>3 DEF SessionInv, AliveKnown, PhaseSessionsEnd
<1> QED
  BY <1>5, <1>6, <1>7 DEF SessionInv

\* A resume writes its row before it looks at the mark, and its phase is known.
LEMMA ResumeSteps ==
  ASSUME SessionInv, NEW x \in Resumes, NEW phase \in SessionPhases,
         ResumeSession(x, phase)
  PROVE  SessionInv'
<1>1. PICK row, i : /\ row = tmuxRow[KeyOf(phase)]
                    /\ i = IF row.stage # 0 THEN row.stage ELSE place
  OBVIOUS
<1>2. /\ rpc[x] = "idle" /\ row # NoRow
      /\ tmuxRow' = [tmuxRow EXCEPT ![KeyOf(phase)] = SessionRow("resuming", i)]
      /\ runs' = [runs EXCEPT ![x] = Run(i)]
      /\ loose' = loose \cup {phase, SessionPath[i].phase}
      /\ rpc' = [rpc EXCEPT ![x] = "checking"]
      /\ UNCHANGED <<alive, place, unsaved>>
  BY <1>1 DEF ResumeSession, RGoto
<1>3. KeyOf(phase) \in SessionKey /\ x \in Runners /\ x # "loop"
  BY KeysAre, WalkAssumption DEF Runners
<1>4. i \in Places /\ i \in 0..Len(SessionPath)
  <2>1. row \in [state : SessionStates, stage : 0..Len(SessionPath)]
    BY <1>1, <1>2, <1>3 DEF SessionInv, SessionTypes, SessionRows
  <2> QED
    BY <1>1, <2>1, PlacesAre DEF SessionInv, SessionTypes
<1>5. RowsStay
  <2>1. "resuming" \in SessionStates /\ tmuxRow[KeyOf(phase)] # NoRow
    BY <1>1, <1>2 DEF SessionStates
  <2>2. unsaved \subseteq unsaved' /\ unsaved' \subseteq SessionKey
    BY <1>2 DEF SessionInv, SessionTypes
  <2> QED
    BY <1>2, <1>3, <1>4, <2>1, <2>2, RowWritten
<1>6. PICK run : run = Run(i)
  OBVIOUS
<1>7. /\ run \in [stage : Places, bolt : {key.bolt : key \in SessionKey}]
      /\ run.stage = i /\ BoltKey(run.bolt) \in SessionKey
  <2>1. BoltKey(CurrentBolt) \in SessionKey /\ BoltKey(CurrentBolt).bolt = CurrentBolt
    BY CurrentBoltIs DEF BoltKey, SessionInv, SessionTypes
  <2>2. CurrentBolt \in {key.bolt : key \in SessionKey}
    BY <2>1
  <2> QED
    BY <1>4, <1>6, <2>1, <2>2 DEF Run
<1>8. SessionTypes'
  BY <1>2, <1>3, <1>4, <1>5, <1>6, <1>7, StageShape
     DEF SessionInv, SessionTypes, RowsStay, RunLabels
<1>9. ASSUME NEW y \in Runners PROVE RunnerOK(y)'
  <2>1. /\ rpc'[y] = IF y = x THEN "checking" ELSE rpc[y]
        /\ runs'[y] = IF y = x THEN run ELSE runs[y]
    BY <1>2, <1>6 DEF SessionInv, SessionTypes
  <2>2. CASE y # x
    BY <1>2, <1>5, <2>1, <2>2, RunsAside
  <2>3. CASE y = x
    BY <1>2, <1>3, <1>7, <2>1, <2>3 DEF RunnerOK, Launched
  <2> QED
    BY <2>2, <2>3
<1> QED
  BY <1>2, <1>5, <1>8, <1>9, SessionsAside DEF SessionInv

LEMMA LoopRunsSteps ==
  ASSUME SessionInv, LoopRuns
  PROVE  SessionInv'
<1>1. PICK run : run = Run(place)
  OBVIOUS
<1>2. /\ rpc["loop"] = "idle" /\ rpc' = [rpc EXCEPT !["loop"] = "starting"]
      /\ runs' = [runs EXCEPT !["loop"] = run]
      /\ UNCHANGED <<tmuxRow, alive, place, loose, unsaved>>
  BY <1>1 DEF LoopRuns, RGoto, sessionPast
<1>3. /\ run \in [stage : Places, bolt : {key.bolt : key \in SessionKey}]
      /\ run.stage = place /\ BoltKey(run.bolt) \in SessionKey
  <2>1. BoltKey(CurrentBolt) \in SessionKey /\ BoltKey(CurrentBolt).bolt = CurrentBolt
    BY CurrentBoltIs DEF BoltKey, SessionInv, SessionTypes
  <2>2. CurrentBolt \in {key.bolt : key \in SessionKey}
    BY <2>1
  <2> QED
    BY <1>1, <2>1, <2>2 DEF Run, SessionInv, SessionTypes
<1>4. RowsStay
  BY <1>2 DEF RowsStay, SessionInv, SessionTypes
<1>5. SessionTypes'
  BY <1>2, <1>3 DEF SessionInv, SessionTypes, RunLabels
<1>6. ASSUME NEW y \in Runners PROVE RunnerOK(y)'
  <2>1. /\ rpc'[y] = IF y = "loop" THEN "starting" ELSE rpc[y]
        /\ runs'[y] = IF y = "loop" THEN run ELSE runs[y]
    BY <1>2 DEF SessionInv, SessionTypes
  <2>2. CASE y # "loop"
    BY <1>2, <1>4, <2>1, <2>2, RunsAside
  <2>3. CASE y = "loop"
    BY <1>2, <1>3, <2>1, <2>3, WalkAssumption DEF RunnerOK, Launched
  <2> QED
    BY <2>2, <2>3
<1> QED
  BY <1>2, <1>4, <1>5, <1>6, SessionsAside DEF SessionInv

LEMMA SessionSteps == SessionInv /\ [SessionNext]_sessionVars => SessionInv'
<1> SUFFICES ASSUME SessionInv, [SessionNext]_sessionVars
             PROVE  SessionInv'
  OBVIOUS
<1>1. UNCHANGED <<tmuxRow, unsaved>> => RowsStay
  BY DEF RowsStay, SessionInv, SessionTypes
<1>2. CASE UNCHANGED sessionVars
  <2>1. \A x \in Runners : RunnerOK(x)'
    BY <1>1, <1>2, RunsAside DEF sessionVars, sessionPast
  <2> QED
    BY <1>2, <2>1 DEF sessionVars, sessionPast, SessionInv, SessionTypes, AliveKnown, PhaseSessionsEnd
<1>3. CASE LeaveGate
  <2>1. /\ runs' = [runs EXCEPT !["loop"] = NoRun] /\ rpc' = [rpc EXCEPT !["loop"] = "idle"]
        /\ UNCHANGED <<tmuxRow, alive, place, loose, unsaved>>
    BY <1>3 DEF LeaveGate, Unmarks, RGoto, sessionPast
  <2> QED
    BY <1>1, <2>1, RunnerGoes DEF Runners, RunLabels
<1>4. ASSUME NEW x \in Resumes, ResumeChecks(x) \/ ResumeSessionMarks(x)
      PROVE  SessionInv'
  <2>1. x \in Runners /\ x # "loop"
    BY WalkAssumption DEF Runners
  <2>2. /\ \/ runs' = [runs EXCEPT ![x] = NoRun] /\ rpc' = [rpc EXCEPT ![x] = "answered"]
           \/ /\ UNCHANGED runs /\ rpc[x] \in {"checking", "marking"}
              /\ rpc' = [rpc EXCEPT ![x] = "marking"] \/ rpc' = [rpc EXCEPT ![x] = "starting"]
        /\ UNCHANGED <<tmuxRow, alive, place, loose, unsaved>>
    BY <1>4 DEF ResumeChecks, ResumeSessionMarks, RGoto, sessionPast
  <2>3. CASE runs' = [runs EXCEPT ![x] = NoRun] /\ rpc' = [rpc EXCEPT ![x] = "answered"]
    BY <1>1, <2>1, <2>2, <2>3, RunnerGoes DEF RunLabels
  <2>4. ASSUME NEW label \in {"marking", "starting"}, rpc' = [rpc EXCEPT ![x] = label],
               UNCHANGED runs, rpc[x] \in {"checking", "marking"}
        PROVE  SessionInv'
    <3>1. label \in RunLabels /\ label \notin Launched /\ rpc[x] \notin {"idle", "answered"}
      BY <2>4 DEF RunLabels, Launched
    <3> QED
      BY <1>1, <2>1, <2>2, <2>4, <3>1, RunnerGoes
  <2> QED
    BY <2>2, <2>3, <2>4
<1>5. ASSUME NEW phase \in SessionPhases, KillRequest(phase) \/ KillByName(phase)
      PROVE  SessionInv'
  <2>1. /\ alive' = alive \ {KeyOf(phase)}
        /\ SetState(KeyOf(phase), "expired", 0) \/ UNCHANGED tmuxRow
        /\ UNCHANGED <<place, rpc, runs, loose, unsaved>>
    BY <1>5 DEF KillRequest, KillByName, KillSession, sessionPast
  <2>2. RowsStay
    <3>1. KeyOf(phase) \in SessionKey /\ 0 \in 0..Len(SessionPath)
          /\ "expired" \in SessionStates /\ unsaved' = unsaved /\ unsaved \subseteq SessionKey
      BY <2>1, KeysAre, PlacesAre DEF SessionStates, SessionInv, SessionTypes
    <3> QED
      BY <2>1, <3>1, RowWritten
  <2>3. \A x \in Runners : RunnerOK(x)'
    BY <2>1, <2>2, RunsAside
  <2>4. SessionTypes'
    BY <2>1, <2>2 DEF SessionInv, SessionTypes, RowsStay
  <2> QED
    BY <2>1, <2>2, <2>3, <2>4, SessionsAside DEF SessionInv
<1> QED
  BY <1>2, <1>3, <1>4, <1>5, RunSteps, LaunchSteps, AdvanceSteps, LoopRunsSteps, JumpSteps,
     ResumeSteps
     DEF SessionNext

\* A live tmux session that no row tells of, so that the API cannot list, resume
\* or kill it, is the one of the Bolts' reviewers, which dispatchReviewer has made
\* under the phase's name, or one whose row CreateTmuxSession failed to save: a
\* stage's own dispatch launches only what resolveOrCreateSession has gone
\* through, and no row is deleted (stage_runner.go; session_manager.go;
\* sessions.go).
THEOREM AliveAlwaysKnown == SessionSpec => []AliveKnown
<1>1. SessionInv => AliveKnown
  BY DEF SessionInv
<1> QED
  BY SessionsStart, SessionSteps, <1>1, PTL DEF SessionSpec

\* When the walk has left a phase no session of it that has a row lives, of no
\* Bolt either, but where the user resumed or jumped; those without rows, which
\* the end of a phase does not find, are the reviewers' of the Bolts, and those
\* whose row could not be saved (pipeline.go, AdvanceStage; session_manager.go,
\* CompletePhaseSessions).
THEOREM PhaseSessionsAlwaysEnd == SessionSpec => []PhaseSessionsEnd
<1>1. SessionInv => PhaseSessionsEnd
  BY DEF SessionInv
<1> QED
  BY SessionsStart, SessionSteps, <1>1, PTL DEF SessionSpec

\* The rows and sessions, and what the runs are about, have their types in every
\* state: a row is only of a session the feature can have, and a run only of a
\* stage and a Bolt of the walk.
THEOREM SessionTypeCorrect == SessionSpec => []SessionTypeOK
<1> DEFINE Marked == marked \in BOOLEAN
<1>1. SessionInit => Marked
  BY DEF SessionInit
<1>2. Marked /\ [SessionNext]_sessionVars => Marked'
  BY DEF SessionNext, sessionVars, SetSessionRunning, ResolveOrCreateSession, LaunchSession,
         StageFails, LaunchReviewer, SetSessionAwaitingGate, LoopRuns, AdvanceToNext,
         LeaveGate, Jump, ResumeChecks, ResumeSessionMarks, ResumeSession, KillRequest,
         KillByName, Unmarks
<1>3. SessionInv /\ Marked => SessionTypeOK
  BY DEF SessionInv, SessionTypes, SessionRows, SessionTypeOK
<1> HIDE DEF Marked
<1> QED
  BY SessionsStart, SessionSteps, <1>1, <1>2, <1>3, PTL DEF SessionSpec

-----------------------------------------------------------------------------
(* The working copies.                                                     *)

WorkLabels == {"", "next", "prepared", "unprepared", "pushed", "not pushed", "merged",
               "commit", "push", "merge", "pull request"}
WorkState == [kind : {"idle", "prepare", "commit", "push", "merge"}, at : WorkLabels,
              todo : SUBSET ImplRepos, repo : ImplRepos \cup {""}, failed : BOOLEAN,
              begin : [ImplRepos -> SUBSET Commits], untold : SUBSET ImplRepos,
              merged : SUBSET ImplRepos]

WorkTypes ==
    /\ dir \in [ImplRepos -> {"absent", "cloned", "branched"}]
    /\ recorded \subseteq ImplRepos
    /\ localBranch \in [ImplRepos -> SUBSET Commits]
    /\ remote \in [ImplRepos -> SUBSET Commits]
    /\ main \in [ImplRepos -> SUBSET Commits]
    /\ dirty \in [ImplRepos -> BOOLEAN]
    /\ work \in WorkState

\* What was there when the work began is still in the working copies.
BeginHeld ==
    work.kind # "idle" => \A r \in ImplRepos : work.begin[r] \subseteq localBranch[r]

\* Unless a push failed, what was there is on origin wherever the work has been,
\* but where a check failed untold.
PushInv ==
    work.kind = "push" /\ ~work.failed =>
        \A r \in recorded \ (work.todo \cup work.untold) : work.begin[r] \subseteq remote[r]

\* The merge is at a repository, whose branch is on origin once it was pushed.
TakenInv ==
    work.kind = "merge" =>
        /\ work.at \in {"commit", "push", "merge", "pull request"} => This \in ImplRepos
        /\ work.at \in {"merge", "pull request"} => work.begin[This] \subseteq remote[This]

WorktreesInv ==
    /\ WorkTypes /\ BeginHeld /\ PushInv /\ TakenInv /\ TakesAll
    /\ work.at = "pushed" => work.kind = "idle"

\* Only commits are added to the working copies.
CopiesGrow ==
    /\ dir' \in [ImplRepos -> {"absent", "cloned", "branched"}]
    /\ localBranch' \in [ImplRepos -> SUBSET Commits]
    /\ dirty' \in [ImplRepos -> BOOLEAN]
    /\ \A r \in ImplRepos : localBranch[r] \subseteq localBranch'[r]

\* Only commits are added to what origin has.
OriginGrows ==
    /\ remote' \in [ImplRepos -> SUBSET Commits]
    /\ main' \in [ImplRepos -> SUBSET Commits]
    /\ \A r \in ImplRepos : remote[r] \subseteq remote'[r] /\ main[r] \subseteq main'[r]

LEMMA NoWorkIs == /\ NoWork \in WorkState /\ NoWork.kind = "idle" /\ NoWork.at = ""
                  /\ NoWork.merged = {}
<1> DEFINE nothing == [r \in ImplRepos |-> {}]
<1>1. nothing \in [ImplRepos -> SUBSET Commits]
  OBVIOUS
<1>2. NoWork = [kind |-> "idle", at |-> "", todo |-> {}, repo |-> "", failed |-> FALSE,
                begin |-> nothing, untold |-> {}, merged |-> {}]
  BY DEF NoWork
<1> HIDE DEF nothing
<1> QED
  BY <1>1, <1>2 DEF WorkState, WorkLabels

LEMMA WorktreesStart == WorktreesInit => WorktreesInv
<1> SUFFICES ASSUME WorktreesInit PROVE WorktreesInv
  OBVIOUS
<1>1. NoWork \in WorkState /\ NoWork.kind = "idle" /\ NoWork.at = "" /\ NoWork.merged = {}
  BY NoWorkIs
<1>2. WorkTypes
  BY <1>1 DEF WorktreesInit, WorkTypes
<1>3. BeginHeld /\ PushInv /\ TakenInv /\ TakesAll
  BY <1>1 DEF WorktreesInit, BeginHeld, PushInv, TakenInv, TakesAll
<1> QED
  BY <1>1, <1>2, <1>3 DEF WorktreesInv, WorktreesInit

\* The copies that nothing touches stay as they are, and so does origin.
LEMMA CopiesStay == ASSUME WorktreesInv, UNCHANGED Copies PROVE CopiesGrow
BY DEF WorktreesInv, WorkTypes, Copies, CopiesGrow

LEMMA OriginStays == ASSUME WorktreesInv, UNCHANGED Origin PROVE OriginGrows
BY DEF WorktreesInv, WorkTypes, Origin, OriginGrows

\* A commit adds itself to one working copy.
LEMMA CommitGrows ==
  ASSUME WorktreesInv, NEW r \in ImplRepos, MayCommit(r), CommitIn(r), UNCHANGED dir
  PROVE  CopiesGrow
<1>1. PICK c \in Commits : c \notin localBranch[r] \cup remote[r] \cup main[r]
  BY DEF WorktreesInv, WorkTypes, MayCommit
<1>2. NextCommit(r) \in Commits
  BY <1>1 DEF NextCommit
<1> HIDE DEF NextCommit
<1>3. localBranch' = [localBranch EXCEPT ![r] = @ \cup {NextCommit(r)}]
      /\ dirty' = [dirty EXCEPT ![r] = FALSE]
  BY DEF CommitIn
<1>4. localBranch \in [ImplRepos -> SUBSET Commits] /\ dirty \in [ImplRepos -> BOOLEAN]
      /\ dir \in [ImplRepos -> {"absent", "cloned", "branched"}]
  BY DEF WorktreesInv, WorkTypes
<1> QED
  BY <1>2, <1>3, <1>4 DEF CopiesGrow

\* A push makes origin's branch what the working copy has, and loses nothing.
LEMMA PushGrows ==
  ASSUME WorktreesInv, NEW r \in ImplRepos, PushTakes(r),
         remote' = [remote EXCEPT ![r] = localBranch[r]], UNCHANGED main
  PROVE  OriginGrows /\ remote'[r] = localBranch[r]
BY DEF WorktreesInv, WorkTypes, PushTakes, OriginGrows

\* Where the work stays what it is, more commits disturb nothing.
LEMMA WorkAside ==
  ASSUME WorktreesInv, CopiesGrow, OriginGrows, UNCHANGED <<recorded, work>>
  PROVE  WorktreesInv'
<1>1. WorkTypes'
  BY DEF WorktreesInv, WorkTypes, CopiesGrow, OriginGrows
<1>2. WorkState' = WorkState
  BY DEF WorkState, Commits
<1>3. BeginHeld'
  BY DEF WorktreesInv, BeginHeld, CopiesGrow
<1>4. PushInv'
  BY DEF WorktreesInv, WorkTypes, PushInv, OriginGrows
<1>5. TakenInv'
  BY DEF WorktreesInv, TakenInv, OriginGrows, This
<1>6. TakesAll'
  <2>1. work.merged \subseteq ImplRepos
    BY DEF WorktreesInv, WorkTypes, WorkState
  <2> QED
    BY <2>1 DEF WorktreesInv, WorkTypes, TakesAll, OriginGrows
<1> QED
  BY <1>1, <1>3, <1>4, <1>5, <1>6 DEF WorktreesInv

\* Work begins with what its copies hold, and with nothing merged yet.
LEMMA WorkBegins ==
  ASSUME WorktreesInv, NEW kind \in {"prepare", "commit", "merge"}, NEW todo \in SUBSET ImplRepos,
         Begins(kind, todo), UNCHANGED recorded, UNCHANGED Copies, UNCHANGED Origin
  PROVE  WorktreesInv'
<1>1. /\ work' \in WorkState /\ work'.kind = kind /\ work'.at = "next"
      /\ work'.begin = localBranch /\ work'.merged = {}
  <2>1. localBranch \in [ImplRepos -> SUBSET Commits]
    BY DEF WorktreesInv, WorkTypes
  <2>2. work' = [NoWork EXCEPT !.kind = kind, !.at = "next", !.todo = todo,
                               !.begin = localBranch]
    BY DEF Begins
  <2> QED
    BY <2>1, <2>2, NoWorkIs DEF WorkState, WorkLabels
<1>2. WorkTypes'
  BY <1>1 DEF WorktreesInv, WorkTypes, Copies, Origin
<1>3. BeginHeld'
  BY <1>1 DEF BeginHeld, Copies
<1>4. PushInv' /\ TakenInv' /\ TakesAll'
  BY <1>1 DEF PushInv, TakenInv, TakesAll
<1> QED
  BY <1>1, <1>2, <1>3, <1>4 DEF WorktreesInv

\* What a step of the work keeps of it: its kind, until it returns, what it
\* began with and what it has merged.
WorkKeeps ==
    /\ work' \in WorkState
    /\ work.kind # "idle" /\ work'.kind \in {work.kind, "idle"}
    /\ work'.begin = work.begin /\ work'.merged = work.merged
    /\ work'.at # "pushed"

\* A step of work that is not the push and not the end of one.
LEMMA WorktreeSteps ==
  ASSUME WorktreesInv, WorkKeeps, work.kind # "push", CopiesGrow, OriginGrows,
         recorded' \subseteq ImplRepos,
         TakenInv'
  PROVE  WorktreesInv'
<1>1. WorkTypes'
  BY DEF WorktreesInv, WorkTypes, CopiesGrow, OriginGrows, WorkKeeps
<1>2. BeginHeld'
  BY DEF WorktreesInv, BeginHeld, CopiesGrow, WorkKeeps
<1>3. PushInv'
  BY DEF PushInv, WorkKeeps
<1>4. TakesAll'
  <2>1. work.merged \subseteq ImplRepos
    BY DEF WorktreesInv, WorkTypes, WorkState
  <2> QED
    BY <2>1 DEF WorktreesInv, WorkTypes, TakesAll, OriginGrows, WorkKeeps
<1> QED
  BY <1>1, <1>2, <1>3, <1>4 DEF WorktreesInv, WorkKeeps

\* The work goes on to the next repository, to its next step, or ends.
LEMMA NextRepoKeeps ==
  ASSUME WorktreesInv, work.kind # "idle", NEW at \in WorkLabels, at # "pushed",
         NEW r \in ImplRepos, NextRepo(at, r)
  PROVE  /\ WorkKeeps /\ work'.kind = work.kind /\ work'.at = at /\ work'.repo = r
         /\ work'.todo = work.todo \ {r} /\ work'.failed = work.failed
         /\ work'.untold = work.untold
<1>1. work \in WorkState
  BY DEF WorktreesInv, WorkTypes
<1>2. work' = [work EXCEPT !.at = at, !.repo = r, !.todo = work.todo \ {r}]
  BY DEF NextRepo
<1> QED
  BY <1>1, <1>2 DEF WorkState, WorkKeeps

LEMMA ReturnKeeps ==
  ASSUME WorktreesInv, work.kind # "idle", NEW at \in WorkLabels, WorkReturns(at)
  PROVE  /\ work' \in WorkState /\ work'.kind = "idle" /\ work'.at = at
         /\ work'.begin = work.begin /\ work'.merged = work.merged
         /\ work'.untold = work.untold
         /\ at # "pushed" => WorkKeeps
<1>1. work \in WorkState
  BY DEF WorktreesInv, WorkTypes
<1>2. work' = [work EXCEPT !.kind = "idle", !.at = at, !.todo = {}, !.repo = ""]
  BY DEF WorkReturns
<1> QED
  BY <1>1, <1>2 DEF WorkState, WorkKeeps

LEMMA GoesKeeps ==
  ASSUME WorktreesInv, work.kind # "idle", NEW at \in WorkLabels, at # "pushed", WorkGoes(at)
  PROVE  WorkKeeps /\ work'.kind = work.kind /\ work'.at = at /\ work'.repo = work.repo
<1>1. work \in WorkState
  BY DEF WorktreesInv, WorkTypes
<1>2. work' = [work EXCEPT !.at = at]
  BY DEF WorkGoes
<1> QED
  BY <1>1, <1>2 DEF WorkState, WorkKeeps

LEMMA CopiesSteps ==
  ASSUME WorktreesInv, AgentEdits \/ AgentCommits \/ DirectoryRemoved
  PROVE  WorktreesInv'
<1>1. CASE AgentEdits
  <2>1. CopiesGrow
    BY <1>1 DEF AgentEdits, WorktreesInv, WorkTypes, CopiesGrow
  <2>2. UNCHANGED <<recorded, work>> /\ UNCHANGED Origin
    BY <1>1 DEF AgentEdits
  <2> QED
    BY <2>1, <2>2, OriginStays, WorkAside
<1>2. CASE AgentCommits
  <2>1. PICK r \in ImplRepos : MayCommit(r) /\ CommitIn(r)
    BY <1>2 DEF AgentCommits
  <2>2. UNCHANGED <<dir, recorded, work>> /\ UNCHANGED Origin
    BY <1>2 DEF AgentCommits
  <2> QED
    BY <2>1, <2>2, CommitGrows, OriginStays, WorkAside
<1>3. CASE DirectoryRemoved
  <2>1. PICK r \in ImplRepos :
          /\ work.kind = "idle"
          /\ dir' = [dir EXCEPT ![r] = "absent"]
          /\ localBranch' = [localBranch EXCEPT ![r] = {}]
          /\ dirty' = [dirty EXCEPT ![r] = FALSE]
          /\ UNCHANGED <<recorded, primary, work>> /\ UNCHANGED Origin
    BY <1>3 DEF DirectoryRemoved
  <2>2. WorkTypes'
    BY <2>1 DEF WorktreesInv, WorkTypes, Origin
  <2> QED
    BY <2>1, <2>2
       DEF WorktreesInv, BeginHeld, PushInv, TakenInv, TakesAll, Origin
<1> QED
  BY <1>1, <1>2, <1>3

LEMMA PrepareSteps ==
  ASSUME WorktreesInv, Prepare \/ PrepareRepo \/ SaveFeatureRepos
  PROVE  WorktreesInv'
<1>1. CASE Prepare
  <2>1. Begins("prepare", ImplRepos) /\ UNCHANGED recorded /\ UNCHANGED Copies
        /\ UNCHANGED Origin
    BY <1>1 DEF Prepare
  <2> QED
    BY <2>1, WorkBegins
<1>2. CASE PrepareRepo
  <2>1. PICK r \in ImplRepos :
          /\ Working("prepare", "next")
          /\ dir' \in [ImplRepos -> {"absent", "cloned", "branched"}]
          /\ NextRepo("next", r) \/ WorkReturns("unprepared")
          /\ UNCHANGED <<localBranch, dirty, recorded, primary>> /\ UNCHANGED Origin
    <3>1. PICK r \in work.todo :
            /\ Working("prepare", "next")
            /\ \/ dir' = [dir EXCEPT ![r] = "branched"] /\ NextRepo("next", r)
               \/ dir' = [dir EXCEPT ![r] = IF dir[r] = "absent" THEN "cloned" ELSE dir[r]]
                  /\ WorkReturns("unprepared")
               \/ UNCHANGED dir /\ WorkReturns("unprepared")
            /\ UNCHANGED <<localBranch, dirty, recorded, primary>> /\ UNCHANGED Origin
      BY <1>2 DEF PrepareRepo
    <3>2. r \in ImplRepos /\ dir \in [ImplRepos -> {"absent", "cloned", "branched"}]
      BY DEF WorktreesInv, WorkTypes, WorkState
    <3> QED
      BY <3>1, <3>2
  <2>2. WorkKeeps /\ work.kind = "prepare"
    BY <2>1, NextRepoKeeps, ReturnKeeps DEF Working, WorkLabels
  <2>3. CopiesGrow
    BY <2>1 DEF CopiesGrow, WorktreesInv, WorkTypes
  <2>4. TakenInv'
    BY <2>2 DEF TakenInv, WorkKeeps
  <2>5. recorded' \subseteq ImplRepos
    BY <2>1 DEF WorktreesInv, WorkTypes
  <2> QED
    BY <2>1, <2>2, <2>3, <2>4, <2>5, OriginStays, WorktreeSteps
<1>3. CASE SaveFeatureRepos
  <2>1. PICK saved \in SUBSET ImplRepos :
          /\ Working("prepare", "next") /\ SaveEach(saved) /\ WorkReturns("prepared")
          /\ UNCHANGED Copies /\ UNCHANGED Origin
    BY <1>3 DEF SaveFeatureRepos
  <2>2. WorkKeeps /\ work.kind = "prepare"
    BY <2>1, ReturnKeeps DEF Working, WorkLabels
  <2>3. recorded' \subseteq ImplRepos
    BY <2>1 DEF SaveEach, WorktreesInv, WorkTypes
  <2>4. TakenInv'
    BY <2>2 DEF TakenInv, WorkKeeps
  <2> QED
    BY <2>1, <2>2, <2>3, <2>4, CopiesStay, OriginStays, WorktreeSteps
<1> QED
  BY <1>1, <1>2, <1>3

LEMMA PushSteps ==
  ASSUME WorktreesInv,
         PushPhase \/ CommitAcrossRepos \/ AllCommitted \/ PushAcrossRepos \/ PushEnds
  PROVE  WorktreesInv'
<1>1. CASE PushPhase
  <2>1. Begins("commit", recorded) /\ UNCHANGED recorded /\ UNCHANGED Copies
        /\ UNCHANGED Origin
    BY <1>1 DEF PushPhase
  <2>2. recorded \in SUBSET ImplRepos
    BY DEF WorktreesInv, WorkTypes
  <2> QED
    BY <2>1, <2>2, WorkBegins
<1>2. CASE CommitAcrossRepos
  <2>1. PICK r \in ImplRepos :
          /\ Working("commit", "next")
          /\ \/ NextRepo("next", r) /\ UNCHANGED Copies
             \/ MayCommit(r) /\ CommitIn(r) /\ NextRepo("next", r) /\ UNCHANGED dir
             \/ WorkReturns("not pushed") /\ UNCHANGED Copies
          /\ UNCHANGED <<recorded, primary>> /\ UNCHANGED Origin
    BY <1>2 DEF CommitAcrossRepos, WorktreesInv, WorkTypes, WorkState
  <2>2. WorkKeeps /\ work.kind = "commit"
    BY <2>1, NextRepoKeeps, ReturnKeeps DEF Working, WorkLabels
  <2>3. CopiesGrow
    BY <2>1, CommitGrows, CopiesStay
  <2>4. TakenInv'
    BY <2>2 DEF TakenInv, WorkKeeps
  <2>5. recorded' \subseteq ImplRepos
    BY <2>1 DEF WorktreesInv, WorkTypes
  <2> QED
    BY <2>1, <2>2, <2>3, <2>4, <2>5, OriginStays, WorktreeSteps
<1>3. CASE AllCommitted
  <2>1. /\ work.kind = "commit" /\ work.at = "next"
        /\ work' = [work EXCEPT !.kind = "push", !.todo = recorded]
        /\ UNCHANGED recorded /\ UNCHANGED Copies /\ UNCHANGED Origin
    BY <1>3 DEF AllCommitted, Working
  <2>2. work \in WorkState /\ recorded \subseteq ImplRepos
    BY DEF WorktreesInv, WorkTypes
  <2>3. /\ work' \in WorkState /\ work'.kind = "push" /\ work'.at = "next"
        /\ work'.todo = recorded /\ work'.begin = work.begin /\ work'.merged = work.merged
    BY <2>1, <2>2 DEF WorkState
  <2>4. WorkTypes'
    BY <2>1, <2>3 DEF WorktreesInv, WorkTypes, Copies, Origin
  <2>5. BeginHeld' /\ PushInv' /\ TakenInv' /\ TakesAll'
    BY <2>1, <2>3
       DEF WorktreesInv, BeginHeld, PushInv, TakenInv, TakesAll, Copies, Origin
  <2> QED
    BY <2>3, <2>4, <2>5 DEF WorktreesInv
<1>4. CASE PushAcrossRepos
  <2>1. PICK r \in ImplRepos :
          /\ Working("push", "next")
          /\ \/ /\ UNCHANGED remote
                /\ work' = [work EXCEPT !.todo = work.todo \ {r}, !.repo = r,
                      !.untold = IF Ahead(r) THEN work.untold \cup {r} ELSE work.untold]
             \/ /\ PushTakes(r) /\ NextRepo("next", r)
                /\ remote' = [remote EXCEPT ![r] = localBranch[r]]
             \/ /\ UNCHANGED remote
                /\ work' = [work EXCEPT !.todo = work.todo \ {r}, !.repo = r, !.failed = TRUE]
          /\ UNCHANGED <<recorded, main>> /\ UNCHANGED Copies
    BY <1>4 DEF PushAcrossRepos, WorktreesInv, WorkTypes, WorkState
  <2>2. OriginGrows
    BY <2>1, PushGrows, OriginStays DEF Origin
  <2>3. work \in WorkState /\ recorded \subseteq ImplRepos /\ work.kind = "push"
        /\ work.at = "next" /\ \A q \in ImplRepos : work.begin[q] \subseteq localBranch[q]
    BY <2>1 DEF WorktreesInv, WorkTypes, BeginHeld, Working
  <2>4. /\ work' \in WorkState /\ work'.kind = "push" /\ work'.at = "next"
        /\ work'.begin = work.begin /\ work'.merged = work.merged
        /\ work'.todo = work.todo \ {r} /\ (work.failed => work'.failed)
        /\ work.untold \subseteq work'.untold
    <3>1. CASE NextRepo("next", r)
      BY <2>3, <3>1, NextRepoKeeps DEF WorkKeeps, WorkLabels
    <3>2. CASE work' = [work EXCEPT !.todo = work.todo \ {r}, !.repo = r, !.failed = TRUE]
      BY <2>3, <3>2 DEF WorkState
    <3>3. ASSUME NEW told \in SUBSET ImplRepos, work.untold \subseteq told,
                 work' = [work EXCEPT !.todo = work.todo \ {r}, !.repo = r,
                                      !.untold = told]
          PROVE  /\ work' \in WorkState /\ work'.kind = "push" /\ work'.at = "next"
                 /\ work'.begin = work.begin /\ work'.merged = work.merged
                 /\ work'.todo = work.todo \ {r} /\ (work.failed => work'.failed)
                 /\ work.untold \subseteq work'.untold
      BY <2>3, <3>3 DEF WorkState
    <3>4. CASE work' = [work EXCEPT !.todo = work.todo \ {r}, !.repo = r,
                    !.untold = IF Ahead(r) THEN work.untold \cup {r} ELSE work.untold]
      <4>1. work.untold \in SUBSET ImplRepos /\ work.untold \cup {r} \in SUBSET ImplRepos
        BY <2>3 DEF WorkState
      <4>2. CASE Ahead(r)
        <5>1. work' = [work EXCEPT !.todo = work.todo \ {r}, !.repo = r,
                                   !.untold = work.untold \cup {r}]
          BY <3>4, <4>2
        <5> QED
          BY <3>3, <4>1, <5>1
      <4>3. CASE ~Ahead(r)
        <5>1. work' = [work EXCEPT !.todo = work.todo \ {r}, !.repo = r,
                                   !.untold = work.untold]
          BY <3>4, <4>3
        <5> QED
          BY <3>3, <4>1, <5>1
      <4> QED
        BY <4>2, <4>3
    <3> QED
      BY <2>1, <3>1, <3>2, <3>4
  <2>5. ~work'.failed /\ r \notin work'.untold => work.begin[r] \subseteq remote'[r]
    <3>1. CASE /\ UNCHANGED remote
               /\ work' = [work EXCEPT !.todo = work.todo \ {r}, !.repo = r,
                     !.untold = IF Ahead(r) THEN work.untold \cup {r} ELSE work.untold]
      <4>1. CASE Ahead(r)
        <5>1. r \in work'.untold
          BY <2>3, <3>1, <4>1 DEF WorkState
        <5> QED
          BY <5>1
      <4>2. CASE ~Ahead(r)
        <5>1. localBranch[r] = {} \/ localBranch[r] = remote[r]
          BY <4>2 DEF Ahead
        <5> QED
          BY <2>3, <3>1, <5>1
      <4> QED
        BY <4>1, <4>2
    <3>2. CASE PushTakes(r) /\ remote' = [remote EXCEPT ![r] = localBranch[r]]
      <4>1. remote'[r] = localBranch[r]
        BY <2>1, <3>2, PushGrows
      <4> QED
        BY <2>3, <4>1
    <3>3. CASE work' = [work EXCEPT !.todo = work.todo \ {r}, !.repo = r, !.failed = TRUE]
      BY <2>3, <3>3 DEF WorkState
    <3> QED
      BY <2>1, <3>1, <3>2, <3>3
  <2>6. WorkTypes'
    BY <2>1, <2>2, <2>4 DEF WorktreesInv, WorkTypes, Copies, OriginGrows
  <2>7. BeginHeld' /\ TakenInv'
    BY <2>1, <2>3, <2>4 DEF BeginHeld, TakenInv, Copies
  <2>8. PushInv'
    <3> SUFFICES ASSUME ~work'.failed, NEW q \in recorded \ (work'.todo \cup work'.untold)
                 PROVE  work.begin[q] \subseteq remote'[q]
      BY <2>1, <2>4 DEF PushInv
    <3>1. CASE q = r
      BY <2>5, <3>1
    <3>2. CASE q # r
      <4>1. q \in recorded \ (work.todo \cup work.untold) /\ q \in ImplRepos /\ ~work.failed
        BY <2>3, <2>4, <3>2
      <4> QED
        BY <2>2, <2>3, <4>1 DEF WorktreesInv, PushInv, OriginGrows
    <3> QED
      BY <3>1, <3>2
  <2>9. TakesAll'
    <3>1. work.merged \subseteq ImplRepos
      BY <2>3 DEF WorkState
    <3> QED
      BY <2>2, <2>4, <3>1 DEF WorktreesInv, TakesAll, OriginGrows
  <2> QED
    BY <2>4, <2>6, <2>7, <2>8, <2>9 DEF WorktreesInv
<1>5. CASE PushEnds
  <2>1. /\ work.kind = "push" /\ work.todo = {}
        /\ WorkReturns(IF work.failed THEN "not pushed" ELSE "pushed")
        /\ UNCHANGED recorded /\ UNCHANGED Copies /\ UNCHANGED Origin
    BY <1>5 DEF PushEnds, Working
  <2> DEFINE at == IF work.failed THEN "not pushed" ELSE "pushed"
  <2>2. work \in WorkState /\ at \in WorkLabels
    BY DEF WorktreesInv, WorkTypes, WorkLabels
  <2>3. /\ work' \in WorkState /\ work'.kind = "idle" /\ work'.at = at
        /\ work'.begin = work.begin /\ work'.merged = work.merged
        /\ work'.untold = work.untold
    BY <2>1, <2>2, ReturnKeeps
  <2>4. work'.at = "pushed" => ~work.failed
    BY <2>3
  <2> HIDE DEF at
  <2>5. WorkTypes'
    BY <2>1, <2>3 DEF WorktreesInv, WorkTypes, Copies, Origin
  <2>6. BeginHeld' /\ PushInv' /\ TakenInv'
    BY <2>3 DEF BeginHeld, PushInv, TakenInv
  <2>7. TakesAll'
    BY <2>1, <2>3, <2>4 DEF WorktreesInv, PushInv, TakesAll, Origin
  <2> QED
    BY <2>3, <2>5, <2>6, <2>7 DEF WorktreesInv
<1> QED
  BY <1>1, <1>2, <1>3, <1>4, <1>5

LEMMA MergeSteps ==
  ASSUME WorktreesInv,
         \/ Merge \/ MergeRepo \/ GitCommitIfChanges \/ PushBranch \/ MergeInPrimary
         \/ MergeViaPR \/ MergeReturnsNil
  PROVE  WorktreesInv'
<1>1. CASE Merge
  <2>1. Begins("merge", recorded) /\ UNCHANGED recorded /\ UNCHANGED Copies
        /\ UNCHANGED Origin
    BY <1>1 DEF Merge
  <2>2. recorded \in SUBSET ImplRepos
    BY DEF WorktreesInv, WorkTypes
  <2> QED
    BY <2>1, <2>2, WorkBegins
<1> DEFINE turn == /\ work.kind = "merge" /\ WorkKeeps /\ UNCHANGED recorded
<1>2. ASSUME turn, CopiesGrow, OriginGrows, TakenInv'
      PROVE  WorktreesInv'
  <2>1. recorded' \subseteq ImplRepos
    BY <1>2 DEF WorktreesInv, WorkTypes
  <2> QED
    BY <1>2, <2>1, WorktreeSteps
<1>3. CASE MergeRepo
  <2>1. PICK r \in ImplRepos :
          /\ work.kind = "merge" /\ UNCHANGED recorded /\ UNCHANGED Copies /\ UNCHANGED Origin
          /\ NextRepo("next", r) \/ NextRepo("commit", r)
    BY <1>3 DEF MergeRepo, Working, WorktreesInv, WorkTypes, WorkState
  <2>2. turn /\ work'.repo = r /\ work'.at \in {"next", "commit"}
    BY <2>1, NextRepoKeeps DEF WorkLabels
  <2>3. TakenInv'
    BY <2>2 DEF TakenInv, This
  <2> QED
    BY <1>2, <2>1, <2>2, <2>3, CopiesStay, OriginStays
<1>4. CASE GitCommitIfChanges
  <2>1. /\ work.kind = "merge" /\ work.at = "commit" /\ WorkGoes("push")
        /\ \/ MayCommit(This) /\ CommitIn(This) /\ UNCHANGED dir
           \/ UNCHANGED Copies
        /\ UNCHANGED recorded /\ UNCHANGED Origin
    BY <1>4 DEF GitCommitIfChanges, Working
  <2>2. This \in ImplRepos
    BY <2>1 DEF WorktreesInv, TakenInv
  <2>3. turn /\ work'.repo = work.repo /\ work'.at = "push"
    BY <2>1, GoesKeeps DEF WorkLabels
  <2>4. CopiesGrow
    BY <2>1, <2>2, CommitGrows, CopiesStay
  <2>5. TakenInv'
    BY <2>2, <2>3 DEF TakenInv, This
  <2> QED
    BY <1>2, <2>1, <2>3, <2>4, <2>5, OriginStays
<1>5. CASE PushBranch
  <2>1. /\ work.kind = "merge" /\ work.at = "push"
        /\ \/ /\ PushTakes(This) /\ WorkGoes("merge")
              /\ remote' = [remote EXCEPT ![This] = localBranch[This]]
           \/ UNCHANGED remote /\ WorkGoes("next")
        /\ UNCHANGED <<recorded, main>> /\ UNCHANGED Copies
    BY <1>5 DEF PushBranch, Working
  <2>2. This \in ImplRepos
    BY <2>1 DEF WorktreesInv, TakenInv
  <2>3. work.begin[This] \subseteq localBranch[This]
    BY <2>1, <2>2 DEF WorktreesInv, BeginHeld
  <2>4. CASE /\ PushTakes(This) /\ WorkGoes("merge")
             /\ remote' = [remote EXCEPT ![This] = localBranch[This]]
    <3>1. OriginGrows /\ remote'[This] = localBranch[This]
      BY <2>1, <2>2, <2>4, PushGrows
    <3>2. turn /\ work'.repo = work.repo /\ work'.at = "merge"
      BY <2>1, <2>4, GoesKeeps DEF WorkLabels
    <3>3. TakenInv'
      BY <2>2, <2>3, <3>1, <3>2 DEF TakenInv, This, WorkKeeps
    <3> QED
      BY <1>2, <2>1, <3>1, <3>2, <3>3, CopiesStay
  <2>5. CASE UNCHANGED remote /\ WorkGoes("next")
    <3>1. turn /\ work'.at = "next"
      BY <2>1, <2>5, GoesKeeps DEF WorkLabels
    <3>2. TakenInv'
      BY <3>1 DEF TakenInv
    <3> QED
      BY <1>2, <2>1, <2>5, <3>1, <3>2, CopiesStay, OriginStays DEF Origin
  <2> QED
    BY <2>1, <2>4, <2>5
<1>6. CASE MergeInPrimary
  <2>1. /\ work.kind = "merge" /\ work.at = "merge"
        /\ WorkGoes("next") \/ WorkGoes("pull request")
        /\ UNCHANGED recorded /\ UNCHANGED Copies /\ UNCHANGED Origin
    BY <1>6 DEF MergeInPrimary, Working
  <2>2. turn /\ work'.repo = work.repo
    BY <2>1, GoesKeeps DEF WorkLabels
  <2>3. TakenInv'
    BY <2>1, <2>2 DEF WorktreesInv, TakenInv, This, WorkKeeps, Origin
  <2> QED
    BY <1>2, <2>1, <2>2, <2>3, CopiesStay, OriginStays
<1>7. CASE MergeViaPR
  <2>1. /\ work.kind = "merge" /\ work.at = "pull request"
        /\ \/ /\ main' = [main EXCEPT ![This] = main[This] \cup remote[This]]
              /\ work' = [work EXCEPT !.at = "next", !.merged = work.merged \cup {This}]
           \/ UNCHANGED main /\ WorkGoes("next")
        /\ UNCHANGED <<recorded, remote>> /\ UNCHANGED Copies
    BY <1>7 DEF MergeViaPR, Working
  <2>2. This \in ImplRepos /\ work.begin[This] \subseteq remote[This]
    BY <2>1 DEF WorktreesInv, TakenInv
  <2>3. CASE /\ main' = [main EXCEPT ![This] = main[This] \cup remote[This]]
             /\ work' = [work EXCEPT !.at = "next", !.merged = work.merged \cup {This}]
    <3>1. work \in WorkState /\ main \in [ImplRepos -> SUBSET Commits]
          /\ remote \in [ImplRepos -> SUBSET Commits]
      BY DEF WorktreesInv, WorkTypes
    <3>2. /\ work' \in WorkState /\ work'.kind = "merge" /\ work'.at = "next"
          /\ work'.begin = work.begin /\ work'.merged = work.merged \cup {This}
      <4> DEFINE repo == This
      <4>1. repo \in ImplRepos /\ work' = [work EXCEPT !.at = "next", !.merged = work.merged \cup {repo}]
        BY <2>2, <2>3
      <4> HIDE DEF repo
      <4>2. /\ work' \in WorkState /\ work'.kind = "merge" /\ work'.at = "next"
            /\ work'.begin = work.begin /\ work'.merged = work.merged \cup {repo}
        BY <2>1, <3>1, <4>1 DEF WorkState, WorkLabels
      <4> QED
        BY <4>2 DEF repo
    <3>3. OriginGrows /\ main'[This] = main[This] \cup remote[This]
      BY <2>1, <2>2, <2>3, <3>1 DEF OriginGrows
    <3>4. WorkTypes'
      BY <2>1, <3>2, <3>3 DEF WorktreesInv, WorkTypes, Copies, OriginGrows
    <3>5. BeginHeld' /\ PushInv' /\ TakenInv'
      BY <2>1, <3>2 DEF WorktreesInv, BeginHeld, PushInv, TakenInv, Copies
    <3>6. TakesAll'
      <4>1. work.merged \subseteq ImplRepos
        BY <3>1 DEF WorkState
      <4>2. ASSUME NEW r \in work.merged
            PROVE  work.begin[r] \subseteq main'[r]
        BY <3>3, <4>1, <4>2 DEF WorktreesInv, TakesAll, OriginGrows
      <4>3. work.begin[This] \subseteq main'[This]
        BY <2>2, <3>3
      <4> QED
        BY <3>2, <4>2, <4>3 DEF TakesAll
    <3> QED
      BY <3>2, <3>4, <3>5, <3>6 DEF WorktreesInv
  <2>4. CASE UNCHANGED main /\ WorkGoes("next")
    <3>1. turn /\ work'.at = "next"
      BY <2>1, <2>4, GoesKeeps DEF WorkLabels
    <3>2. TakenInv'
      BY <3>1 DEF TakenInv
    <3> QED
      BY <1>2, <2>1, <2>4, <3>1, <3>2, CopiesStay, OriginStays DEF Origin
  <2> QED
    BY <2>1, <2>3, <2>4
<1>8. CASE MergeReturnsNil
  <2>1. /\ work.kind = "merge" /\ WorkReturns("merged")
        /\ UNCHANGED recorded /\ UNCHANGED Copies /\ UNCHANGED Origin
    BY <1>8 DEF MergeReturnsNil, Working
  <2>2. turn /\ work'.kind = "idle"
    BY <2>1, ReturnKeeps DEF WorkLabels
  <2>3. TakenInv'
    BY <2>2 DEF TakenInv
  <2> QED
    BY <1>2, <2>1, <2>2, <2>3, CopiesStay, OriginStays
<1> QED
  BY <1>1, <1>3, <1>4, <1>5, <1>6, <1>7, <1>8

LEMMA WorktreesSteps == WorktreesInv /\ [WorktreesNext]_worktreeVars => WorktreesInv'
<1> SUFFICES ASSUME WorktreesInv, [WorktreesNext]_worktreeVars PROVE WorktreesInv'
  OBVIOUS
<1>1. CASE UNCHANGED worktreeVars
  BY <1>1, WorkAside, CopiesStay, OriginStays DEF worktreeVars, Copies, Origin
<1>2. CASE WorktreesNext
  BY <1>2, CopiesSteps, PrepareSteps, PushSteps, MergeSteps DEF WorktreesNext
<1> QED
  BY <1>1, <1>2

\* A phase push that returned no error left all that was there when it began on
\* origin's branch, but where the check for commits to push failed untold; and a
\* merged pull request took all its working copy held when the merge began, also
\* what a push had passed over: what is committed is only added to while the
\* work goes on, and the merge does not go past a branch that was refused
\* (pipeline.go, PushPhaseChanges and MergeFeatureToMain; manager.go,
\* hasUnpushedCommits).
THEOREM PushAndMergeTakeAll == WorktreesSpec => []TakesAll
<1>1. WorktreesInv => TakesAll
  BY DEF WorktreesInv
<1> QED
  BY WorktreesStart, WorktreesSteps, <1>1, PTL DEF WorktreesSpec

\* The repositories, the working copies and what the pipeline does with them have
\* their types in every state: no commit is in a branch but those of the model's,
\* and what is merged or left to do is of the feature's repositories.
THEOREM WorktreesTypeCorrect == WorktreesSpec => []WorktreesTypeOK
<1>1. WorktreesInv => WorktreesTypeOK
  <2> SUFFICES ASSUME WorktreesInv PROVE WorktreesTypeOK
    OBVIOUS
  <2>1. WorkTypes
    BY DEF WorktreesInv
  <2>2. work.todo \subseteq ImplRepos /\ work.merged \subseteq ImplRepos
        /\ work.untold \subseteq ImplRepos
        /\ work.kind \in {"idle", "prepare", "commit", "push", "merge"}
    BY <2>1 DEF WorkTypes, WorkState
  <2>3. \A r \in ImplRepos : localBranch[r] \subseteq Commits /\ remote[r] \subseteq Commits
                             /\ main[r] \subseteq Commits
    BY <2>1 DEF WorkTypes
  <2> QED
    BY <2>1, <2>2, <2>3 DEF WorkTypes, WorktreesTypeOK
<1> QED
  BY WorktreesStart, WorktreesSteps, <1>1, PTL DEF WorktreesSpec

=============================================================================
