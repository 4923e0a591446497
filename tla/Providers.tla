----------------------------- MODULE Providers ------------------------------
(* The language-model providers: the settings requests that write them,    *)
(* the tiers and the role overrides, and what a dispatch makes of them.    *)
(* A request checks the provider in one query, the model in another, and   *)
(* writes in a third; a dispatch reads the providers, the overrides and    *)
(* the tiers in three queries.                                             *)
(***************************************************************************)
EXTENDS Naturals, FiniteSets

CONSTANTS
    ProviderNames, \* numbers, in alphabetical order of the names
    SeedProvider,  \* the provider to which migration 020 assigns the tier
    Models,        \* the models a provider may list
    SeedModel,     \* the model migration 020 gives that provider
    SettingsReqs,  \* settings requests that may be under way
    MaxWrites      \* bound: settings requests that are made

ASSUME ProvidersAssumption ==
    /\ ProviderNames \subseteq Nat \ {0} /\ SeedProvider \in ProviderNames
    /\ SeedModel \in Models /\ "" \notin Models /\ MaxWrites \in Nat

VARIABLES
    providers,  \* the providers table, with provider_models
    tierModels, \* tier_models of the role's tier: the model for each provider
    override,   \* the role_overrides row of the role
    wreq,       \* each settings request: where it is, and what it asks
    writes,     \* how many requests were made
    dispatch    \* the dispatch's resolution: where it is, and what it read

providerVars == <<providers, tierModels, override, wreq, writes, dispatch>>

\* keyed: api_key_env is empty or names a variable that is set.
NoProvider == [row |-> FALSE, enabled |-> FALSE, models |-> {}, default |-> "",
               keyed |-> TRUE]
ProviderRows == [row : {TRUE}, enabled : BOOLEAN, models : SUBSET Models,
                 default : Models \cup {""}, keyed : BOOLEAN]
NoOverride == [provider |-> 0, model |-> ""]
Overrides == [provider : ProviderNames, model : Models \cup {""}] \cup {NoOverride}
NoWrite == [at |-> "idle", provider |-> 0, model |-> ""]
\* What a dispatch ends with: a provider and model, opencode's default, or an
\* error, "unknown" when an override names a provider it did not read.
Resolved(end, provider, model) == [end |-> end, provider |-> provider, model |-> model]
Unresolved == Resolved("none", 0, "")
NoDispatch == [at |-> "idle", providers |-> [p \in ProviderNames |-> NoProvider],
               override |-> NoOverride, result |-> Unresolved, created |-> {}]

\* Migration 020 assigns each tier to one enabled provider.
ProvidersInit ==
    /\ providers = [p \in ProviderNames |-> IF p # SeedProvider THEN NoProvider ELSE
                       [row |-> TRUE, enabled |-> TRUE, models |-> {SeedModel},
                        default |-> SeedModel, keyed |-> TRUE]]
    /\ tierModels = [p \in ProviderNames |-> IF p = SeedProvider THEN SeedModel ELSE ""]
    /\ override = NoOverride
    /\ wreq = [w \in SettingsReqs |-> NoWrite] /\ writes = 0
    /\ dispatch = NoDispatch

-----------------------------------------------------------------------------
(* What the stores and the resolution compute.                             *)

\* MergeProviders(nil): the database's providers, sorted by name.
Merged(table) == {p \in ProviderNames : table[p].row}
EnabledIn(table) == {p \in Merged(table) : table[p].enabled}

\* ResolveTier: the first enabled provider, by name, that has a row for the tier.
ResolveTier(table, models) ==
    LET able == {p \in EnabledIn(table) : models[p] # ""}
    IN  IF able = {} THEN 0 ELSE CHOOSE p \in able : \A q \in able : p <= q

OrDefault(model, row) == IF model = "" THEN row.default ELSE model

\* Step 6 of ResolveProvider: a provider whose key variable is unset is an
\* error; no other provider is tried.
WithKey(table, p, model) ==
    IF table[p].keyed THEN Resolved("ok", p, model) ELSE Resolved("key unset", p, "")

\* Mutant: disabled providers are not found.
FindEnabledOnly(table, p) == p \in EnabledIn(table)
\* findProvider: whether it is enabled is not asked.
FindProvider(table, p) == p \in Merged(table)

\* ResolveProvider, of what the dispatch read and of tier_models as it is now.
ResolveProvider(table, chosen, models) ==
    LET byTier == ResolveTier(table, models)
        sole   == EnabledIn(table)
    IN  CASE Merged(table) = {} -> Resolved("opencode", 0, "")
          [] Merged(table) # {} /\ chosen # NoOverride ->
                IF FindProvider(table, chosen.provider)
                THEN WithKey(table, chosen.provider,
                             OrDefault(chosen.model, table[chosen.provider]))
                ELSE Resolved("unknown", chosen.provider, "")
          [] chosen = NoOverride /\ byTier # 0 -> WithKey(table, byTier, models[byTier])
          [] chosen = NoOverride /\ byTier = 0 /\ Merged(table) # {} ->
                IF Cardinality(sole) # 1 THEN Resolved("opencode", 0, "")
                ELSE LET p == CHOOSE p \in sole : TRUE
                     IN  WithKey(table, p, table[p].default)

\* Mutant: the page shows the first provider with a row.
ShownAnyEnabled(table, models) ==
    LET rows == {p \in ProviderNames : models[p] # ""}
    IN  IF rows = {} THEN 0 ELSE CHOOSE p \in rows : \A q \in rows : p <= q
\* What GET /api/config/tiers shows as the tier's resolution.
ShownResolved(table, models) ==
    LET rows == {p \in ProviderNames : models[p] # "" /\ table[p].enabled}
    IN  IF rows = {} THEN 0 ELSE CHOOSE p \in rows : \A q \in rows : p <= q

-----------------------------------------------------------------------------
(* The settings requests.                                                  *)

Asks(w, at, p, model) ==
    /\ wreq[w] = NoWrite /\ writes < MaxWrites
    /\ wreq' = [wreq EXCEPT ![w] = [at |-> at, provider |-> p, model |-> model]]
    /\ writes' = writes + 1
Answers400(w) == wreq' = [wreq EXCEPT ![w] = NoWrite]
ChecksOut(w, at) == wreq' = [wreq EXCEPT ![w].at = at]

\* The row and its models in one transaction.
UpsertProvider(p, row) == providers' = [providers EXCEPT ![p] = row]

\* PUT /api/config/providers.
PutProvider(w) == \E p \in ProviderNames, row \in ProviderRows :
    /\ Asks(w, "idle", 0, "")
    /\ UpsertProvider(p, row)
    /\ dispatch' = IF providers[p].row \/ dispatch.at # "overrides" THEN dispatch
                   ELSE [dispatch EXCEPT !.created = @ \cup {p}]
    /\ UNCHANGED <<tierModels, override>>

\* PUT /api/config/tiers and /role-overrides begin; a tier must name a model.
PutTier(w) == \E p \in ProviderNames, model \in Models :
    /\ Asks(w, "tier enabled?", p, model)
    /\ UNCHANGED <<providers, tierModels, override, dispatch>>
PutRoleOverride(w) == \E p \in ProviderNames, model \in Models \cup {""} :
    /\ Asks(w, "role enabled?", p, model)
    /\ UNCHANGED <<providers, tierModels, override, dispatch>>
RemoveRoleOverride(w) ==
    /\ Asks(w, "idle", 0, "")
    /\ override' = NoOverride
    /\ UNCHANGED <<providers, tierModels, dispatch>>

\* ProviderEnabled; an override without a model has none to check.
CheckEnabled(w) ==
    /\ wreq[w].at \in {"tier enabled?", "role enabled?"}
    /\ IF ~providers[wreq[w].provider].enabled THEN Answers400(w)
       ELSE ChecksOut(w, CASE wreq[w].at = "tier enabled?" -> "tier model?"
                           [] wreq[w].at = "role enabled?" /\ wreq[w].model # ""
                              -> "role model?"
                           [] OTHER -> "role write")
    /\ UNCHANGED <<providers, tierModels, override, writes, dispatch>>

\* ModelExistsForProvider
CheckModel(w) ==
    /\ wreq[w].at \in {"tier model?", "role model?"}
    /\ IF wreq[w].model \notin providers[wreq[w].provider].models THEN Answers400(w)
       ELSE ChecksOut(w, IF wreq[w].at = "tier model?" THEN "tier write"
                                                       ELSE "role write")
    /\ UNCHANGED <<providers, tierModels, override, writes, dispatch>>

\* UpsertTierModel
WriteTier(w) ==
    /\ wreq[w].at = "tier write"
    /\ tierModels' = [tierModels EXCEPT ![wreq[w].provider] = wreq[w].model]
    /\ Answers400(w) /\ UNCHANGED <<providers, override, writes, dispatch>>

\* UpsertRoleOverride
WriteRoleOverride(w) ==
    /\ wreq[w].at = "role write"
    /\ override' = [provider |-> wreq[w].provider, model |-> wreq[w].model]
    /\ Answers400(w) /\ UNCHANGED <<providers, tierModels, writes, dispatch>>

-----------------------------------------------------------------------------
(* ResolveProviderForRole.                                                 *)

ReadProviders ==
    /\ dispatch.at = "idle"
    /\ dispatch' = [NoDispatch EXCEPT !.at = "overrides", !.providers = providers]
    /\ UNCHANGED <<providers, tierModels, override, wreq, writes>>

ReadOverrides ==
    /\ dispatch.at = "overrides"
    /\ dispatch' = [dispatch EXCEPT !.at = "tiers", !.override = override]
    /\ UNCHANGED <<providers, tierModels, override, wreq, writes>>

ReadTiers ==
    /\ dispatch.at = "tiers"
    /\ dispatch' = [dispatch EXCEPT !.at = "resolved",
          !.result = ResolveProvider(dispatch.providers, dispatch.override, tierModels)]
    /\ UNCHANGED <<providers, tierModels, override, wreq, writes>>

ProvidersNext ==
    \/ \E w \in SettingsReqs :
          \/ PutProvider(w) \/ PutTier(w) \/ PutRoleOverride(w) \/ RemoveRoleOverride(w)
          \/ CheckEnabled(w) \/ CheckModel(w) \/ WriteTier(w) \/ WriteRoleOverride(w)
    \/ ReadProviders \/ ReadOverrides \/ ReadTiers

ProvidersSpec == ProvidersInit /\ [][ProvidersNext]_providerVars

-----------------------------------------------------------------------------
(* Properties.                                                             *)

\* The tables, requests and the dispatch have their types.
ProvidersTypeOK ==
    /\ providers \in [ProviderNames -> ProviderRows \cup {NoProvider}]
    /\ tierModels \in [ProviderNames -> Models \cup {""}]
    /\ override \in Overrides
    /\ \A w \in SettingsReqs : wreq[w].at \in {"idle", "tier enabled?", "tier model?",
          "tier write", "role enabled?", "role model?", "role write"}
    /\ writes \in 0..MaxWrites
    /\ dispatch.at \in {"idle", "overrides", "tiers", "resolved"}
    /\ dispatch.result.end \in {"none", "ok", "opencode", "unknown", "key unset"}

\* A dispatch fails for a provider it does not know only if that provider was
\* created while it was resolving: an override outlives every change to its
\* provider, also its being disabled (resolve.go, findProvider).
UnknownOnlyNew ==
    dispatch.result.end = "unknown" => dispatch.result.provider \in dispatch.created

\* What the settings page shows as the resolution of a tier is what a dispatch
\* that starts now gets, if the role has no override and nothing is written
\* meanwhile: the page and the dispatch compute it on their own.
ShownIsUsed ==
    ShownResolved(providers, tierModels) = ResolveTier(providers, tierModels)

=============================================================================
