-------------------------- MODULE RoutingSnapshot ---------------------------
(***************************************************************************)
(* The routing snapshot of internal/proxy/catalog.go: how it is built from *)
(* the four tables that LoadRoutingData reads, and the lookups the router  *)
(* makes in it.                                                            *)
(*                                                                         *)
(* Tables whose order decides the order of the candidates are sequences    *)
(* (aliases ORDER BY alias, priority DESC; models ORDER BY provider,       *)
(* model), the others are sets.                                            *)
(***************************************************************************)
EXTENDS Integers, Sequences

RoutingDataType(Providers, Names, Paths) ==
    [providers : SUBSET [id : Providers, isHealthy : BOOLEAN,
                         circuitBreakerEnabled : BOOLEAN, validURL : BOOLEAN],
     models    : Seq([provider : Providers, model : Names, isAvailable : BOOLEAN]),
     aliases   : Seq([alias : Names, provider : Providers, model : Names,
                      weight : Int, priority : Int, isEnabled : BOOLEAN]),
     endpoints : SUBSET [provider : Providers, path : Paths,
                         isSupported : BOOLEAN, isEnabled : BOOLEAN]]

\* A candidate holds a copy of the provider's row.
RouteCandidate(provider, model, weight, priority) ==
    [provider |-> provider, model |-> model, weight |-> weight, priority |-> priority]
-----------------------------------------------------------------------------
(***************************************************************************)
(* buildRoutingSnapshot.  (ServingUnhealthy is wrong on purpose.)          *)
(***************************************************************************)
ProvidersByID(data) ==
    [id \in {p.id : p \in data.providers} |-> CHOOSE p \in data.providers : p.id = id]

ServingUnhealthy(providers, id) == id \in DOMAIN providers

Serving(providers, id) == id \in DOMAIN providers /\ providers[id].isHealthy

\* A provider may be used under an alias for a model it has no row for.
KnownUnavailable(data, provider, model) ==
    \E i \in DOMAIN data.models :
        /\ data.models[i].provider = provider
        /\ data.models[i].model = model
        /\ ~data.models[i].isAvailable

\* The rows with the given indices, in the order of the table, as the loops
\* over the rows append them.
Selected(rows, indices) ==
    LET upTo[n \in 0 .. Len(rows)] ==
            IF n = 0 THEN <<>>
            ELSE IF n \in indices THEN Append(upTo[n - 1], rows[n]) ELSE upTo[n - 1]
    IN  upTo[Len(rows)]

DirectModels(data, providers, name) ==
    LET usable == {i \in DOMAIN data.models :
                      /\ data.models[i].model = name
                      /\ data.models[i].isAvailable
                      /\ Serving(providers, data.models[i].provider)}
        rows == Selected(data.models, usable)
    IN  [i \in DOMAIN rows |-> RouteCandidate(providers[rows[i].provider], name, 1, 0)]

Aliases(data, providers, name) ==
    LET usable == {i \in DOMAIN data.aliases :
                      /\ data.aliases[i].alias = name
                      /\ data.aliases[i].isEnabled
                      /\ Serving(providers, data.aliases[i].provider)
                      /\ ~KnownUnavailable(data, data.aliases[i].provider, data.aliases[i].model)}
        rows == Selected(data.aliases, usable)
    IN  [i \in DOMAIN rows |->
            RouteCandidate(providers[rows[i].provider], rows[i].model,
                           rows[i].weight, rows[i].priority)]

BuildRoutingSnapshot(data) ==
    LET providers == ProvidersByID(data)
        available == {data.models[i].model : i \in {k \in DOMAIN data.models : data.models[k].isAvailable}}
        aliased == {data.aliases[i].alias : i \in DOMAIN data.aliases}
        direct  == {data.models[i].model : i \in DOMAIN data.models}
    IN  [providers      |-> providers,
         endpoints      |-> {<<e.provider, e.path>> :
                                e \in {e \in data.endpoints : e.isSupported /\ e.isEnabled}},
         directModels   |-> [n \in direct |-> DirectModels(data, providers, n)],
         aliases        |-> [n \in aliased |-> Aliases(data, providers, n)],
         publicModelIDs |-> available \cup {n \in aliased : Aliases(data, providers, n) # <<>>}]
-----------------------------------------------------------------------------
(***************************************************************************)
(* The lookups.  Each loads the pointer to the snapshot anew.              *)
(***************************************************************************)
AliasCandidates(snap, alias) ==
    IF alias \in DOMAIN snap.aliases THEN snap.aliases[alias] ELSE <<>>

DirectCandidates(snap, model) ==
    IF model \in DOMAIN snap.directModels THEN snap.directModels[model] ELSE <<>>

HasEnabledEndpoint(snap, id, path) == <<id, path>> \in snap.endpoints

\* A provider that is not in the snapshot is taken to have its breaker on.
CircuitBreakerEnabled(snap, id) ==
    id \in DOMAIN snap.providers => snap.providers[id].circuitBreakerEnabled
-----------------------------------------------------------------------------
(***************************************************************************)
(* What the store itself says of a name, by its queries ResolveAlias and   *)
(* GetHealthyProvidersForModel: the snapshot replaces them.                *)
(***************************************************************************)
ResolveAlias(data, alias) ==
    {data.aliases[i] : i \in {k \in DOMAIN data.aliases :
                                data.aliases[k].alias = alias /\ data.aliases[k].isEnabled}}

GetHealthyProvidersForModel(data, model) ==
    {p \in data.providers :
        /\ p.isHealthy
        /\ \E i \in DOMAIN data.models : data.models[i] = [provider |-> p.id, model |-> model,
                                                          isAvailable |-> TRUE]}
=============================================================================
