------------------------------ MODULE MCProxy -------------------------------
(***************************************************************************)
(* Proxy for model checking: two providers p1 and p2, the tables that make *)
(* the router behave differently, and what happens around the handlers.    *)
(***************************************************************************)
EXTENDS Proxy, TLC

CONSTANTS p1, p2, r1, r2

ProviderRow(p, healthy, breaker, validURL) ==
    [id |-> p, isHealthy |-> healthy, circuitBreakerEnabled |-> breaker, validURL |-> validURL]
Up(p) == ProviderRow(p, TRUE, TRUE, TRUE)
Alias(p, weight, priority, enabled) ==
    [alias |-> "m", provider |-> p, model |-> "n", weight |-> weight,
     priority |-> priority, isEnabled |-> enabled]
Model(p, model, available) == [provider |-> p, model |-> model, isAvailable |-> available]
Endpoint(p, enabled) ==
    [provider |-> p, path |-> EndpointPath, isSupported |-> TRUE, isEnabled |-> enabled]

Tables(providers, models, aliases, endpoints) ==
    [providers |-> providers, models |-> models, aliases |-> aliases, endpoints |-> endpoints]
BothUp == {Up(p1), Up(p2)}
BothServe == {Endpoint(p1, TRUE), Endpoint(p2, TRUE)}
PreferP1 == <<Alias(p1, 1, 1, TRUE), Alias(p2, 1, 0, TRUE)>>

\* An alias with a first choice and a spare.
Preferred == Tables(BothUp, <<>>, PreferP1, BothServe)
\* The model itself: either provider, at random.
Balanced == Tables(BothUp, <<Model(p1, "m", TRUE), Model(p2, "m", TRUE)>>, <<>>, BothServe)
\* The first choice has a broken URL; the spare is never cut off.
Misconfigured ==
    Tables({ProviderRow(p1, TRUE, TRUE, FALSE), ProviderRow(p2, TRUE, FALSE, TRUE)}, <<>>, PreferP1, BothServe)
\* The first choice has weight 0, so that nobody is chosen while it is up.
Unroutable == Tables(BothUp, <<>>, <<Alias(p1, 0, 1, TRUE), Alias(p2, 1, 0, TRUE)>>, BothServe)
\* Only one of the candidates serves the endpoint, and its model is known.
OneEndpoint == Tables(BothUp, <<Model(p2, "n", TRUE)>>, PreferP1, {Endpoint(p1, FALSE), Endpoint(p2, TRUE)})
\* A health check has taken the first choice out.
Unhealthy == Tables({ProviderRow(p1, FALSE, TRUE, TRUE), Up(p2)},
                    <<Model(p1, "m", TRUE), Model(p2, "m", TRUE)>>, PreferP1, BothServe)
\* The first choice has lost its model and the alias to the spare is disabled,
\* so that the name stands for the model of the spare.
Withdrawn == Tables(BothUp, <<Model(p1, "n", FALSE), Model(p2, "m", TRUE)>>,
                    <<Alias(p1, 1, 1, TRUE), Alias(p2, 1, 0, FALSE)>>, BothServe)
\* The first choice is deleted, and the spare has no breaker.
Deleted == Tables({ProviderRow(p2, TRUE, FALSE, TRUE)}, <<>>, <<Alias(p2, 1, 0, TRUE)>>, {Endpoint(p2, TRUE)})
\* An alias to two models of one provider.
Twice == Tables({Up(p1)}, <<>>, <<Alias(p1, 1, 0, TRUE), [Alias(p1, 1, 0, TRUE) EXCEPT !.model = "m"]>>,
                {Endpoint(p1, TRUE)})

Scenario(tables, kind1, kind2, n) ==
    [loads |-> tables, kinds |-> (r1 :> kind1 @@ r2 :> kind2), probes |-> n]

\* Two requests that meet at the breakers.
Contention == {Scenario(<<Preferred>>, k[1], k[2], 0) : k \in {<<"plain", "stream">>}}
\* One request of each kind, with a health check, for each kind of table.
Varieties == {Scenario(<<t>>, k, "absent", 1) :
    t \in {Preferred, Balanced, Misconfigured, Unroutable, OneEndpoint}, k \in Kinds}
\* One request while the tables change, and change again.
Changes == {Scenario(<<t, u, w>>, "plain", "absent", 1) :
    t \in {Preferred}, u \in {Unhealthy, Withdrawn, Deleted, OneEndpoint}, w \in {Balanced, Preferred}}

\* A breaker that trips between the questions for two candidates of one provider.
Doubles == {Scenario(<<Twice>>, "audio", "absent", 1)}

AllScenarios == Contention \cup Varieties \cup Changes \cup Doubles
OneStream == {Scenario(<<Preferred>>, "stream", "absent", 0)}
=============================================================================
