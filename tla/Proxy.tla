-------------------------------- MODULE Proxy --------------------------------
(***************************************************************************)
(* Requests on their way through the gateway: the proxy handlers of        *)
(* internal/proxy/handler.go with their attempts, the router they ask, the *)
(* circuit breakers (module Breaker) they share with each other and with   *)
(* the health checker, and the registry of active requests.                *)
(*                                                                         *)
(* Every request runs in its own goroutine.  A step is what a handler does *)
(* between two points where others may come in: one lookup in the routing  *)
(* snapshot, one question to a breaker, the choice of a provider, the      *)
(* reaction to a response.  Meanwhile the catalog may publish another      *)
(* snapshot (how it comes by one is RoutingCatalog), so that one call of   *)
(* Route may meet several: it loads the pointer anew for the alias, for    *)
(* the model, and for the endpoint of each candidate.  All requests name   *)
(* one model and one endpoint.                                             *)
(* Bodies, headers and tokens are left out; a status is its class unless   *)
(* the gateway makes it up itself.                                         *)
(***************************************************************************)
EXTENDS Breaker, Router

CONSTANTS
    Requests,          \* client requests
    Providers,
    Names,             \* model names and aliases
    RequestedModel,    \* the name in every request
    EndpointPath,      \* the path of every request
    Threshold, Window, Cooldown, \* breaker settings of every provider
    MaxProxyAttempts,  \* 3 in the code
    Scenarios,         \* what may happen around the handlers, see ScenarioType
    MaxTime            \* bound of the model: the clock

\* "plain" is proxyNonStreaming, "audio" a transcription.
Kinds == {"plain", "stream", "audio"}

\* A scenario bounds what goes on in one behaviour: the contents of the
\* tables at the start and at each reload, the requests that are made, the
\* number of health-check results.
ScenarioType ==
    [loads  : Seq(RoutingDataType(Providers, Names, {EndpointPath})),
     kinds  : [Requests -> Kinds \cup {"absent"}],
     probes : Nat]

ASSUME ProxyConstants ==
    /\ MaxProxyAttempts \in Nat \ {0}
    /\ Threshold \in 1..100 /\ Window \in Nat \ {0} /\ Cooldown \in Nat \ {0}
    /\ MaxTime \in Nat
    /\ RequestedModel \in Names
    /\ \A s \in Scenarios : s \in ScenarioType /\ s.loads # <<>>

VARIABLES
    loads,     \* the tables as the reloads of this behaviour find them
    version,   \* the number of loads published
    snap,      \* RoutingCatalog.snap
    breakers,  \* SmartRouter.breakers
    now,       \* the clock
    rq,        \* the handlers' local state, below
    active,    \* ActiveRegistry.active
    probes,    \* health-check results still to come
    faulty,    \* history: providers that ever failed to do their part
    severed,   \* history: providers with a stream that could not be written on
    tripped    \* history: providers that tripped since they let the request pass

vars == <<loads, version, snap, breakers, now, rq, active, probes, faulty, severed, tripped>>

Statuses == {"2xx", "4xx", "5xx", "200", "499", "500", "502", "503"}

RequestType ==
    [kind     : Kinds \cup {"absent"},
     pc       : {"new", "routing", "direct", "asking", "sent", "streaming", "done"},
     attempt  : 1..MaxProxyAttempts,
     since    : Nat,                     \* history: version when Route was called
     cands    : Seq([provider : UNION {data.providers : data \in {loads[v] : v \in DOMAIN loads}},
                     model : Names, weight : Int, priority : Int]),
     asked    : Nat,                     \* how many of cands have been asked
     kept     : SUBSET Nat,              \* indices of those that passed
     checked  : SUBSET Nat,              \* those of kept whose endpoint was looked up
     serving  : SUBSET Nat,              \* and those where it was enabled
     provider : Providers \cup {"none"}, \* the route: provider
     model    : Names \cup {"none"},     \* and model
     resp     : {"none", "2xx", "4xx", "5xx", "error", "canceled", \* from client.Do
                 "end", "broken", "unwritable"},                   \* of a stream
     status   : Statuses \cup {"none"},  \* of the response being streamed
     answer   : Statuses \cup {"none"},  \* what the client has got
     gone     : BOOLEAN,                 \* the client has closed the connection
     logs     : Seq(Statuses)]           \* handed to the metrics collector

TypeOK ==
    /\ version \in DOMAIN loads
    /\ snap = BuildRoutingSnapshot(loads[version])
    /\ breakers \in [Providers -> CircuitBreakerType]
    /\ now \in 0..MaxTime
    /\ rq \in [Requests -> RequestType]
    /\ active \subseteq Requests
    /\ probes \in Nat
    /\ faulty \subseteq Providers /\ severed \subseteq Providers
    /\ tripped \in [Requests -> SUBSET Providers]

Init ==
    /\ \E s \in Scenarios :
         /\ loads = s.loads
         /\ probes = s.probes
         /\ rq = [r \in Requests |->
                 [kind |-> s.kinds[r], pc |-> "new", attempt |-> 1, since |-> 0,
                  cands |-> <<>>, asked |-> 0, kept |-> {}, checked |-> {}, serving |-> {},
                  provider |-> "none", model |-> "none", resp |-> "none", status |-> "none",
                  answer |-> "none", gone |-> FALSE, logs |-> <<>>]]
    /\ version = 1
    /\ snap = BuildRoutingSnapshot(loads[1])
    /\ breakers = [p \in Providers |-> NewCircuitBreaker(0, Threshold, Window, Cooldown)]
    /\ now = 0
    /\ active = {}
    /\ faulty = {}
    /\ severed = {}
    /\ tripped = [r \in Requests |-> {}]
-----------------------------------------------------------------------------
(***************************************************************************)
(* Reports to the breakers.  The id of an outcome is the number of the     *)
(* outcomes of the same kind and the same tick before it.                  *)
(***************************************************************************)
Enabled(p) == CircuitBreakerEnabled(snap, p)

SameTick(outcomes) == Cardinality({o \in outcomes : o.at = now})

SetBreaker(p, cb) ==
    /\ breakers' = [breakers EXCEPT ![p] = cb]
    /\ tripped' = IF breakers[p].state # "Open" /\ cb.state = "Open"
                  THEN [r \in Requests |-> IF rq[r].pc = "asking" THEN tripped[r] \cup {p}
                                                                    ELSE tripped[r]]
                  ELSE tripped

ReportSuccess(p) ==
    IF Enabled(p)
    THEN SetBreaker(p, RecordSuccess(breakers[p], now, SameTick(breakers[p].successes)))
    ELSE UNCHANGED <<breakers, tripped>>

ReportFailure(p) ==
    IF Enabled(p)
    THEN SetBreaker(p, RecordFailure(breakers[p], now, SameTick(breakers[p].failures)))
    ELSE UNCHANGED <<breakers, tripped>>

NoReport == UNCHANGED <<breakers, tripped>>
-----------------------------------------------------------------------------
(***************************************************************************)
(* How a handler's step ends: with another attempt, or with the answer,    *)
(* the log record and the deferred End.  (RetryWithoutCounting, LogTwice,  *)
(* LastAttemptOffByOne, and below PassAlways, CanceledBlamesProvider and   *)
(* FailoverMidStream, are wrong on purpose: plausible slips, to see that   *)
(* the properties notice.)                                                 *)
(***************************************************************************)
Catalog == <<loads, version, snap>>
Env == <<Catalog, now, probes, faulty, severed>>

\* The handler's state when Route has returned: what Route kept is gone.
Routed(r) ==
    [rq[r] EXCEPT !.since = 0, !.cands = <<>>, !.asked = 0, !.kept = {},
                  !.checked = {}, !.serving = {}]

RetryWithoutCounting(r) ==
    /\ rq' = [rq EXCEPT ![r] = [Routed(r) EXCEPT !.pc = "routing", !.provider = "none",
                                                 !.model = "none", !.resp = "none"]]
    /\ UNCHANGED active

LogTwice(r, answer, log) ==
    /\ rq' = [rq EXCEPT ![r] = [Routed(r) EXCEPT !.pc = "done", !.resp = "none", !.answer = answer,
                                                 !.logs = @ \o <<log, log>>]]
    /\ active' = active \ {r}

NextAttempt(r) ==
    /\ rq' = [rq EXCEPT ![r] = [Routed(r) EXCEPT !.pc = "routing", !.provider = "none",
                                                 !.model = "none", !.resp = "none",
                                                 !.attempt = @ + 1]]
    /\ UNCHANGED active

Finish(r, answer, log) ==
    /\ rq' = [rq EXCEPT ![r] = [Routed(r) EXCEPT !.pc = "done", !.resp = "none", !.answer = answer,
                                                 !.logs = Append(@, log)]]
    /\ active' = active \ {r}

LastAttemptOffByOne(r) == rq[r].attempt > MaxProxyAttempts

LastAttempt(r) == rq[r].attempt = MaxProxyAttempts

RetryOr(r, answer) ==
    IF LastAttempt(r) THEN Finish(r, answer, answer) ELSE NextAttempt(r)
-----------------------------------------------------------------------------
(***************************************************************************)
(* The handler up to client.Do.                                            *)
(***************************************************************************)
\* Transcriptions are not in the registry of active requests.
Tracked(r) == rq[r].kind # "audio"

\* A request for a model name arrives.
Arrive(r) ==
    /\ rq[r].pc = "new"
    /\ rq[r].kind # "absent"
    /\ rq' = [rq EXCEPT ![r].pc = "routing"]
    /\ active' = IF Tracked(r) THEN active \cup {r} ELSE active
    /\ UNCHANGED <<breakers, tripped, Env>>

\* resolveCandidates looks for an alias first, and then, in what may be
\* another snapshot, for the model itself.
ResolveAsAlias(r) ==
    LET cands == AliasCandidates(snap, RequestedModel)
    IN  /\ rq[r].pc = "routing"
        /\ rq' = [rq EXCEPT ![r].pc = IF cands # <<>> THEN "asking" ELSE "direct",
                            ![r].cands = cands, ![r].since = version]
        /\ UNCHANGED <<breakers, tripped, active, Env>>

ResolveAsModel(r) ==
    /\ rq[r].pc = "direct"
    /\ rq' = [rq EXCEPT ![r].pc = "asking", ![r].cands = DirectCandidates(snap, RequestedModel)]
    /\ UNCHANGED <<breakers, tripped, active, Env>>

PassAlways(cb) == TRUE

PassesBreaker(cb) == Allow(cb, now)

\* filterByCircuitBreaker asks about the next candidate, whose copy of the
\* provider's row says if there is a breaker.
AskBreaker(r) ==
    LET i == rq[r].asked + 1
        p == rq[r].cands[i].provider
        passes == ~p.circuitBreakerEnabled \/ PassesBreaker(breakers[p.id])
    IN  /\ rq[r].pc = "asking"
        /\ rq[r].asked < Len(rq[r].cands)
        /\ rq' = [rq EXCEPT ![r].asked = i, ![r].kept = IF passes THEN @ \cup {i} ELSE @]
        /\ breakers' = IF p.circuitBreakerEnabled
                       THEN [breakers EXCEPT ![p.id] = AfterAllow(@, now)] ELSE breakers
        /\ tripped' = IF p.circuitBreakerEnabled /\ passes
                      THEN [tripped EXCEPT ![r] = @ \ {p.id}] ELSE tripped
        /\ UNCHANGED <<active, Env>>

AllAsked(r) == rq[r].pc = "asking" /\ rq[r].asked = Len(rq[r].cands)

\* filterByEndpoint looks for the endpoint of the next candidate that is left,
\* each time in the snapshot of that moment.
CheckEndpoint(r) ==
    /\ AllAsked(r)
    /\ \E i \in rq[r].kept \ rq[r].checked :
         /\ \A j \in rq[r].kept \ rq[r].checked : i <= j
         /\ rq' = [rq EXCEPT ![r].checked = @ \cup {i},
                             ![r].serving = IF HasEnabledEndpoint(snap, rq[r].cands[i].provider.id, EndpointPath)
                                            THEN @ \cup {i} ELSE @]
    /\ UNCHANGED <<breakers, tripped, active, Env>>

AllChecked(r) == AllAsked(r) /\ rq[r].checked = rq[r].kept

Serves(r) == {rq[r].cands[i] : i \in rq[r].serving}

Eligible(r) == SelectWeightedPriority(Serves(r))

\* Route returns ErrNoAvailableProvider.
RouteFails(r) ==
    /\ AllChecked(r)
    /\ Eligible(r) = {}
    /\ RetryOr(r, "503")
    /\ tripped' = [tripped EXCEPT ![r] = {}]
    /\ UNCHANGED <<breakers, Env>>

\* Route returns c, and the request goes out unless its URL is malformed.
Send(r) ==
    /\ AllChecked(r)
    /\ \E c \in Eligible(r) :
         IF c.provider.validURL
         THEN /\ rq' = [rq EXCEPT ![r] = [Routed(r) EXCEPT !.pc = "sent", !.provider = c.provider.id,
                                                           !.model = c.model]]
              /\ UNCHANGED active
         ELSE RetryOr(r, "500")
    /\ tripped' = [tripped EXCEPT ![r] = {}]
    /\ UNCHANGED <<breakers, Env>>
-----------------------------------------------------------------------------
(***************************************************************************)
(* The world outside: providers, clients, the clock, the health checker.   *)
(***************************************************************************)
\* client.Do returns (and, but for a stream, the body has been read).
Respond(r) ==
    /\ rq[r].pc = "sent"
    /\ rq[r].resp = "none"
    /\ \E result \in {"2xx", "4xx", "5xx", "error"} \cup (IF rq[r].gone THEN {"canceled"} ELSE {}) :
         /\ rq' = [rq EXCEPT ![r].resp = result]
         /\ faulty' = IF result \in {"5xx", "error"} THEN faulty \cup {rq[r].provider} ELSE faulty
    /\ UNCHANGED <<Catalog, breakers, now, active, probes, severed, tripped>>

\* The scanner reaches the end of the stream or an error.  With the client
\* gone, the read of the cancelled request fails or, when lines are already
\* buffered, the write to the closed connection does.
StreamStops(r) ==
    /\ rq[r].pc = "streaming"
    /\ rq[r].resp = "none"
    /\ \E result \in {"end", "broken"} \cup (IF rq[r].gone THEN {"canceled", "unwritable"} ELSE {}) :
         /\ rq' = [rq EXCEPT ![r].resp = result]
         /\ faulty' = IF result = "broken" THEN faulty \cup {rq[r].provider} ELSE faulty
         /\ severed' = IF result = "unwritable" THEN severed \cup {rq[r].provider} ELSE severed
    /\ UNCHANGED <<Catalog, breakers, now, active, probes, tripped>>

ClientLeaves(r) ==
    /\ rq[r].pc \notin {"new", "done"}
    /\ ~rq[r].gone
    /\ rq' = [rq EXCEPT ![r].gone = TRUE]
    /\ UNCHANGED <<breakers, active, tripped, Env>>

Tick ==
    /\ now < MaxTime
    /\ now' = now + 1
    /\ UNCHANGED <<Catalog, breakers, rq, active, probes, faulty, severed, tripped>>

\* updateHealth, of the health checker.
HealthReport(p) ==
    /\ probes > 0
    /\ probes' = probes - 1
    /\ \/ ReportSuccess(p) /\ UNCHANGED faulty
       \/ ReportFailure(p) /\ faulty' = faulty \cup {p}
    /\ UNCHANGED <<Catalog, now, rq, active, severed>>

\* The worker of the catalog stores the snapshot it has built from a load.
Publish ==
    /\ version < Len(loads)
    /\ version' = version + 1
    /\ snap' = BuildRoutingSnapshot(loads[version'])
    /\ UNCHANGED <<loads, breakers, now, rq, active, probes, faulty, severed, tripped>>
-----------------------------------------------------------------------------
(***************************************************************************)
(* The handler after client.Do.                                            *)
(***************************************************************************)
CanceledBlamesProvider(r) ==
    /\ rq[r].pc = "sent"
    /\ rq[r].resp = "canceled"
    /\ Finish(r, "none", "499")
    /\ ReportFailure(rq[r].provider)
    /\ UNCHANGED Env

\* The client is gone: status 499 is logged and nothing is written.
Canceled(r) ==
    /\ rq[r].pc = "sent"
    /\ rq[r].resp = "canceled"
    /\ Finish(r, "none", "499")
    /\ NoReport
    /\ UNCHANGED Env

\* A 5xx or a transport error.  After the last attempt the 5xx of a
\* non-streaming request is passed on; a stream gets a 503.
ProviderFails(r) ==
    /\ rq[r].pc = "sent"
    /\ rq[r].resp \in {"5xx", "error"}
    /\ ReportFailure(rq[r].provider)
    /\ RetryOr(r, CASE rq[r].resp = "error"  -> "502"
                    [] rq[r].kind = "stream" -> "503"
                    [] OTHER                 -> "5xx")
    /\ UNCHANGED Env

Deliver(r) ==
    /\ rq[r].pc = "sent"
    /\ rq[r].kind # "stream"
    /\ rq[r].resp \in {"2xx", "4xx"}
    /\ IF rq[r].resp = "2xx" THEN ReportSuccess(rq[r].provider) ELSE NoReport
    /\ Finish(r, rq[r].resp, rq[r].resp)
    /\ UNCHANGED Env

\* The headers go out with status 200, whatever the provider answered.
BeginStream(r) ==
    /\ rq[r].pc = "sent"
    /\ rq[r].kind = "stream"
    /\ rq[r].resp \in {"2xx", "4xx"}
    /\ rq' = [rq EXCEPT ![r].pc = "streaming", ![r].status = rq[r].resp,
                        ![r].resp = "none", ![r].answer = "200"]
    /\ UNCHANGED <<breakers, tripped, active, Env>>

FailoverMidStream(r) ==
    /\ rq[r].pc = "streaming"
    /\ IF rq[r].resp = "broken" THEN RetryOr(r, "502") ELSE Finish(r, "200", "200")
    /\ rq[r].resp # "none"
    /\ NoReport
    /\ UNCHANGED Env

EndStream(r) ==
    /\ rq[r].pc = "streaming"
    /\ \/ /\ rq[r].resp = "end"
          /\ ReportSuccess(rq[r].provider)
          /\ Finish(r, "200", rq[r].status)
       \/ /\ rq[r].resp \in {"broken", "unwritable"}
          /\ ReportFailure(rq[r].provider)
          /\ Finish(r, "200", "200")
       \/ /\ rq[r].resp = "canceled"
          /\ NoReport
          /\ Finish(r, "200", "200")
    /\ UNCHANGED Env

HandlerStep(r) ==
    \/ ResolveAsAlias(r) \/ ResolveAsModel(r) \/ AskBreaker(r) \/ CheckEndpoint(r)
    \/ RouteFails(r) \/ Send(r) \/ Canceled(r) \/ ProviderFails(r) \/ Deliver(r) \/ BeginStream(r) \/ EndStream(r)

Next ==
    \/ \E r \in Requests : Arrive(r) \/ HandlerStep(r)
    \/ \E r \in Requests : Respond(r) \/ StreamStops(r) \/ ClientLeaves(r)
    \/ \E p \in Providers : HealthReport(p)
    \/ Publish
    \/ Tick

Spec == Init /\ [][Next]_vars

\* A handler that can go on does; a provider answers, or the connection to
\* it breaks, or the client gives up.
Fairness == \A r \in Requests : WF_vars(HandlerStep(r) \/ Respond(r) \/ StreamStops(r))

FairSpec == Spec /\ Fairness
-----------------------------------------------------------------------------
(***************************************************************************)
(* However a request ends, after whatever attempts, it is logged exactly   *)
(* once, the log says what the client was told (a stream was told 200      *)
(* before the end was known), only a client that left is not told          *)
(* anything, and the request is no longer active; and until then it is     *)
(* active, unless it is a transcription.  (proxyNonStreaming,              *)
(* handleStreamingRequest, HandleAudioTranscriptions, ActiveRegistry.)     *)
(***************************************************************************)
Settled ==
    \A r \in Requests :
        /\ r \in active <=> rq[r].pc \notin {"new", "done"} /\ rq[r].kind # "audio"
        /\ Len(rq[r].logs) = IF rq[r].pc = "done" THEN 1 ELSE 0
        /\ rq[r].pc = "done" /\ rq[r].answer = "none" => rq[r].gone /\ rq[r].logs[1] = "499"
        /\ rq[r].pc = "done" /\ rq[r].answer \notin {"none", "200"} => rq[r].logs[1] = rq[r].answer

(***************************************************************************)
(* Once the client has a status line, the request stays with the provider  *)
(* it came from and the client gets no other: "Once streaming starts, no   *)
(* failover".  (handleStreamingRequest.)                                   *)
(***************************************************************************)
NoFailoverOnceAnswered ==
    [][ \A r \in Requests : rq[r].answer # "none" =>
          rq'[r].answer = rq[r].answer /\ rq'[r].provider = rq[r].provider ]_vars

(***************************************************************************)
(* A provider whose breaker is open is sent only requests that had passed  *)
(* the breaker before it tripped: nobody who asks after the trip gets      *)
(* through before the cooldown, however the questions, answers, probes and *)
(* reloads of others interleave.  Whether there is a breaker is what the   *)
(* candidate's own copy says.  (filterByCircuitBreaker, ReportFailure.)    *)
(***************************************************************************)
OpenKeepsAway ==
    [][ \A r \in Requests :
          /\ rq[r].pc = "asking"
          /\ rq'[r].pc = "sent"
          /\ breakers[rq'[r].provider].state = "Open"
          /\ \A c \in Serves(r) :
               c.provider.id = rq'[r].provider => c.provider.circuitBreakerEnabled
          => rq'[r].provider \in tripped[r] ]_vars

(***************************************************************************)
(* A request goes only where the tables send it, whatever is published     *)
(* while it is routed: to a provider and a model for which some load that  *)
(* was current during this call of Route had a healthy provider with an    *)
(* available model of that name, or an enabled alias to a model that is    *)
(* not known to be unavailable; and whose endpoint was supported and       *)
(* enabled in some load, perhaps another, that was current during this     *)
(* call.  (When the request goes out the endpoint may be disabled again.)  *)
(* What is routed so was also listed by GET /v1/models.                    *)
(* (buildRoutingSnapshot, resolveCandidates, filterByEndpoint, against the *)
(* store's queries.)                                                       *)
(***************************************************************************)
SentBy(data, p, model) ==
    /\ RequestedModel \in BuildRoutingSnapshot(data).publicModelIDs
    /\ \/ model = RequestedModel /\ p \in GetHealthyProvidersForModel(data, model)
       \/ /\ p \in data.providers /\ p.isHealthy
          /\ \E a \in ResolveAlias(data, RequestedModel) : a.provider = p.id /\ a.model = model
          /\ ~KnownUnavailable(data, p.id, model)

ServesEndpoint(data, id) ==
    [provider |-> id, path |-> EndpointPath, isSupported |-> TRUE, isEnabled |-> TRUE] \in data.endpoints

SentWhereRoutable ==
    [][ \A r \in Requests : rq[r].pc = "asking" /\ rq'[r].pc = "sent" =>
          /\ \E v \in rq[r].since .. version : \E p \in loads[v].providers :
               p.id = rq'[r].provider /\ SentBy(loads[v], p, rq'[r].model)
          /\ \E v \in rq[r].since .. version : ServesEndpoint(loads[v], rq'[r].provider) ]_vars

(***************************************************************************)
(* A spare is used only while what is preferred to it is cut off: when a   *)
(* request goes to a candidate, every candidate of higher priority had a   *)
(* breaker, which refused, or in some load that was current during this    *)
(* call of Route it did not serve the endpoint.  That is all the failover  *)
(* there is: no candidate is passed over for having failed the attempt     *)
(* before, although Context.md promises "failover to next candidate".      *)
(* (Route, selectWeightedPriority.)                                        *)
(***************************************************************************)
SpareNeedsTrip ==
    [][ \A r \in Requests : rq[r].pc = "asking" /\ rq'[r].pc = "sent" =>
          \E i \in rq[r].serving :
             /\ rq[r].cands[i].provider.id = rq'[r].provider
             /\ \A j \in DOMAIN rq[r].cands :
                  LET d == rq[r].cands[j]
                  IN  d.priority > rq[r].cands[i].priority =>
                        \/ d.provider.circuitBreakerEnabled /\ j \notin rq[r].kept
                        \/ \E v \in rq[r].since .. version :
                             ~ServesEndpoint(loads[v], d.provider.id) ]_vars

(***************************************************************************)
(* Clients alone do not open a breaker: a provider whose breaker is not    *)
(* closed has failed at least once, by a 5xx, a transport error, a broken  *)
(* stream or a health check.  "These [client cancellations] must not trip  *)
(* the provider circuit breaker" (isClientCanceled).                       *)
(***************************************************************************)
ClientsDoNotTrip ==
    \A p \in Providers : breakers[p].state # "Closed" => p \in faulty

(***************************************************************************)
(* The same, up to the one way in which a client does: leaving a stream    *)
(* so that the gateway meets it in a write.  Whatever a client of another  *)
(* kind does, and a cancellation that client.Do or the stream's read       *)
(* reports, never counts against the provider.  (isClientCanceled.)        *)
(***************************************************************************)
OnlySeveredStreamsTrip ==
    \A p \in Providers : breakers[p].state # "Closed" => p \in faulty \cup severed

(***************************************************************************)
(* Every request comes to an end: attempts are counted on every path that  *)
(* starts another one.  (The loops over attempt.)                          *)
(***************************************************************************)
EveryRequestEnds == \A r \in Requests : rq[r].pc = "routing" ~> rq[r].pc = "done"
-----------------------------------------------------------------------------
(***************************************************************************)
(* The inductive invariant behind the safety properties.                   *)
(***************************************************************************)

\* What a handler holds at each place.
Place(r) ==
    /\ rq[r].pc \in {"new", "routing", "direct"} => rq[r].asked = 0 /\ rq[r].kept = {}
    /\ rq[r].pc \in {"new", "routing", "direct"} => rq[r].checked = {} /\ rq[r].serving = {}
    /\ rq[r].pc \in {"sent", "streaming"} => rq[r].provider \in Providers
    /\ rq[r].pc \notin {"sent", "streaming"} => rq[r].resp = "none"
    /\ rq[r].pc \notin {"streaming", "done"} => rq[r].answer = "none"
    /\ rq[r].pc = "streaming" => rq[r].answer = "200" /\ rq[r].status \in Statuses
    /\ rq[r].resp = "canceled" => rq[r].gone

\* A failure is on record before it is reported.
Blamed(r) ==
    /\ rq[r].resp \in {"5xx", "error", "broken"} => rq[r].provider \in faulty
    /\ rq[r].resp = "unwritable" => rq[r].provider \in severed

\* The candidates are those of one load that was current during this call of
\* Route.
FromOneLoad(r) ==
    /\ rq[r].pc \in {"direct", "asking"} => rq[r].since \in 1 .. version
    /\ rq[r].pc = "asking" =>
         \E v \in rq[r].since .. version : \A i \in DOMAIN rq[r].cands :
            /\ rq[r].cands[i].provider \in loads[v].providers
            /\ SentBy(loads[v], rq[r].cands[i].provider, rq[r].cands[i].model)

\* Of the candidates asked so far, those left out were refused by a breaker,
\* and the breaker of one that passed is open only if it has tripped since.
AskedSoFar(r) ==
    rq[r].pc = "asking" =>
        /\ rq[r].asked <= Len(rq[r].cands)
        /\ rq[r].kept \subseteq 1 .. rq[r].asked
        /\ \A j \in 1 .. rq[r].asked :
             j \notin rq[r].kept => rq[r].cands[j].provider.circuitBreakerEnabled
        /\ \A i \in rq[r].kept :
             /\ rq[r].cands[i].provider.circuitBreakerEnabled
             /\ breakers[rq[r].cands[i].provider.id].state = "Open"
             => rq[r].cands[i].provider.id \in tripped[r]

\* No endpoint is looked up before the last candidate was asked, and each was
\* enabled or not in the load of that moment.
CheckedSoFar(r) ==
    rq[r].pc = "asking" =>
        /\ rq[r].serving \subseteq rq[r].checked /\ rq[r].checked \subseteq rq[r].kept
        /\ rq[r].checked # {} => rq[r].asked = Len(rq[r].cands)
        /\ \A i \in rq[r].checked : \E v \in rq[r].since .. version :
             i \in rq[r].serving <=> ServesEndpoint(loads[v], rq[r].cands[i].provider.id)

IInv ==
    /\ loads \in Seq(RoutingDataType(Providers, Names, {EndpointPath}))
    /\ TypeOK
    /\ \A p \in Providers : IsFiniteSet(breakers[p].failures) /\ IsFiniteSet(breakers[p].successes)
    /\ \A r \in Requests : Place(r) /\ Blamed(r) /\ FromOneLoad(r)
                           /\ AskedSoFar(r) /\ CheckedSoFar(r)
    /\ Settled
    /\ OnlySeveredStreamsTrip
=============================================================================
