---------------------------- MODULE ProxyProofs -----------------------------
(***************************************************************************)
(* Proofs about Proxy, for any number of requests, providers and names,    *)
(* any tables and reloads, any breaker settings and any number of attempts.*)
(***************************************************************************)
EXTENDS Proxy, FiniteSetTheorems, SequenceTheorems, WellFoundedInduction, TLAPS

(***************************************************************************)
(* Selected, by its loop.                                                  *)
(***************************************************************************)

\* A non-empty set of naturals has a least element.
LEMMA LeastNatural ==
    ASSUME NEW T, T \subseteq Nat, T # {}
    PROVE  \E i \in T : \A j \in T : ~ (j < i)
<1>1. PICK i \in T : \A j \in T : ~ (<<j, i>> \in OpToRel(<, Nat))
  BY NatLessThanWellFounded, WFMin
<1>2. \A j \in T : j < i => <<j, i>> \in OpToRel(<, Nat)
  BY DEF OpToRel
<1> QED
  BY <1>1, <1>2

\* f is what the loop has appended after each row, up to row m.
Loop(f, m, rows, indices) ==
    f = [n \in 0 .. m |->
            IF n = 0 THEN <<>>
            ELSE IF n \in indices THEN Append(f[n - 1], rows[n]) ELSE f[n - 1]]

LEMMA LoopExists ==
    ASSUME NEW rows, NEW indices, NEW m \in Nat
    PROVE  \E f : Loop(f, m, rows, indices)
<1> DEFINE T == {n \in Nat : ~ \E f : Loop(f, n, rows, indices)}
<1> SUFFICES ASSUME T # {} PROVE FALSE
  OBVIOUS
<1>1. PICK n \in T : \A j \in T : ~ (j < n)
  BY LeastNatural
<1>2. n # 0
  <2>1. Loop([i \in 0 .. 0 |-> <<>>], 0, rows, indices)
    BY DEF Loop
  <2> QED
    BY <2>1
<1>3. n - 1 \in Nat /\ n - 1 \notin T
  BY <1>1, <1>2
<1>4. PICK g : Loop(g, n - 1, rows, indices)
  BY <1>3
<1> DEFINE last == IF n \in indices THEN Append(g[n - 1], rows[n]) ELSE g[n - 1]
           f == [i \in 0 .. n |-> IF i = n THEN last ELSE g[i]]
<1>5. \A i \in 0 .. n : f[i] = IF i = 0 THEN <<>>
                               ELSE IF i \in indices THEN Append(f[i - 1], rows[i]) ELSE f[i - 1]
  <2> SUFFICES ASSUME NEW i \in 0 .. n
               PROVE  f[i] = IF i = 0 THEN <<>>
                             ELSE IF i \in indices THEN Append(f[i - 1], rows[i]) ELSE f[i - 1]
    OBVIOUS
  <2>1. CASE i = n
    BY <1>2, <2>1
  <2>2. CASE i # n
    <3>1. i \in 0 .. n - 1 /\ f[i] = g[i] /\ (i # 0 => f[i - 1] = g[i - 1])
      BY <2>2
    <3>2. g[i] = IF i = 0 THEN <<>>
                 ELSE IF i \in indices THEN Append(g[i - 1], rows[i]) ELSE g[i - 1]
      BY <1>4, <3>1 DEF Loop
    <3> QED
      BY <3>1, <3>2
  <2> QED
    BY <2>1, <2>2
<1>6. Loop(f, n, rows, indices)
  BY <1>5 DEF Loop
<1> QED
  BY <1>1, <1>6

\* Selected returns rows of the table, all with one of the given indices.
LEMMA SelectedRows ==
    ASSUME NEW S, NEW rows \in Seq(S), NEW indices
    PROVE  /\ Selected(rows, indices) \in Seq(S)
           /\ \A i \in DOMAIN Selected(rows, indices) :
                 \E k \in DOMAIN rows : k \in indices /\ Selected(rows, indices)[i] = rows[k]
<1> DEFINE f == CHOOSE upTo : Loop(upTo, Len(rows), rows, indices)
           Good(n) == /\ f[n] \in Seq(S)
                      /\ \A i \in DOMAIN f[n] : \E k \in DOMAIN rows : k \in indices /\ f[n][i] = rows[k]
           T == {n \in 0 .. Len(rows) : ~ Good(n)}
<1>1. Len(rows) \in Nat /\ DOMAIN rows = 1 .. Len(rows) /\ \A k \in DOMAIN rows : rows[k] \in S
  OBVIOUS
<1>2. Selected(rows, indices) = f[Len(rows)]
  BY Zenon DEF Selected, Loop
<1>3. Loop(f, Len(rows), rows, indices)
  BY <1>1, LoopExists, Zenon
<1> HIDE DEF f
<1>4. \A n \in 0 .. Len(rows) :
        f[n] = IF n = 0 THEN <<>> ELSE IF n \in indices THEN Append(f[n - 1], rows[n]) ELSE f[n - 1]
  BY <1>3 DEF Loop
<1>5. T = {}
  <2> SUFFICES ASSUME T # {} PROVE FALSE
    OBVIOUS
  <2>1. T \subseteq Nat
    BY <1>1
  <2>2. PICK n \in T : \A j \in T : ~ (j < n)
    BY <2>1, LeastNatural
  <2>3. n \in 0 .. Len(rows) /\ ~ Good(n) /\ n \in Nat
    BY <2>2, <1>1
  <2>4. CASE n = 0
    <3>1. f[n] = <<>>
      BY <1>4, <2>3, <2>4
    <3> QED
      BY <2>3, <3>1
  <2>5. CASE n # 0
    <3>1. n - 1 \in 0 .. Len(rows) /\ n - 1 < n /\ n \in DOMAIN rows
      BY <1>1, <2>3, <2>5
    <3>2. Good(n - 1)
      BY <2>2, <3>1
    <3>3. f[n] = f[n - 1] \/ (n \in indices /\ f[n] = Append(f[n - 1], rows[n]))
      BY <1>4, <2>3, <2>5
    <3>4. CASE f[n] = f[n - 1]
      BY <2>3, <3>2, <3>4
    <3>5. CASE n \in indices /\ f[n] = Append(f[n - 1], rows[n])
      <4>1. rows[n] \in S /\ f[n - 1] \in Seq(S)
        BY <1>1, <3>1, <3>2
      <4>2. /\ f[n] \in Seq(S)
            /\ \A i \in DOMAIN f[n] : (i \in DOMAIN f[n - 1] /\ f[n][i] = f[n - 1][i]) \/ f[n][i] = rows[n]
        BY <3>5, <4>1, AppendProperties
      <4>3. Good(n)
        BY <3>1, <3>2, <3>5, <4>2
      <4> QED
        BY <2>3, <4>3
    <3> QED
      BY <3>3, <3>4, <3>5
  <2> QED
    BY <2>4, <2>5
<1>6. Good(Len(rows))
  BY <1>1, <1>5
<1> QED
  BY <1>2, <1>6

-----------------------------------------------------------------------------
(***************************************************************************)
(* The snapshot against the tables it is built from.                       *)
(***************************************************************************)
Data == RoutingDataType(Providers, Names, {EndpointPath})
ProviderRows == [id : Providers, isHealthy : BOOLEAN, circuitBreakerEnabled : BOOLEAN, validURL : BOOLEAN]
ModelRows == [provider : Providers, model : Names, isAvailable : BOOLEAN]
AliasRows == [alias : Names, provider : Providers, model : Names, weight : Int, priority : Int, isEnabled : BOOLEAN]
EndpointRows == [provider : Providers, path : {EndpointPath}, isSupported : BOOLEAN, isEnabled : BOOLEAN]
Candidates(rows) == [provider : rows, model : Names, weight : Int, priority : Int]

LEMMA DataFields ==
    ASSUME NEW data \in Data
    PROVE  /\ data.providers \in SUBSET ProviderRows
           /\ data.models \in Seq(ModelRows)
           /\ data.aliases \in Seq(AliasRows)
           /\ data.endpoints \in SUBSET EndpointRows
BY DEF Data, RoutingDataType, ProviderRows, ModelRows, AliasRows, EndpointRows

LEMMA ProviderRowOfID ==
    ASSUME NEW data \in Data, NEW id \in DOMAIN ProvidersByID(data)
    PROVE  ProvidersByID(data)[id] \in data.providers /\ ProvidersByID(data)[id].id = id
<1>1. \E p \in data.providers : p.id = id
  BY DEF ProvidersByID
<1>2. ProvidersByID(data)[id] = CHOOSE p \in data.providers : p.id = id
  BY DEF ProvidersByID
<1> QED
  BY <1>1, <1>2

\* The candidates of the model itself.
LEMMA DirectSent ==
    ASSUME NEW data \in Data, NEW i \in DOMAIN DirectModels(data, ProvidersByID(data), RequestedModel)
    PROVE  LET c == DirectModels(data, ProvidersByID(data), RequestedModel)[i]
           IN  /\ c \in Candidates(data.providers)
               /\ SentBy(data, c.provider, c.model)
<1> DEFINE byID == ProvidersByID(data)
           usable == {j \in DOMAIN data.models : /\ data.models[j].model = RequestedModel
                                                 /\ data.models[j].isAvailable
                                                 /\ Serving(byID, data.models[j].provider)}
           rows == Selected(data.models, usable)
           c == DirectModels(data, byID, RequestedModel)[i]
<1>1. i \in DOMAIN rows /\ c = RouteCandidate(byID[rows[i].provider], RequestedModel, 1, 0)
  BY DEF DirectModels
<1>2. PICK k \in DOMAIN data.models : k \in usable /\ rows[i] = data.models[k]
  <2> HIDE DEF usable
  <2>1. data.models \in Seq(ModelRows)
    BY DataFields
  <2> QED
    BY <1>1, <2>1, SelectedRows
<1>3. data.models[k] \in ModelRows
  BY DataFields
<1> DEFINE p == byID[rows[i].provider]
<1>4. rows[i].provider \in DOMAIN byID /\ p.isHealthy /\ rows[i].model = RequestedModel /\ rows[i].isAvailable
  BY <1>2 DEF Serving
<1>5. p \in data.providers /\ p.id = rows[i].provider
  BY <1>4, ProviderRowOfID
<1>6. c.provider = p /\ c.model = RequestedModel /\ c = [provider |-> p, model |-> RequestedModel, weight |-> 1, priority |-> 0]
  BY <1>1 DEF RouteCandidate
<1> HIDE DEF byID, usable, rows, p, c
<1>7. c \in Candidates(data.providers)
  BY <1>5, <1>6, ProxyConstants DEF Candidates
<1>8. RequestedModel \in BuildRoutingSnapshot(data).publicModelIDs
  <2>1. k \in {j \in DOMAIN data.models : data.models[j].isAvailable} /\ data.models[k].model = RequestedModel
    BY <1>2, <1>4
  <2> QED
    BY <2>1 DEF BuildRoutingSnapshot
<1>9. data.models[k] = [provider |-> p.id, model |-> RequestedModel, isAvailable |-> TRUE]
  BY <1>2, <1>3, <1>4, <1>5 DEF ModelRows
<1>10. p \in GetHealthyProvidersForModel(data, RequestedModel)
  BY <1>4, <1>5, <1>9 DEF GetHealthyProvidersForModel
<1>11. SentBy(data, c.provider, c.model)
  BY <1>6, <1>8, <1>10 DEF SentBy
<1> QED
  BY <1>7, <1>11 DEF c, byID

\* The candidates of an alias.
LEMMA AliasSent ==
    ASSUME NEW data \in Data, NEW i \in DOMAIN Aliases(data, ProvidersByID(data), RequestedModel)
    PROVE  LET c == Aliases(data, ProvidersByID(data), RequestedModel)[i]
           IN  /\ c \in Candidates(data.providers)
               /\ SentBy(data, c.provider, c.model)
<1> DEFINE byID == ProvidersByID(data)
           usable == {j \in DOMAIN data.aliases :
                        /\ data.aliases[j].alias = RequestedModel
                        /\ data.aliases[j].isEnabled
                        /\ Serving(byID, data.aliases[j].provider)
                        /\ ~KnownUnavailable(data, data.aliases[j].provider, data.aliases[j].model)}
           rows == Selected(data.aliases, usable)
           c == Aliases(data, byID, RequestedModel)[i]
<1>1. i \in DOMAIN rows
      /\ c = RouteCandidate(byID[rows[i].provider], rows[i].model, rows[i].weight, rows[i].priority)
  BY DEF Aliases
<1>2. PICK k \in DOMAIN data.aliases : k \in usable /\ rows[i] = data.aliases[k]
  <2> HIDE DEF usable
  <2>1. data.aliases \in Seq(AliasRows)
    BY DataFields
  <2> QED
    BY <1>1, <2>1, SelectedRows
<1>3. rows[i] \in AliasRows
  BY <1>2, DataFields
<1> DEFINE p == byID[rows[i].provider]
<1>4. /\ rows[i].provider \in DOMAIN byID /\ p.isHealthy
      /\ rows[i].alias = RequestedModel /\ rows[i].isEnabled
      /\ ~KnownUnavailable(data, rows[i].provider, rows[i].model)
  BY <1>2 DEF Serving
<1>5. p \in data.providers /\ p.id = rows[i].provider
  BY <1>4, ProviderRowOfID
<1>6. Aliases(data, byID, RequestedModel) # <<>>
  <2> DEFINE list == Aliases(data, byID, RequestedModel)
  <2>1. i \in DOMAIN list
    OBVIOUS
  <2> HIDE DEF list
  <2>2. list # <<>>
    BY <2>1
  <2> QED
    BY <2>2 DEF list
<1> HIDE DEF byID, usable, rows, c
<1>7. c.provider = p /\ c.model = rows[i].model
      /\ c = [provider |-> p, model |-> rows[i].model, weight |-> rows[i].weight, priority |-> rows[i].priority]
  BY <1>1 DEF RouteCandidate
<1> HIDE DEF p
<1>8. c \in Candidates(data.providers)
  BY <1>3, <1>5, <1>7 DEF Candidates, AliasRows
<1>9. RequestedModel \in BuildRoutingSnapshot(data).publicModelIDs
  <2>1. RequestedModel \in {data.aliases[j].alias : j \in DOMAIN data.aliases}
    BY <1>2, <1>4
  <2> QED
    BY <1>6, <2>1 DEF BuildRoutingSnapshot, byID
<1>10. rows[i] \in ResolveAlias(data, RequestedModel)
  BY <1>2, <1>4 DEF ResolveAlias
<1>11. SentBy(data, c.provider, c.model)
  BY <1>4, <1>5, <1>7, <1>9, <1>10 DEF SentBy
<1> QED
  BY <1>8, <1>11 DEF c, byID

LEMMA FunctionIsSeq == ASSUME NEW S, NEW n \in Nat, NEW f \in [1 .. n -> S] PROVE f \in Seq(S)
OBVIOUS

\* Both lookups, in the snapshot of the given tables.
LEMMA CandidatesSent ==
    ASSUME NEW data \in Data,
           NEW cands, \/ cands = AliasCandidates(BuildRoutingSnapshot(data), RequestedModel)
                      \/ cands = DirectCandidates(BuildRoutingSnapshot(data), RequestedModel)
    PROVE  /\ cands \in Seq(Candidates(data.providers))
           /\ \A i \in DOMAIN cands : SentBy(data, cands[i].provider, cands[i].model)
<1> DEFINE byID == ProvidersByID(data)
           as == Aliases(data, byID, RequestedModel)
           ds == DirectModels(data, byID, RequestedModel)
<1>1. cands = <<>> \/ cands = as \/ cands = ds
  BY DEF AliasCandidates, DirectCandidates, BuildRoutingSnapshot
<1>2. \E n \in Nat : DOMAIN as = 1 .. n /\ as = [i \in 1 .. n |-> as[i]]
  <2>1. PICK ix : /\ DOMAIN as = DOMAIN Selected(data.aliases, ix)
                  /\ as = [i \in DOMAIN as |-> as[i]]
    BY DEF Aliases
  <2>2. data.aliases \in Seq(AliasRows)
    BY DataFields
  <2>3. Selected(data.aliases, ix) \in Seq(AliasRows)
    BY <2>2, SelectedRows
  <2> HIDE DEF as
  <2>4. Len(Selected(data.aliases, ix)) \in Nat /\ DOMAIN as = 1 .. Len(Selected(data.aliases, ix))
    BY <2>1, <2>3
  <2> QED
    BY <2>1, <2>4
<1>3. \E n \in Nat : DOMAIN ds = 1 .. n /\ ds = [i \in 1 .. n |-> ds[i]]
  <2>1. PICK ix : /\ DOMAIN ds = DOMAIN Selected(data.models, ix)
                  /\ ds = [i \in DOMAIN ds |-> ds[i]]
    BY DEF DirectModels
  <2>2. data.models \in Seq(ModelRows)
    BY DataFields
  <2>3. Selected(data.models, ix) \in Seq(ModelRows)
    BY <2>2, SelectedRows
  <2> HIDE DEF ds
  <2>4. Len(Selected(data.models, ix)) \in Nat /\ DOMAIN ds = 1 .. Len(Selected(data.models, ix))
    BY <2>1, <2>3
  <2> QED
    BY <2>1, <2>4
<1>4. \A i \in DOMAIN as : as[i] \in Candidates(data.providers) /\ SentBy(data, as[i].provider, as[i].model)
  BY AliasSent
<1>5. \A i \in DOMAIN ds : ds[i] \in Candidates(data.providers) /\ SentBy(data, ds[i].provider, ds[i].model)
  BY DirectSent
<1> HIDE DEF as, ds
<1>6. as \in Seq(Candidates(data.providers))
  <2>1. PICK n \in Nat : DOMAIN as = 1 .. n /\ as = [i \in 1 .. n |-> as[i]]
    BY <1>2
  <2>2. \A i \in 1 .. n : as[i] \in Candidates(data.providers)
    BY <1>4, <2>1
  <2>3. as \in [1 .. n -> Candidates(data.providers)]
    BY <2>1, <2>2, Zenon
  <2> QED
    BY <2>3, FunctionIsSeq, Zenon
<1>7. ds \in Seq(Candidates(data.providers))
  <2>1. PICK n \in Nat : DOMAIN ds = 1 .. n /\ ds = [i \in 1 .. n |-> ds[i]]
    BY <1>3
  <2>2. \A i \in 1 .. n : ds[i] \in Candidates(data.providers)
    BY <1>5, <2>1
  <2>3. ds \in [1 .. n -> Candidates(data.providers)]
    BY <2>1, <2>2, Zenon
  <2> QED
    BY <2>3, FunctionIsSeq, Zenon
<1>8. CASE cands = <<>>
  BY <1>8
<1>9. CASE cands = as
  BY <1>4, <1>6, <1>9, Zenon
<1>10. CASE cands = ds
  BY <1>5, <1>7, <1>10, Zenon
<1> QED
  BY <1>1, <1>8, <1>9, <1>10

LEMMA EndpointSent ==
    ASSUME NEW data \in Data, NEW id
    PROVE  HasEnabledEndpoint(BuildRoutingSnapshot(data), id, EndpointPath) <=> ServesEndpoint(data, id)
<1> DEFINE row == [provider |-> id, path |-> EndpointPath, isSupported |-> TRUE, isEnabled |-> TRUE]
<1>1. HasEnabledEndpoint(BuildRoutingSnapshot(data), id, EndpointPath)
        <=> \E e \in data.endpoints : e.isSupported /\ e.isEnabled /\ <<id, EndpointPath>> = <<e.provider, e.path>>
  BY DEF HasEnabledEndpoint, BuildRoutingSnapshot
<1>2. ASSUME NEW e \in data.endpoints, e.isSupported, e.isEnabled, <<id, EndpointPath>> = <<e.provider, e.path>>
      PROVE  row \in data.endpoints
  <2>1. e \in EndpointRows
    BY DataFields
  <2>2. e = row
    BY <1>2, <2>1 DEF EndpointRows
  <2> QED
    BY <2>2
<1>3. row.isSupported /\ row.isEnabled /\ <<id, EndpointPath>> = <<row.provider, row.path>>
  OBVIOUS
<1> HIDE DEF row
<1>4. ServesEndpoint(data, id) <=> row \in data.endpoints
  BY DEF ServesEndpoint, row
<1> QED
  BY <1>1, <1>2, <1>3, <1>4

-----------------------------------------------------------------------------
(***************************************************************************)
(* The handler's record.  Typed says where it is used that rq is typed.    *)
(***************************************************************************)
LoadedProviders == UNION {data.providers : data \in {loads[v] : v \in DOMAIN loads}}
CandidateLists == Seq(Candidates(LoadedProviders))
Typed == rq \in [Requests -> RequestType]

LEMMA RequestFields ==
    RequestType =
        [kind : Kinds \cup {"absent"},
         pc : {"new", "routing", "direct", "asking", "sent", "streaming", "done"},
         attempt : 1..MaxProxyAttempts, since : Nat, cands : CandidateLists, asked : Nat,
         kept : SUBSET Nat, checked : SUBSET Nat, serving : SUBSET Nat,
         provider : Providers \cup {"none"}, model : Names \cup {"none"},
         resp : {"none", "2xx", "4xx", "5xx", "error", "canceled", "end", "broken", "unwritable"},
         status : Statuses \cup {"none"}, answer : Statuses \cup {"none"}, gone : BOOLEAN,
         logs : Seq(Statuses)]
BY DEF RequestType, CandidateLists, Candidates, LoadedProviders

\* The same with the sets of values under a name, and the values that are put in.
Phases == {"new", "routing", "direct", "asking", "sent", "streaming", "done"}
Responses == {"none", "2xx", "4xx", "5xx", "error", "canceled", "end", "broken", "unwritable"}
KindsSeen == Kinds \cup {"absent"}
Attempts == 1..MaxProxyAttempts
SomeProvider == Providers \cup {"none"}
SomeName == Names \cup {"none"}
SomeStatus == Statuses \cup {"none"}
LogLists == Seq(Statuses)

LEMMA RequestSets ==
    RequestType =
        [kind : KindsSeen, pc : Phases, attempt : Attempts, since : Nat, cands : CandidateLists,
         asked : Nat, kept : SUBSET Nat, checked : SUBSET Nat, serving : SUBSET Nat,
         provider : SomeProvider, model : SomeName,
         resp : Responses, status : SomeStatus, answer : SomeStatus, gone : BOOLEAN,
         logs : LogLists]
BY RequestFields DEF Phases, Responses, KindsSeen, Attempts, SomeProvider, SomeName, SomeStatus, LogLists

LEMMA PhaseNames == {"routing", "direct", "asking", "sent", "streaming", "done"} \subseteq Phases
BY DEF Phases

LEMMA NothingYet == "none" \in Responses /\ "none" \in SomeProvider /\ "none" \in SomeName
BY DEF Responses, SomeProvider, SomeName

LEMMA NoCandidates == <<>> \in CandidateLists
BY DEF CandidateLists

\* A handler's record after Route has returned, and what it keeps.
LEMMA RoutedFields ==
    ASSUME Typed, NEW r \in Requests
    PROVE  /\ Routed(r) \in RequestType
           /\ Routed(r).asked = 0 /\ Routed(r).kept = {}
           /\ Routed(r).checked = {} /\ Routed(r).serving = {}
           /\ Routed(r).kind = rq[r].kind /\ Routed(r).attempt = rq[r].attempt
           /\ Routed(r).provider = rq[r].provider /\ Routed(r).model = rq[r].model
           /\ Routed(r).answer = rq[r].answer /\ Routed(r).gone = rq[r].gone
           /\ Routed(r).logs = rq[r].logs /\ Routed(r).status = rq[r].status
<1>1. rq[r] \in RequestType
  BY DEF Typed
<1> QED
  BY <1>1, RequestFields, NoCandidates DEF Routed

LEMMA NextAttemptFields ==
    ASSUME Typed, NEW r \in Requests, NextAttempt(r), ~LastAttempt(r)
    PROVE  /\ rq' \in [Requests -> RequestType]
           /\ \A q \in Requests \ {r} : rq'[q] = rq[q]
           /\ rq'[r].pc = "routing" /\ rq'[r].asked = 0 /\ rq'[r].kept = {}
           /\ rq'[r].checked = {} /\ rq'[r].serving = {}
           /\ rq'[r].kind = rq[r].kind /\ rq'[r].resp = "none"
           /\ rq'[r].answer = rq[r].answer /\ rq'[r].gone = rq[r].gone /\ rq'[r].logs = rq[r].logs
           /\ active' = active
<1> DEFINE f == Routed(r)
           n == [f EXCEPT !.pc = "routing", !.provider = "none", !.model = "none",
                          !.resp = "none", !.attempt = @ + 1]
<1>1. rq' = [rq EXCEPT ![r] = n] /\ active' = active
  BY DEF NextAttempt
<1>2. /\ f \in RequestType /\ f.asked = 0 /\ f.kept = {} /\ f.kind = rq[r].kind
      /\ f.checked = {} /\ f.serving = {}
      /\ f.attempt = rq[r].attempt
      /\ f.answer = rq[r].answer /\ f.gone = rq[r].gone /\ f.logs = rq[r].logs
  BY RoutedFields
<1> HIDE DEF f
<1>3. f.attempt + 1 \in 1..MaxProxyAttempts
  <2>1. f.attempt \in 1..MaxProxyAttempts /\ f.attempt # MaxProxyAttempts
    BY <1>2, RequestFields DEF LastAttempt
  <2> QED
    BY <2>1, ProxyConstants
<1>4. n \in RequestType
  <2>1. "routing" \in Phases
    BY PhaseNames
  <2>2. f.attempt + 1 \in Attempts
    BY <1>3 DEF Attempts
  <2> QED
    BY <1>2, <2>1, <2>2, NothingYet, RequestSets
<1>5. n.pc = "routing" /\ n.asked = f.asked /\ n.kept = f.kept /\ n.kind = f.kind /\ n.resp = "none"
      /\ n.checked = f.checked /\ n.serving = f.serving
      /\ n.answer = f.answer /\ n.gone = f.gone /\ n.logs = f.logs
  BY <1>2, RequestFields
<1> HIDE DEF n
<1> QED
  BY <1>1, <1>2, <1>4, <1>5 DEF Typed

LEMMA FinishFields ==
    ASSUME Typed, NEW r \in Requests, NEW answer \in Statuses \cup {"none"}, NEW log \in Statuses,
           Finish(r, answer, log)
    PROVE  /\ rq' \in [Requests -> RequestType]
           /\ \A q \in Requests \ {r} : rq'[q] = rq[q]
           /\ rq'[r].pc = "done" /\ rq'[r].kind = rq[r].kind /\ rq'[r].resp = "none"
           /\ rq'[r].provider = rq[r].provider /\ rq'[r].gone = rq[r].gone
           /\ rq'[r].answer = answer /\ rq'[r].logs = Append(rq[r].logs, log)
           /\ active' = active \ {r}
<1> DEFINE f == Routed(r)
           logs == Append(f.logs, log)
           n == [f EXCEPT !.pc = "done", !.resp = "none", !.answer = answer, !.logs = logs]
<1>1. rq' = [rq EXCEPT ![r] = n] /\ active' = active \ {r}
  BY DEF Finish
<1>2. /\ f \in RequestType /\ f.kind = rq[r].kind /\ f.provider = rq[r].provider
      /\ f.gone = rq[r].gone /\ f.logs = rq[r].logs
  BY RoutedFields
<1> HIDE DEF f
<1>3. logs \in Seq(Statuses) /\ logs = Append(rq[r].logs, log)
  <2>1. f.logs \in Seq(Statuses)
    BY <1>2, RequestFields
  <2> QED
    BY <1>2, <2>1, AppendProperties
<1> HIDE DEF logs
<1>4. n \in RequestType
  <2>1. "done" \in Phases
    BY PhaseNames
  <2>2. answer \in SomeStatus /\ logs \in LogLists
    BY <1>3 DEF SomeStatus, LogLists
  <2> QED
    BY <1>2, <2>1, <2>2, NothingYet, RequestSets
<1>5. n.pc = "done" /\ n.kind = f.kind /\ n.resp = "none" /\ n.provider = f.provider
      /\ n.gone = f.gone /\ n.answer = answer /\ n.logs = logs
  BY <1>2, RequestFields
<1> HIDE DEF n
<1> QED
  BY <1>1, <1>2, <1>3, <1>4, <1>5 DEF Typed

-----------------------------------------------------------------------------
(***************************************************************************)
(* The breakers, and what a report makes of them.                          *)
(***************************************************************************)
GoodBreaker(cb) == cb \in CircuitBreakerType /\ IsFiniteSet(cb.failures) /\ IsFiniteSet(cb.successes)

LEMMA WithinFinite ==
    ASSUME NEW s, IsFiniteSet(s), NEW n, NEW w
    PROVE  IsFiniteSet(Within(s, n, w)) /\ Within(s, n, w) \subseteq s
<1>1. Within(s, n, w) \subseteq s
  BY DEF Within
<1> QED
  BY <1>1, FS_Subset

LEMMA PruneGood ==
    ASSUME NEW cb, GoodBreaker(cb), NEW n \in Nat
    PROVE  GoodBreaker(Prune(cb, n)) /\ Prune(cb, n).state = cb.state
<1> DEFINE f == Within(cb.failures, n, cb.windowSize)
           s == Within(cb.successes, n, cb.windowSize)
<1>1. IsFiniteSet(f) /\ IsFiniteSet(s) /\ f \in SUBSET Outcome /\ s \in SUBSET Outcome
  BY WithinFinite DEF GoodBreaker, CircuitBreakerType
<1>2. Prune(cb, n) = [cb EXCEPT !.failures = f, !.successes = s]
  BY DEF Prune
<1> HIDE DEF f, s
<1> QED
  BY <1>1, <1>2 DEF GoodBreaker, CircuitBreakerType

LEMMA AllowGood ==
    ASSUME NEW cb, GoodBreaker(cb), NEW n \in Nat
    PROVE  /\ GoodBreaker(AfterAllow(cb, n))
           /\ AfterAllow(cb, n).state = "Open" => cb.state = "Open" /\ ~Allow(cb, n)
           /\ cb.state = "Closed" <=> AfterAllow(cb, n).state = "Closed"
<1>1. CASE cb.state = "Open" /\ CooledDown(cb, n)
  <2>1. AfterAllow(cb, n) = [cb EXCEPT !.state = "HalfOpen", !.lastStateChange = n]
    BY <1>1 DEF AfterAllow
  <2> QED
    BY <1>1, <2>1 DEF GoodBreaker, CircuitBreakerType, States
<1>2. CASE ~(cb.state = "Open" /\ CooledDown(cb, n))
  BY <1>2 DEF AfterAllow, Allow
<1> QED
  BY <1>1, <1>2

LEMMA SuccessGood ==
    ASSUME NEW cb, GoodBreaker(cb), NEW n \in Nat, NEW i \in Nat
    PROVE  LET after == RecordSuccess(cb, n, i)
           IN  GoodBreaker(after) /\ (after.state = "Closed" \/ after.state = cb.state)
<1> DEFINE p == Prune(cb, n)
           s == p.successes \cup {[id |-> i, at |-> n]}
           k == [p EXCEPT !.successes = s]
<1>1. GoodBreaker(p) /\ p.state = cb.state
  BY PruneGood
<1>2. [id |-> i, at |-> n] \in Outcome
  BY DEF Outcome
<1>3. IsFiniteSet(s) /\ s \in SUBSET Outcome
  BY <1>1, <1>2, FS_AddElement DEF GoodBreaker, CircuitBreakerType
<1>4. RecordSuccess(cb, n, i) = IF cb.state = "HalfOpen" THEN CloseBreaker(k, n) ELSE k
  BY DEF RecordSuccess
<1> HIDE DEF p, s
<1>5. k \in CircuitBreakerType /\ k.failures = p.failures /\ k.successes = s /\ k.state = cb.state
  BY <1>1, <1>3 DEF GoodBreaker, CircuitBreakerType
<1>6. GoodBreaker(k)
  BY <1>1, <1>3, <1>5 DEF GoodBreaker
<1> HIDE DEF k
<1>7. GoodBreaker(CloseBreaker(k, n)) /\ CloseBreaker(k, n).state = "Closed"
  <2>1. IsFiniteSet({})
    BY FS_EmptySet
  <2> QED
    BY <1>6, <2>1 DEF CloseBreaker, GoodBreaker, CircuitBreakerType, States
<1> QED
  BY <1>4, <1>5, <1>6, <1>7

LEMMA FailureGood ==
    ASSUME NEW cb, GoodBreaker(cb), NEW n \in Nat, NEW i \in Nat
    PROVE  GoodBreaker(RecordFailure(cb, n, i))
<1> DEFINE p == Prune(cb, n)
           f == p.failures \cup {[id |-> i, at |-> n]}
           k == [p EXCEPT !.failures = f]
<1>1. GoodBreaker(p)
  BY PruneGood
<1>2. [id |-> i, at |-> n] \in Outcome
  BY DEF Outcome
<1>3. IsFiniteSet(f) /\ f \in SUBSET Outcome
  BY <1>1, <1>2, FS_AddElement DEF GoodBreaker, CircuitBreakerType
<1>4. RecordFailure(cb, n, i) = IF Trips(k) THEN OpenBreaker(k, n) ELSE k
  BY DEF RecordFailure
<1> HIDE DEF p, f
<1>5. k \in CircuitBreakerType /\ k.failures = f /\ k.successes = p.successes
  BY <1>1, <1>3 DEF GoodBreaker, CircuitBreakerType
<1>6. GoodBreaker(k)
  BY <1>1, <1>3, <1>5 DEF GoodBreaker
<1> HIDE DEF k
<1>7. GoodBreaker(OpenBreaker(k, n))
  BY <1>6 DEF OpenBreaker, GoodBreaker, CircuitBreakerType, States
<1> QED
  BY <1>4, <1>6, <1>7

LEMMA SameTickNat == ASSUME NEW s, IsFiniteSet(s) PROVE SameTick(s) \in Nat
<1>1. IsFiniteSet({o \in s : o.at = now})
  BY FS_Subset
<1> QED
  BY <1>1, FS_CardinalityType DEF SameTick

BreakersGood == breakers \in [Providers -> CircuitBreakerType] /\ \A p \in Providers : GoodBreaker(breakers[p])
TrippedTyped == tripped \in [Requests -> SUBSET Providers]

\* A step opens no breaker without the history of q, if it is asking, saying
\* so.
RecordedFor(q) ==
    rq[q].pc = "asking" =>
        \A p \in Providers : breakers'[p].state = "Open" =>
            \/ p \in tripped'[q]
            \/ breakers[p].state = "Open" /\ (p \in tripped[q] => p \in tripped'[q])

TripsRecorded == \A q \in Requests : RecordedFor(q)

LEMMA SetBreakerGood ==
    ASSUME BreakersGood, TrippedTyped, NEW p \in Providers, NEW cb, GoodBreaker(cb), SetBreaker(p, cb)
    PROVE  BreakersGood' /\ TrippedTyped' /\ TripsRecorded
           /\ breakers'[p] = cb /\ \A q \in Providers \ {p} : breakers'[q] = breakers[q]
<1>1. breakers' = [breakers EXCEPT ![p] = cb]
  BY DEF SetBreaker
<1>2. breakers'[p] = cb /\ \A q \in Providers \ {p} : breakers'[q] = breakers[q]
  BY <1>1 DEF BreakersGood
<1>3. BreakersGood'
  BY <1>1, <1>2 DEF BreakersGood, GoodBreaker
<1>4. CASE breakers[p].state # "Open" /\ cb.state = "Open"
  <2>1. tripped' = [r \in Requests |-> IF rq[r].pc = "asking" THEN tripped[r] \cup {p} ELSE tripped[r]]
    BY <1>4 DEF SetBreaker
  <2> QED
    BY <1>2, <1>3, <2>1 DEF TrippedTyped, TripsRecorded, RecordedFor
<1>5. CASE ~(breakers[p].state # "Open" /\ cb.state = "Open")
  <2>1. tripped' = tripped
    BY <1>5 DEF SetBreaker
  <2> QED
    BY <1>2, <1>3, <1>5, <2>1 DEF TrippedTyped, TripsRecorded, RecordedFor
<1> QED
  BY <1>4, <1>5

LEMMA NoReportGood ==
    ASSUME BreakersGood, TrippedTyped, UNCHANGED <<breakers, tripped>>
    PROVE  BreakersGood' /\ TrippedTyped' /\ TripsRecorded
BY DEF BreakersGood, TrippedTyped, TripsRecorded, RecordedFor

LEMMA ReportSuccessGood ==
    ASSUME BreakersGood, TrippedTyped, now \in Nat, NEW p \in Providers, ReportSuccess(p)
    PROVE  BreakersGood' /\ TrippedTyped' /\ TripsRecorded
           /\ \A q \in Providers : breakers'[q].state # "Closed" => breakers[q].state # "Closed"
<1> DEFINE i == SameTick(breakers[p].successes)
           cb == RecordSuccess(breakers[p], now, i)
<1>1. CASE Enabled(p)
  <2>1. GoodBreaker(breakers[p])
    BY DEF BreakersGood
  <2>2. i \in Nat
    BY <2>1, SameTickNat DEF GoodBreaker
  <2> HIDE DEF i
  <2>3. GoodBreaker(cb) /\ (cb.state = "Closed" \/ cb.state = breakers[p].state)
    BY <2>1, <2>2, SuccessGood
  <2>4. SetBreaker(p, cb)
    BY <1>1 DEF ReportSuccess, i
  <2> HIDE DEF cb
  <2> QED
    BY <2>3, <2>4, SetBreakerGood
<1>2. CASE ~Enabled(p)
  BY <1>2, NoReportGood DEF ReportSuccess
<1> QED
  BY <1>1, <1>2

LEMMA ReportFailureGood ==
    ASSUME BreakersGood, TrippedTyped, now \in Nat, NEW p \in Providers, ReportFailure(p)
    PROVE  BreakersGood' /\ TrippedTyped' /\ TripsRecorded
           /\ \A q \in Providers \ {p} : breakers'[q] = breakers[q]
<1> DEFINE i == SameTick(breakers[p].failures)
           cb == RecordFailure(breakers[p], now, i)
<1>1. CASE Enabled(p)
  <2>1. GoodBreaker(breakers[p])
    BY DEF BreakersGood
  <2>2. i \in Nat
    BY <2>1, SameTickNat DEF GoodBreaker
  <2> HIDE DEF i
  <2>3. GoodBreaker(cb)
    BY <2>1, <2>2, FailureGood
  <2>4. SetBreaker(p, cb)
    BY <1>1 DEF ReportFailure, i
  <2> HIDE DEF cb
  <2> QED
    BY <2>3, <2>4, SetBreakerGood
<1>2. CASE ~Enabled(p)
  BY <1>2, NoReportGood DEF ReportFailure
<1> QED
  BY <1>1, <1>2

-----------------------------------------------------------------------------
(***************************************************************************)
(* IInv one request at a time.                                             *)
(***************************************************************************)
SettledOne(r) ==
    /\ r \in active <=> rq[r].pc \notin {"new", "done"} /\ rq[r].kind # "audio"
    /\ Len(rq[r].logs) = IF rq[r].pc = "done" THEN 1 ELSE 0
    /\ rq[r].pc = "done" /\ rq[r].answer = "none" => rq[r].gone /\ rq[r].logs[1] = "499"
    /\ rq[r].pc = "done" /\ rq[r].answer \notin {"none", "200"} => rq[r].logs[1] = rq[r].answer

Local(r) ==
    /\ Place(r) /\ Blamed(r) /\ FromOneLoad(r) /\ AskedSoFar(r) /\ CheckedSoFar(r)
    /\ SettledOne(r)

\* The variables other than the requests' own.
Shared ==
    /\ loads \in Seq(Data)
    /\ version \in DOMAIN loads /\ snap = BuildRoutingSnapshot(loads[version])
    /\ BreakersGood /\ TrippedTyped /\ OnlySeveredStreamsTrip
    /\ now \in 0..MaxTime /\ probes \in Nat
    /\ active \subseteq Requests /\ faulty \subseteq Providers /\ severed \subseteq Providers

Parts == Shared /\ Typed /\ \A r \in Requests : Local(r)

LEMMA IInvParts == IInv <=> Parts
<1>1. Settled <=> \A r \in Requests : SettledOne(r)
  BY Zenon DEF Settled, SettledOne
<1>2. (breakers \in [Providers -> CircuitBreakerType]
         /\ \A p \in Providers : IsFiniteSet(breakers[p].failures) /\ IsFiniteSet(breakers[p].successes))
      <=> BreakersGood
  BY DEF BreakersGood, GoodBreaker
<1>3. TypeOK <=> /\ version \in DOMAIN loads /\ snap = BuildRoutingSnapshot(loads[version])
                 /\ breakers \in [Providers -> CircuitBreakerType] /\ now \in 0..MaxTime
                 /\ Typed /\ active \subseteq Requests /\ probes \in Nat
                 /\ faulty \subseteq Providers /\ severed \subseteq Providers /\ TrippedTyped
  BY Zenon DEF TypeOK, Typed, TrippedTyped
<1> QED
  BY <1>1, <1>2, <1>3, Zenon DEF IInv, Shared, Local, Data, Parts

\* The tables that the candidates of a request come from are typed.
LEMMA CandidateRow ==
    ASSUME Shared, Typed, NEW r \in Requests, NEW i \in DOMAIN rq[r].cands
    PROVE  LET c == rq[r].cands[i]
           IN  c \in Candidates(LoadedProviders) /\ c.provider \in ProviderRows
               /\ c.provider.id \in Providers /\ c.model \in Names /\ c.priority \in Int
<1>1. rq[r].cands \in Seq(Candidates(LoadedProviders))
  BY RequestFields DEF Typed, CandidateLists
<1>2. rq[r].cands[i] \in Candidates(LoadedProviders)
  BY <1>1
<1>3. LoadedProviders \subseteq ProviderRows
  <2>1. \A v \in DOMAIN loads : loads[v] \in Data
    BY DEF Shared
  <2>2. \A v \in DOMAIN loads : loads[v].providers \subseteq ProviderRows
    BY <2>1, DataFields
  <2> QED
    BY <2>2 DEF LoadedProviders
<1> QED
  BY <1>2, <1>3 DEF Candidates, ProviderRows

\* A request that does not move keeps its part of the invariant.
LEMMA LocalStays ==
    ASSUME Shared, Typed, NEW q \in Requests, Local(q), rq'[q] = rq[q], q \in active' <=> q \in active,
           loads' = loads, version' \in Nat, version <= version',
           faulty \subseteq faulty', severed \subseteq severed', RecordedFor(q)
    PROVE  Local(q)'
<1>1. Place(q)'
  BY DEF Local, Place
<1>2. Blamed(q)'
  BY DEF Local, Blamed
<1>3. FromOneLoad(q)'
  <2>1. version \in Nat /\ version \in Int /\ version' \in Int
    BY DEF Shared
  <2>2. \A a, v \in Nat : v \in a .. version => v \in a .. version'
    BY <2>1
  <2>3. rq[q].since \in Nat
    BY RequestFields DEF Typed
  <2>4. rq[q].pc \in {"direct", "asking"} => rq'[q].since \in 1 .. version'
    <3>1. 1 \in Nat
      OBVIOUS
    <3> QED
      BY <2>2, <2>3, <3>1 DEF Local, FromOneLoad
  <2>5. ASSUME rq[q].pc = "asking"
        PROVE  \E v \in rq'[q].since .. version' : \A i \in DOMAIN rq'[q].cands :
                  /\ rq'[q].cands[i].provider \in loads'[v].providers
                  /\ SentBy(loads'[v], rq'[q].cands[i].provider, rq'[q].cands[i].model)
    <3>1. PICK v \in rq[q].since .. version : \A i \in DOMAIN rq[q].cands :
                  /\ rq[q].cands[i].provider \in loads[v].providers
                  /\ SentBy(loads[v], rq[q].cands[i].provider, rq[q].cands[i].model)
      BY <2>5 DEF Local, FromOneLoad
    <3>2. v \in Nat
      BY <2>1, <2>3
    <3>3. v \in rq[q].since .. version'
      BY <2>2, <2>3, <3>2
    <3> QED
      BY <3>1, <3>3
  <2> QED
    BY <2>4, <2>5 DEF FromOneLoad
<1>4. AskedSoFar(q)'
  <2> SUFFICES ASSUME rq[q].pc = "asking" PROVE AskedSoFar(q)'
    BY DEF AskedSoFar
  <2>1. /\ rq[q].asked <= Len(rq[q].cands) /\ rq[q].kept \subseteq 1 .. rq[q].asked
        /\ \A j \in 1 .. rq[q].asked :
             j \notin rq[q].kept => rq[q].cands[j].provider.circuitBreakerEnabled
        /\ \A i \in rq[q].kept :
             /\ rq[q].cands[i].provider.circuitBreakerEnabled
             /\ breakers[rq[q].cands[i].provider.id].state = "Open"
             => rq[q].cands[i].provider.id \in tripped[q]
    BY DEF Local, AskedSoFar
  <2>2. \A i \in rq[q].kept : i \in DOMAIN rq[q].cands
    <3>1. DOMAIN rq[q].cands = 1 .. Len(rq[q].cands) /\ Len(rq[q].cands) \in Nat /\ rq[q].asked \in Nat
      BY RequestFields DEF Typed, CandidateLists
    <3> QED
      BY <2>1, <3>1
  <2>3. \A i \in rq[q].kept : rq[q].cands[i].provider.id \in Providers
    BY <2>2, CandidateRow
  <2>4. \A i \in rq[q].kept :
             /\ rq[q].cands[i].provider.circuitBreakerEnabled
             /\ breakers'[rq[q].cands[i].provider.id].state = "Open"
             => rq[q].cands[i].provider.id \in tripped'[q]
    BY <2>1, <2>3 DEF RecordedFor
  <2> QED
    BY <2>1, <2>4 DEF AskedSoFar
<1>5. CheckedSoFar(q)'
  <2> SUFFICES ASSUME rq[q].pc = "asking" PROVE CheckedSoFar(q)'
    BY DEF CheckedSoFar
  <2>1. /\ rq[q].serving \subseteq rq[q].checked /\ rq[q].checked \subseteq rq[q].kept
        /\ rq[q].checked # {} => rq[q].asked = Len(rq[q].cands)
        /\ \A i \in rq[q].checked : \E v \in rq[q].since .. version :
             i \in rq[q].serving <=> ServesEndpoint(loads[v], rq[q].cands[i].provider.id)
    BY DEF Local, CheckedSoFar
  <2>2. \A v \in rq[q].since .. version : v \in rq[q].since .. version'
    <3>1. version \in Int /\ version' \in Int
      BY DEF Shared
    <3>2. rq[q].since \in Nat
      BY RequestFields DEF Typed
    <3> QED
      BY <3>1, <3>2
  <2>3. \A i \in rq[q].checked : \E v \in rq[q].since .. version' :
             i \in rq[q].serving <=> ServesEndpoint(loads[v], rq[q].cands[i].provider.id)
    BY <2>1, <2>2
  <2> QED
    BY <2>1, <2>3 DEF CheckedSoFar, ServesEndpoint
<1>6. SettledOne(q)'
  BY DEF Local, SettledOne
<1> QED
  BY <1>1, <1>2, <1>3, <1>4, <1>5, <1>6 DEF Local

\* A step of request r.
LEMMA RequestStep ==
    ASSUME IInv, NEW r \in Requests, UNCHANGED <<Catalog, now, probes>>,
           rq' \in [Requests -> RequestType], \A q \in Requests \ {r} : rq'[q] = rq[q],
           active' \subseteq active \cup {r}, active \subseteq active' \cup {r},
           faulty \subseteq faulty', faulty' \subseteq Providers,
           severed \subseteq severed', severed' \subseteq Providers,
           BreakersGood', TrippedTyped', OnlySeveredStreamsTrip',
           \A q \in Requests \ {r} : RecordedFor(q), Local(r)'
    PROVE  IInv'
<1>1. Shared /\ Typed /\ \A q \in Requests : Local(q)
  BY IInvParts DEF Parts
<1>2. loads' = loads /\ version' = version /\ snap' = snap /\ now' = now /\ probes' = probes
  BY DEF Catalog
<1>3. version' \in Nat /\ version <= version'
  BY <1>1, <1>2 DEF Shared
<1>4. \A q \in Requests \ {r} : Local(q)'
  BY <1>1, <1>2, <1>3, LocalStays
<1>5. Shared'
  BY <1>1, <1>2 DEF Shared, Data
<1>6. RequestType' = RequestType
  BY <1>2 DEF RequestType
<1>7. Typed'
  BY <1>6 DEF Typed
<1>8. Parts'
  BY <1>4, <1>5, <1>7 DEF Parts
<1> QED
  BY <1>8, IInvParts, PTL

-----------------------------------------------------------------------------
(***************************************************************************)
(* How a handler's step may end.                                           *)
(***************************************************************************)

\* What a step of request r leaves of the breakers and of the others' history.
Reported(r) ==
    /\ BreakersGood' /\ TrippedTyped' /\ OnlySeveredStreamsTrip'
    /\ \A q \in Requests \ {r} : RecordedFor(q)

LEMMA EndStep ==
    ASSUME IInv, NEW r \in Requests, rq[r].pc \notin {"new", "done"},
           NEW answer \in Statuses \cup {"none"}, NEW log \in Statuses, Finish(r, answer, log),
           answer = "none" => rq[r].gone /\ log = "499",
           answer \notin {"none", "200"} => log = answer,
           Reported(r), UNCHANGED Env
    PROVE  IInv'
<1>1. Shared /\ Typed /\ Local(r)
  BY IInvParts DEF Parts
<1>2. /\ rq' \in [Requests -> RequestType] /\ \A q \in Requests \ {r} : rq'[q] = rq[q]
      /\ rq'[r].pc = "done" /\ rq'[r].resp = "none" /\ rq'[r].gone = rq[r].gone
      /\ rq'[r].answer = answer /\ rq'[r].logs = Append(rq[r].logs, log)
      /\ active' = active \ {r}
  BY <1>1, FinishFields, Zenon
<1>3. Len(rq[r].logs) = 0 /\ rq[r].logs \in Seq(Statuses)
  BY <1>1, RequestFields DEF Local, SettledOne, Typed
<1>4. Len(rq'[r].logs) = 1 /\ rq'[r].logs[1] = log
  BY <1>2, <1>3
<1>5. Place(r)' /\ Blamed(r)' /\ FromOneLoad(r)' /\ AskedSoFar(r)' /\ CheckedSoFar(r)'
  BY <1>2 DEF Place, Blamed, FromOneLoad, AskedSoFar, CheckedSoFar
<1>6. SettledOne(r)'
  BY <1>2, <1>4 DEF SettledOne
<1>7. Local(r)'
  BY <1>5, <1>6 DEF Local
<1>8. UNCHANGED <<Catalog, now, probes>> /\ faulty' = faulty /\ severed' = severed
  BY DEF Env
<1>9. faulty' \subseteq Providers /\ severed' \subseteq Providers
      /\ faulty \subseteq faulty' /\ severed \subseteq severed'
      /\ active' \subseteq active \cup {r} /\ active \subseteq active' \cup {r}
  BY <1>1, <1>2, <1>8 DEF Shared
<1> QED
  BY <1>2, <1>7, <1>8, <1>9, RequestStep DEF Reported

LEMMA RetryStep ==
    ASSUME IInv, NEW r \in Requests, rq[r].pc \notin {"new", "streaming", "done"},
           NEW answer \in Statuses \ {"200"}, RetryOr(r, answer), Reported(r), UNCHANGED Env
    PROVE  IInv'
<1>1. Shared /\ Typed /\ Local(r)
  BY IInvParts DEF Parts
<1>2. CASE LastAttempt(r)
  <2>1. Finish(r, answer, answer)
    BY <1>2 DEF RetryOr
  <2>2. answer # "none"
    BY DEF Statuses
  <2> QED
    BY <2>1, <2>2, EndStep
<1>3. CASE ~LastAttempt(r)
  <2>1. NextAttempt(r)
    BY <1>3 DEF RetryOr
  <2>2. /\ rq' \in [Requests -> RequestType] /\ \A q \in Requests \ {r} : rq'[q] = rq[q]
        /\ rq'[r].pc = "routing" /\ rq'[r].asked = 0 /\ rq'[r].kept = {}
        /\ rq'[r].checked = {} /\ rq'[r].serving = {}
        /\ rq'[r].kind = rq[r].kind /\ rq'[r].resp = "none"
        /\ rq'[r].answer = rq[r].answer /\ rq'[r].gone = rq[r].gone /\ rq'[r].logs = rq[r].logs
        /\ active' = active
    BY <1>1, <1>3, <2>1, NextAttemptFields
  <2>3. rq[r].answer = "none"
    BY <1>1 DEF Local, Place
  <2>4. Place(r)' /\ Blamed(r)' /\ FromOneLoad(r)' /\ AskedSoFar(r)' /\ CheckedSoFar(r)'
    BY <2>2, <2>3 DEF Place, Blamed, FromOneLoad, AskedSoFar, CheckedSoFar
  <2>5. SettledOne(r)'
    BY <1>1, <2>2 DEF Local, SettledOne
  <2>6. Local(r)'
    BY <2>4, <2>5 DEF Local
  <2>7. UNCHANGED <<Catalog, now, probes>> /\ faulty' = faulty /\ severed' = severed
    BY DEF Env
  <2>8. faulty' \subseteq Providers /\ severed' \subseteq Providers
        /\ faulty \subseteq faulty' /\ severed \subseteq severed'
        /\ active' \subseteq active \cup {r} /\ active \subseteq active' \cup {r}
    BY <1>1, <2>2, <2>7 DEF Shared
  <2> QED
    BY <2>2, <2>6, <2>7, <2>8, RequestStep DEF Reported
<1> QED
  BY <1>2, <1>3

-----------------------------------------------------------------------------
(***************************************************************************)
(* What the reports leave.                                                 *)
(***************************************************************************)
LEMMA QuietStep ==
    ASSUME IInv, NEW r \in Requests, breakers' = breakers,
           tripped' \in {tripped, [tripped EXCEPT ![r] = {}]},
           faulty \subseteq faulty', severed \subseteq severed'
    PROVE  Reported(r)
<1>1. BreakersGood /\ TrippedTyped /\ OnlySeveredStreamsTrip
  BY IInvParts DEF Parts, Shared
<1>2. BreakersGood' /\ OnlySeveredStreamsTrip'
  BY <1>1 DEF BreakersGood, OnlySeveredStreamsTrip
<1>3. TrippedTyped' /\ \A q \in Requests \ {r} : tripped'[q] = tripped[q]
  BY <1>1 DEF TrippedTyped
<1> QED
  BY <1>2, <1>3 DEF Reported, RecordedFor

LEMMA SuccessStep ==
    ASSUME IInv, NEW p \in Providers, ReportSuccess(p), faulty' = faulty, severed' = severed
    PROVE  BreakersGood' /\ TrippedTyped' /\ OnlySeveredStreamsTrip' /\ TripsRecorded
<1>1. BreakersGood /\ TrippedTyped /\ OnlySeveredStreamsTrip /\ now \in 0 .. MaxTime
  BY IInvParts DEF Parts, Shared
<1>2. now \in Nat
  BY <1>1, ProxyConstants
<1>3. BreakersGood' /\ TrippedTyped' /\ TripsRecorded
      /\ \A q \in Providers : breakers'[q].state # "Closed" => breakers[q].state # "Closed"
  BY <1>1, <1>2, ReportSuccessGood
<1> QED
  BY <1>1, <1>3 DEF OnlySeveredStreamsTrip

LEMMA FailureStep ==
    ASSUME IInv, NEW p \in Providers, ReportFailure(p),
           faulty \subseteq faulty', severed \subseteq severed', p \in faulty' \cup severed'
    PROVE  BreakersGood' /\ TrippedTyped' /\ OnlySeveredStreamsTrip' /\ TripsRecorded
<1>1. BreakersGood /\ TrippedTyped /\ OnlySeveredStreamsTrip /\ now \in 0 .. MaxTime
  BY IInvParts DEF Parts, Shared
<1>2. now \in Nat
  BY <1>1, ProxyConstants
<1>3. BreakersGood' /\ TrippedTyped' /\ TripsRecorded
      /\ \A q \in Providers \ {p} : breakers'[q] = breakers[q]
  BY <1>1, <1>2, ReportFailureGood
<1> QED
  BY <1>1, <1>3 DEF OnlySeveredStreamsTrip

-----------------------------------------------------------------------------
(***************************************************************************)
(* Every step preserves IInv.  First the handler after client.Do.          *)
(***************************************************************************)
LEMMA CanceledKeeps == ASSUME IInv, NEW r \in Requests, Canceled(r) PROVE IInv'
<1>1. Local(r)
  BY IInvParts DEF Parts
<1>2. /\ rq[r].pc = "sent" /\ rq[r].resp = "canceled" /\ Finish(r, "none", "499")
      /\ breakers' = breakers /\ tripped' = tripped /\ UNCHANGED Env
  BY DEF Canceled, NoReport
<1>3. rq[r].gone
  BY <1>1, <1>2 DEF Local, Place
<1>4. faulty' = faulty /\ severed' = severed
  BY <1>2 DEF Env
<1>5. Reported(r)
  BY <1>2, <1>4, QuietStep
<1>6. "none" \in Statuses \cup {"none"} /\ "499" \in Statuses /\ rq[r].pc \notin {"new", "done"}
  BY <1>2 DEF Statuses
<1> QED
  BY <1>2, <1>3, <1>5, <1>6, EndStep

LEMMA ProviderFailsKeeps == ASSUME IInv, NEW r \in Requests, ProviderFails(r) PROVE IInv'
<1> DEFINE answer == CASE rq[r].resp = "error"  -> "502"
                       [] rq[r].kind = "stream" -> "503"
                       [] OTHER                 -> "5xx"
<1>1. Local(r)
  BY IInvParts DEF Parts
<1>2. /\ rq[r].pc = "sent" /\ rq[r].resp \in {"5xx", "error"}
      /\ ReportFailure(rq[r].provider) /\ RetryOr(r, answer) /\ UNCHANGED Env
  BY DEF ProviderFails
<1>3. answer \in Statuses \ {"200"}
  BY DEF Statuses
<1> HIDE DEF answer
<1>4. rq[r].provider \in Providers /\ rq[r].provider \in faulty
  BY <1>1, <1>2 DEF Local, Place, Blamed
<1>5. faulty' = faulty /\ severed' = severed
  BY <1>2 DEF Env
<1>6. Reported(r)
  BY <1>2, <1>4, <1>5, FailureStep DEF Reported, TripsRecorded
<1>7. rq[r].pc \notin {"new", "streaming", "done"}
  BY <1>2
<1> QED
  BY <1>2, <1>3, <1>6, <1>7, RetryStep

LEMMA DeliverKeeps == ASSUME IInv, NEW r \in Requests, Deliver(r) PROVE IInv'
<1>1. Local(r)
  BY IInvParts DEF Parts
<1>2. /\ rq[r].pc = "sent" /\ rq[r].resp \in {"2xx", "4xx"}
      /\ Finish(r, rq[r].resp, rq[r].resp) /\ UNCHANGED Env
  BY DEF Deliver
<1>3. rq[r].provider \in Providers
  BY <1>1, <1>2 DEF Local, Place
<1>4. faulty' = faulty /\ severed' = severed
  BY <1>2 DEF Env
<1>5. Reported(r)
  <2>1. CASE rq[r].resp = "2xx"
    <3>1. ReportSuccess(rq[r].provider)
      BY <2>1 DEF Deliver
    <3> QED
      BY <1>3, <1>4, <3>1, SuccessStep DEF Reported, TripsRecorded
  <2>2. CASE rq[r].resp # "2xx"
    <3>1. breakers' = breakers /\ tripped' = tripped
      BY <2>2 DEF Deliver, NoReport
    <3> QED
      BY <1>4, <3>1, QuietStep
  <2> QED
    BY <2>1, <2>2
<1>6. rq[r].resp \in Statuses /\ rq[r].resp # "none" /\ rq[r].pc \notin {"new", "done"}
  BY <1>2 DEF Statuses
<1> QED
  BY <1>2, <1>5, <1>6, EndStep

LEMMA EndStreamKeeps == ASSUME IInv, NEW r \in Requests, EndStream(r) PROVE IInv'
<1>1. Local(r)
  BY IInvParts DEF Parts
<1>2. rq[r].pc = "streaming" /\ UNCHANGED Env
  BY DEF EndStream
<1>3. rq[r].provider \in Providers /\ rq[r].status \in Statuses
  BY <1>1, <1>2 DEF Local, Place
<1>4. faulty' = faulty /\ severed' = severed
  BY <1>2 DEF Env
<1>5. "200" \in Statuses /\ "200" # "none" /\ rq[r].pc \notin {"new", "done"}
  BY <1>2 DEF Statuses
<1>6. CASE rq[r].resp = "end" /\ ReportSuccess(rq[r].provider) /\ Finish(r, "200", rq[r].status)
  <2>1. Reported(r)
    BY <1>3, <1>4, <1>6, SuccessStep DEF Reported, TripsRecorded
  <2> QED
    BY <1>2, <1>3, <1>5, <1>6, <2>1, EndStep
<1>7. CASE rq[r].resp \in {"broken", "unwritable"} /\ ReportFailure(rq[r].provider) /\ Finish(r, "200", "200")
  <2>1. rq[r].provider \in faulty \cup severed
    BY <1>1, <1>7 DEF Local, Blamed
  <2>2. Reported(r)
    BY <1>3, <1>4, <1>7, <2>1, FailureStep DEF Reported, TripsRecorded
  <2> QED
    BY <1>2, <1>5, <1>7, <2>2, EndStep
<1>8. CASE rq[r].resp = "canceled" /\ NoReport /\ Finish(r, "200", "200")
  <2>1. Reported(r)
    BY <1>4, <1>8, QuietStep DEF NoReport
  <2> QED
    BY <1>2, <1>5, <1>8, <2>1, EndStep
<1> QED
  BY <1>6, <1>7, <1>8 DEF EndStream

-----------------------------------------------------------------------------
(***************************************************************************)
(* The steps that change a few fields of one record.                       *)
(***************************************************************************)
LEMMA MoveStep ==
    ASSUME IInv, NEW r \in Requests, NEW n \in RequestType, rq' = [rq EXCEPT ![r] = n],
           UNCHANGED <<Catalog, now, probes>>,
           active' \subseteq active \cup {r}, active \subseteq active' \cup {r},
           faulty \subseteq faulty', faulty' \subseteq Providers,
           severed \subseteq severed', severed' \subseteq Providers,
           Reported(r), rq'[r] = n => Local(r)'
    PROVE  IInv'
<1>1. Typed
  BY IInvParts DEF Parts
<1>2. rq' \in [Requests -> RequestType] /\ rq'[r] = n /\ \A q \in Requests \ {r} : rq'[q] = rq[q]
  BY <1>1 DEF Typed
<1> QED
  BY <1>2, RequestStep DEF Reported

LEMMA ArriveKeeps == ASSUME IInv, NEW r \in Requests, Arrive(r) PROVE IInv'
<1> DEFINE n == [rq[r] EXCEPT !.pc = "routing"]
<1>1. Shared /\ Typed /\ Local(r)
  BY IInvParts DEF Parts
<1>2. rq[r].pc = "new" /\ breakers' = breakers /\ tripped' = tripped /\ UNCHANGED Env
      /\ active' = IF Tracked(r) THEN active \cup {r} ELSE active
  BY DEF Arrive
<1>3. rq' = [rq EXCEPT ![r] = n]
  BY DEF Arrive
<1>4. n \in RequestType
  <2>1. rq[r] \in RequestType
    BY <1>1 DEF Typed
  <2> QED
    BY <2>1, RequestFields
<1>5. n.pc = "routing" /\ n.asked = rq[r].asked /\ n.kept = rq[r].kept /\ n.answer = rq[r].answer
      /\ n.checked = rq[r].checked /\ n.serving = rq[r].serving
      /\ n.resp = rq[r].resp /\ n.gone = rq[r].gone /\ n.provider = rq[r].provider
      /\ n.logs = rq[r].logs /\ n.kind = rq[r].kind
  BY <1>1, RequestFields DEF Typed
<1> HIDE DEF n
<1>6. UNCHANGED <<Catalog, now, probes>> /\ faulty' = faulty /\ severed' = severed
  BY <1>2 DEF Env
<1>7. faulty' \subseteq Providers /\ severed' \subseteq Providers
      /\ faulty \subseteq faulty' /\ severed \subseteq severed'
      /\ active' \subseteq active \cup {r} /\ active \subseteq active' \cup {r}
  BY <1>1, <1>2, <1>6 DEF Shared
<1>8. ASSUME rq'[r] = n PROVE Local(r)'
  <2>1. Place(r)'
    BY <1>1, <1>2, <1>5, <1>8 DEF Local, Place
  <2>2. Blamed(r)'
    BY <1>1, <1>5, <1>6, <1>8 DEF Local, Blamed
  <2>3. FromOneLoad(r)' /\ AskedSoFar(r)' /\ CheckedSoFar(r)'
    BY <1>5, <1>8 DEF FromOneLoad, AskedSoFar, CheckedSoFar
  <2>4. SettledOne(r)'
    BY <1>1, <1>2, <1>5, <1>8 DEF Local, SettledOne, Tracked
  <2> QED
    BY <2>1, <2>2, <2>3, <2>4 DEF Local
<1>9. Reported(r)
  BY <1>2, <1>6, QuietStep
<1> QED
  BY <1>3, <1>4, <1>6, <1>7, <1>8, <1>9, MoveStep

LEMMA RespondKeeps == ASSUME IInv, NEW r \in Requests, Respond(r) PROVE IInv'
<1>1. Shared /\ Typed /\ Local(r)
  BY IInvParts DEF Parts
<1>2. /\ rq[r].pc = "sent" /\ breakers' = breakers /\ tripped' = tripped
      /\ UNCHANGED <<Catalog, now, probes>> /\ active' = active /\ severed' = severed
  BY DEF Respond
<1>3. PICK result \in {"2xx", "4xx", "5xx", "error"} \cup (IF rq[r].gone THEN {"canceled"} ELSE {}) :
         /\ rq' = [rq EXCEPT ![r].resp = result]
         /\ faulty' = IF result \in {"5xx", "error"} THEN faulty \cup {rq[r].provider} ELSE faulty
  BY DEF Respond
<1> DEFINE n == [rq[r] EXCEPT !.resp = result]
<1>4. rq' = [rq EXCEPT ![r] = n]
  BY <1>3
<1>5. result \in {"2xx", "4xx", "5xx", "error", "canceled"} /\ (result = "canceled" => rq[r].gone)
  BY <1>3
<1>6. n \in RequestType
  <2>1. rq[r] \in RequestType
    BY <1>1 DEF Typed
  <2> QED
    BY <1>5, <2>1, RequestFields
<1>7. n.pc = rq[r].pc /\ n.asked = rq[r].asked /\ n.kept = rq[r].kept /\ n.answer = rq[r].answer
      /\ n.checked = rq[r].checked /\ n.serving = rq[r].serving
      /\ n.resp = result /\ n.gone = rq[r].gone /\ n.provider = rq[r].provider
      /\ n.logs = rq[r].logs /\ n.kind = rq[r].kind /\ n.status = rq[r].status
  BY <1>1, RequestFields DEF Typed
<1> HIDE DEF n
<1>8. rq[r].provider \in Providers
  BY <1>1, <1>2 DEF Local, Place
<1>9. faulty' \subseteq Providers /\ severed' \subseteq Providers
      /\ faulty \subseteq faulty' /\ severed \subseteq severed'
      /\ active' \subseteq active \cup {r} /\ active \subseteq active' \cup {r}
  BY <1>1, <1>2, <1>3, <1>8 DEF Shared
<1>10. ASSUME rq'[r] = n PROVE Local(r)'
  <2>1. Place(r)'
    BY <1>1, <1>2, <1>5, <1>7, <1>10 DEF Local, Place
  <2>2. Blamed(r)'
    BY <1>3, <1>5, <1>7, <1>10 DEF Blamed
  <2>3. FromOneLoad(r)' /\ AskedSoFar(r)' /\ CheckedSoFar(r)'
    BY <1>2, <1>7, <1>10 DEF FromOneLoad, AskedSoFar, CheckedSoFar
  <2>4. SettledOne(r)'
    BY <1>1, <1>2, <1>7, <1>10 DEF Local, SettledOne
  <2> QED
    BY <2>1, <2>2, <2>3, <2>4 DEF Local
<1>11. Reported(r)
  BY <1>2, <1>9, QuietStep
<1> QED
  BY <1>2, <1>4, <1>6, <1>9, <1>10, <1>11, MoveStep

LEMMA StreamStopsKeeps == ASSUME IInv, NEW r \in Requests, StreamStops(r) PROVE IInv'
<1>1. Shared /\ Typed /\ Local(r)
  BY IInvParts DEF Parts
<1>2. /\ rq[r].pc = "streaming" /\ breakers' = breakers /\ tripped' = tripped
      /\ UNCHANGED <<Catalog, now, probes>> /\ active' = active
  BY DEF StreamStops
<1>3. PICK result \in {"end", "broken"} \cup (IF rq[r].gone THEN {"canceled", "unwritable"} ELSE {}) :
         /\ rq' = [rq EXCEPT ![r].resp = result]
         /\ faulty' = IF result = "broken" THEN faulty \cup {rq[r].provider} ELSE faulty
         /\ severed' = IF result = "unwritable" THEN severed \cup {rq[r].provider} ELSE severed
  BY DEF StreamStops
<1> DEFINE n == [rq[r] EXCEPT !.resp = result]
<1>4. rq' = [rq EXCEPT ![r] = n]
  BY <1>3
<1>5. result \in {"end", "broken", "unwritable", "canceled"} /\ (result = "canceled" => rq[r].gone)
  BY <1>3
<1>6. n \in RequestType
  <2>1. rq[r] \in RequestType
    BY <1>1 DEF Typed
  <2> QED
    BY <1>5, <2>1, RequestFields
<1>7. n.pc = rq[r].pc /\ n.asked = rq[r].asked /\ n.kept = rq[r].kept /\ n.answer = rq[r].answer
      /\ n.checked = rq[r].checked /\ n.serving = rq[r].serving
      /\ n.resp = result /\ n.gone = rq[r].gone /\ n.provider = rq[r].provider
      /\ n.logs = rq[r].logs /\ n.kind = rq[r].kind /\ n.status = rq[r].status
  BY <1>1, RequestFields DEF Typed
<1> HIDE DEF n
<1>8. rq[r].provider \in Providers
  BY <1>1, <1>2 DEF Local, Place
<1>9. faulty' \subseteq Providers /\ severed' \subseteq Providers
      /\ faulty \subseteq faulty' /\ severed \subseteq severed'
      /\ active' \subseteq active \cup {r} /\ active \subseteq active' \cup {r}
  BY <1>1, <1>2, <1>3, <1>8 DEF Shared
<1>10. ASSUME rq'[r] = n PROVE Local(r)'
  <2>1. Place(r)'
    BY <1>1, <1>2, <1>5, <1>7, <1>10 DEF Local, Place
  <2>2. Blamed(r)'
    BY <1>3, <1>5, <1>7, <1>10 DEF Blamed
  <2>3. FromOneLoad(r)' /\ AskedSoFar(r)' /\ CheckedSoFar(r)'
    BY <1>2, <1>7, <1>10 DEF FromOneLoad, AskedSoFar, CheckedSoFar
  <2>4. SettledOne(r)'
    BY <1>1, <1>2, <1>7, <1>10 DEF Local, SettledOne
  <2> QED
    BY <2>1, <2>2, <2>3, <2>4 DEF Local
<1>11. Reported(r)
  BY <1>2, <1>9, QuietStep
<1> QED
  BY <1>2, <1>4, <1>6, <1>9, <1>10, <1>11, MoveStep

LEMMA ClientLeavesKeeps == ASSUME IInv, NEW r \in Requests, ClientLeaves(r) PROVE IInv'
<1> DEFINE n == [rq[r] EXCEPT !.gone = TRUE]
<1>1. Shared /\ Typed /\ Local(r)
  BY IInvParts DEF Parts
<1>2. rq[r].pc \notin {"new", "done"} /\ breakers' = breakers /\ tripped' = tripped /\ UNCHANGED Env
      /\ active' = active
  BY DEF ClientLeaves
<1>3. rq' = [rq EXCEPT ![r] = n]
  BY DEF ClientLeaves
<1>4. n \in RequestType
  <2>1. rq[r] \in RequestType
    BY <1>1 DEF Typed
  <2> QED
    BY <2>1, RequestFields
<1>5. n.pc = rq[r].pc /\ n.asked = rq[r].asked /\ n.kept = rq[r].kept /\ n.answer = rq[r].answer
      /\ n.checked = rq[r].checked /\ n.serving = rq[r].serving
      /\ n.resp = rq[r].resp /\ n.gone = TRUE /\ n.provider = rq[r].provider
      /\ n.logs = rq[r].logs /\ n.kind = rq[r].kind /\ n.status = rq[r].status
      /\ n.cands = rq[r].cands /\ n.since = rq[r].since
  BY <1>1, RequestFields DEF Typed
<1> HIDE DEF n
<1>6. UNCHANGED <<Catalog, now, probes>> /\ faulty' = faulty /\ severed' = severed
  BY <1>2 DEF Env
<1>7. faulty' \subseteq Providers /\ severed' \subseteq Providers
      /\ faulty \subseteq faulty' /\ severed \subseteq severed'
      /\ active' \subseteq active \cup {r} /\ active \subseteq active' \cup {r}
  BY <1>1, <1>2, <1>6 DEF Shared
<1>8. ASSUME rq'[r] = n PROVE Local(r)'
  <2>1. Place(r)'
    BY <1>1, <1>5, <1>8 DEF Local, Place
  <2>2. Blamed(r)'
    BY <1>1, <1>5, <1>6, <1>8 DEF Local, Blamed
  <2>3. FromOneLoad(r)' /\ AskedSoFar(r)' /\ CheckedSoFar(r)'
    <3>1. loads' = loads /\ version' = version
      BY <1>6 DEF Catalog
    <3> QED
      BY <1>1, <1>2, <1>5, <1>8, <3>1 DEF Local, FromOneLoad, AskedSoFar, CheckedSoFar, ServesEndpoint
  <2>4. SettledOne(r)'
    BY <1>1, <1>2, <1>5, <1>8 DEF Local, SettledOne
  <2> QED
    BY <2>1, <2>2, <2>3, <2>4 DEF Local
<1>9. Reported(r)
  BY <1>2, <1>6, QuietStep
<1> QED
  BY <1>3, <1>4, <1>6, <1>7, <1>8, <1>9, MoveStep

LEMMA BeginStreamKeeps == ASSUME IInv, NEW r \in Requests, BeginStream(r) PROVE IInv'
<1> DEFINE n == [rq[r] EXCEPT !.pc = "streaming", !.status = rq[r].resp, !.resp = "none", !.answer = "200"]
<1>1. Shared /\ Typed /\ Local(r)
  BY IInvParts DEF Parts
<1>2. rq[r].pc = "sent" /\ rq[r].resp \in {"2xx", "4xx"} /\ breakers' = breakers /\ tripped' = tripped
      /\ UNCHANGED Env /\ active' = active
  BY DEF BeginStream
<1>3. rq' = [rq EXCEPT ![r] = n]
  BY DEF BeginStream
<1>4. rq[r].resp \in Statuses /\ "200" \in Statuses
  BY <1>2 DEF Statuses
<1>5. n \in RequestType
  <2>1. rq[r] \in RequestType
    BY <1>1 DEF Typed
  <2>2. "streaming" \in Phases
    BY PhaseNames
  <2>3. rq[r].resp \in SomeStatus /\ "200" \in SomeStatus
    BY <1>4 DEF SomeStatus
  <2> QED
    BY <2>1, <2>2, <2>3, NothingYet, RequestSets
<1>6. n.pc = "streaming" /\ n.answer = "200" /\ n.status = rq[r].resp
      /\ n.resp = "none" /\ n.gone = rq[r].gone /\ n.provider = rq[r].provider
      /\ n.logs = rq[r].logs /\ n.kind = rq[r].kind
  BY <1>1, RequestFields DEF Typed
<1> HIDE DEF n
<1>7. UNCHANGED <<Catalog, now, probes>> /\ faulty' = faulty /\ severed' = severed
  BY <1>2 DEF Env
<1>8. faulty' \subseteq Providers /\ severed' \subseteq Providers
      /\ faulty \subseteq faulty' /\ severed \subseteq severed'
      /\ active' \subseteq active \cup {r} /\ active \subseteq active' \cup {r}
  BY <1>1, <1>2, <1>7 DEF Shared
<1>9. ASSUME rq'[r] = n PROVE Local(r)'
  <2>1. Place(r)'
    BY <1>1, <1>2, <1>4, <1>6, <1>9 DEF Local, Place
  <2>2. Blamed(r)' /\ FromOneLoad(r)' /\ AskedSoFar(r)' /\ CheckedSoFar(r)'
    BY <1>6, <1>9 DEF Blamed, FromOneLoad, AskedSoFar, CheckedSoFar
  <2>3. SettledOne(r)'
    BY <1>1, <1>2, <1>6, <1>9 DEF Local, SettledOne
  <2> QED
    BY <2>1, <2>2, <2>3 DEF Local
<1>10. Reported(r)
  BY <1>2, <1>7, QuietStep
<1> QED
  BY <1>3, <1>5, <1>7, <1>8, <1>9, <1>10, MoveStep

-----------------------------------------------------------------------------
(***************************************************************************)
(* The handler in Route.                                                   *)
(***************************************************************************)
LEMMA LookedUp ==
    ASSUME Shared, NEW cands, \/ cands = AliasCandidates(snap, RequestedModel)
                              \/ cands = DirectCandidates(snap, RequestedModel)
    PROVE  /\ cands \in CandidateLists
           /\ \A i \in DOMAIN cands : /\ cands[i].provider \in loads[version].providers
                                      /\ SentBy(loads[version], cands[i].provider, cands[i].model)
<1> DEFINE data == loads[version]
<1>1. version \in DOMAIN loads /\ snap = BuildRoutingSnapshot(data)
  BY DEF Shared
<1>2. data \in Data
  BY <1>1 DEF Shared
<1> HIDE DEF data
<1>3. /\ cands \in Seq(Candidates(data.providers))
      /\ \A i \in DOMAIN cands : SentBy(data, cands[i].provider, cands[i].model)
  BY <1>1, <1>2, CandidatesSent
<1>4. data.providers \subseteq LoadedProviders
  BY <1>1 DEF data, LoadedProviders
<1>5. \A i \in DOMAIN cands : cands[i] \in Candidates(data.providers)
  BY <1>3
<1>6. \A i \in DOMAIN cands : cands[i].provider \in data.providers /\ cands[i] \in Candidates(LoadedProviders)
  BY <1>4, <1>5 DEF Candidates
<1>7. cands \in Seq(Candidates(LoadedProviders))
  <2>1. Len(cands) \in Nat /\ cands \in [1 .. Len(cands) -> Candidates(data.providers)]
    BY <1>3
  <2>2. cands \in [1 .. Len(cands) -> Candidates(LoadedProviders)]
    BY <1>6, <2>1
  <2> QED
    BY <2>1, <2>2, FunctionIsSeq
<1> QED
  BY <1>3, <1>6, <1>7 DEF CandidateLists, data

\* A handler that has its candidates has not asked about any yet.
LEMMA ResolvedKeeps ==
    ASSUME IInv, NEW r \in Requests, rq[r].pc \in {"routing", "direct"},
           NEW n \in RequestType, rq' = [rq EXCEPT ![r] = n],
           n.pc \in {"direct", "asking"}, n.since \in 1 .. version,
           n.pc = "asking" => \A i \in DOMAIN n.cands :
               /\ n.cands[i].provider \in loads[version].providers
               /\ SentBy(loads[version], n.cands[i].provider, n.cands[i].model),
           n.asked = rq[r].asked, n.kept = rq[r].kept, n.answer = rq[r].answer,
           n.checked = rq[r].checked, n.serving = rq[r].serving,
           n.resp = rq[r].resp, n.gone = rq[r].gone, n.provider = rq[r].provider,
           n.logs = rq[r].logs, n.kind = rq[r].kind,
           UNCHANGED <<breakers, tripped, active, Env>>
    PROVE  IInv'
<1>1. Shared /\ Typed /\ Local(r)
  BY IInvParts DEF Parts
<1>2. UNCHANGED <<Catalog, now, probes>> /\ faulty' = faulty /\ severed' = severed
      /\ breakers' = breakers /\ tripped' = tripped /\ active' = active
  BY DEF Env
<1>3. faulty' \subseteq Providers /\ severed' \subseteq Providers
      /\ faulty \subseteq faulty' /\ severed \subseteq severed'
      /\ active' \subseteq active \cup {r} /\ active \subseteq active' \cup {r}
  BY <1>1, <1>2 DEF Shared
<1>4. ASSUME rq'[r] = n PROVE Local(r)'
  <2>1. Place(r)'
    BY <1>1, <1>4 DEF Local, Place
  <2>2. Blamed(r)'
    BY <1>1, <1>2, <1>4 DEF Local, Blamed
  <2>3. FromOneLoad(r)'
    <3>1. loads' = loads /\ version' = version
      BY <1>2 DEF Catalog
    <3>2. version \in Int
      BY <1>1 DEF Shared
    <3>3. version \in n.since .. version
      BY <3>2
    <3> QED
      BY <1>4, <3>1, <3>3 DEF FromOneLoad
  <2>4. AskedSoFar(r)'
    <3>1. rq'[r].asked = 0 /\ rq'[r].kept = {}
      BY <1>1, <1>4 DEF Local, Place
    <3>2. n.cands \in CandidateLists
      BY RequestFields
    <3>3. Len(rq'[r].cands) \in Nat
      BY <1>4, <3>2 DEF CandidateLists
    <3> QED
      BY <3>1, <3>3 DEF AskedSoFar
  <2>5. CheckedSoFar(r)'
    <3>1. rq'[r].checked = {} /\ rq'[r].serving = {}
      BY <1>1, <1>4 DEF Local, Place
    <3> QED
      BY <3>1 DEF CheckedSoFar
  <2>6. SettledOne(r)'
    BY <1>1, <1>2, <1>4 DEF Local, SettledOne
  <2> QED
    BY <2>1, <2>2, <2>3, <2>4, <2>5, <2>6 DEF Local
<1>5. Reported(r)
  BY <1>2, QuietStep
<1> QED
  BY <1>2, <1>3, <1>4, <1>5, MoveStep

LEMMA ResolveAsAliasKeeps == ASSUME IInv, NEW r \in Requests, ResolveAsAlias(r) PROVE IInv'
<1> DEFINE cands == AliasCandidates(snap, RequestedModel)
           pc == IF cands # <<>> THEN "asking" ELSE "direct"
           n == [rq[r] EXCEPT !.pc = pc, !.cands = cands, !.since = version]
<1>1. Shared /\ Typed
  BY IInvParts DEF Parts
<1>2. rq[r].pc = "routing" /\ UNCHANGED <<breakers, tripped, active, Env>>
  BY DEF ResolveAsAlias
<1>3. rq' = [rq EXCEPT ![r] = n]
  BY DEF ResolveAsAlias
<1>4. /\ cands \in CandidateLists
      /\ \A i \in DOMAIN cands : /\ cands[i].provider \in loads[version].providers
                                 /\ SentBy(loads[version], cands[i].provider, cands[i].model)
  BY <1>1, LookedUp
<1> HIDE DEF cands
<1>5. pc \in {"direct", "asking"}
  OBVIOUS
<1> HIDE DEF pc
<1>6. version \in Nat /\ version \in 1 .. version
  BY <1>1 DEF Shared
<1>7. rq[r] \in RequestType
  BY <1>1 DEF Typed
<1>8. n \in RequestType
  <2>1. pc \in Phases
    BY <1>5, PhaseNames
  <2> QED
    BY <1>4, <1>6, <1>7, <2>1, RequestSets
<1>9. n.pc = pc /\ n.cands = cands /\ n.since = version
      /\ n.asked = rq[r].asked /\ n.kept = rq[r].kept /\ n.answer = rq[r].answer
      /\ n.checked = rq[r].checked /\ n.serving = rq[r].serving
      /\ n.resp = rq[r].resp /\ n.gone = rq[r].gone /\ n.provider = rq[r].provider
      /\ n.logs = rq[r].logs /\ n.kind = rq[r].kind
  BY <1>7, RequestFields
<1> HIDE DEF n
<1> QED
  BY <1>2, <1>3, <1>4, <1>5, <1>6, <1>8, <1>9, ResolvedKeeps

LEMMA ResolveAsModelKeeps == ASSUME IInv, NEW r \in Requests, ResolveAsModel(r) PROVE IInv'
<1> DEFINE cands == DirectCandidates(snap, RequestedModel)
           n == [rq[r] EXCEPT !.pc = "asking", !.cands = cands]
<1>1. Shared /\ Typed /\ Local(r)
  BY IInvParts DEF Parts
<1>2. rq[r].pc = "direct" /\ UNCHANGED <<breakers, tripped, active, Env>>
  BY DEF ResolveAsModel
<1>3. rq' = [rq EXCEPT ![r] = n]
  BY DEF ResolveAsModel
<1>4. /\ cands \in CandidateLists
      /\ \A i \in DOMAIN cands : /\ cands[i].provider \in loads[version].providers
                                 /\ SentBy(loads[version], cands[i].provider, cands[i].model)
  BY <1>1, LookedUp
<1> HIDE DEF cands
<1>5. rq[r].since \in 1 .. version
  BY <1>1, <1>2 DEF Local, FromOneLoad
<1>6. rq[r] \in RequestType
  BY <1>1 DEF Typed
<1>7. n \in RequestType
  <2>1. "asking" \in Phases
    BY PhaseNames
  <2> QED
    BY <1>4, <1>6, <2>1, RequestSets
<1>8. n.pc = "asking" /\ n.cands = cands /\ n.since = rq[r].since
      /\ n.asked = rq[r].asked /\ n.kept = rq[r].kept /\ n.answer = rq[r].answer
      /\ n.checked = rq[r].checked /\ n.serving = rq[r].serving
      /\ n.resp = rq[r].resp /\ n.gone = rq[r].gone /\ n.provider = rq[r].provider
      /\ n.logs = rq[r].logs /\ n.kind = rq[r].kind
  BY <1>6, RequestFields
<1> HIDE DEF n
<1> QED
  BY <1>2, <1>3, <1>4, <1>5, <1>7, <1>8, ResolvedKeeps

LEMMA RouteFailsKeeps == ASSUME IInv, NEW r \in Requests, RouteFails(r) PROVE IInv'
<1>1. rq[r].pc = "asking" /\ RetryOr(r, "503") /\ UNCHANGED Env
      /\ breakers' = breakers /\ tripped' = [tripped EXCEPT ![r] = {}]
  BY DEF RouteFails, AllChecked, AllAsked
<1>2. faulty' = faulty /\ severed' = severed
  BY <1>1 DEF Env
<1>3. Reported(r)
  BY <1>1, <1>2, QuietStep
<1>4. "503" \in Statuses \ {"200"} /\ rq[r].pc \notin {"new", "streaming", "done"}
  BY <1>1 DEF Statuses
<1> QED
  BY <1>1, <1>3, <1>4, RetryStep

LEMMA AskBreakerKeeps == ASSUME IInv, NEW r \in Requests, AskBreaker(r) PROVE IInv'
<1> DEFINE i == rq[r].asked + 1
           p == rq[r].cands[i].provider
           passes == ~p.circuitBreakerEnabled \/ PassesBreaker(breakers[p.id])
           kept == IF passes THEN rq[r].kept \cup {i} ELSE rq[r].kept
           n == [rq[r] EXCEPT !.asked = i, !.kept = kept]
<1>1. Shared /\ Typed /\ Local(r)
  BY IInvParts DEF Parts
<1>2. /\ rq[r].pc = "asking" /\ rq[r].asked < Len(rq[r].cands)
      /\ breakers' = IF p.circuitBreakerEnabled
                     THEN [breakers EXCEPT ![p.id] = AfterAllow(@, now)] ELSE breakers
      /\ tripped' = IF p.circuitBreakerEnabled /\ passes
                    THEN [tripped EXCEPT ![r] = @ \ {p.id}] ELSE tripped
      /\ active' = active /\ UNCHANGED Env
  BY DEF AskBreaker
<1>3. rq' = [rq EXCEPT ![r] = n]
  BY DEF AskBreaker
<1>4. rq[r] \in RequestType
  BY <1>1 DEF Typed
<1>5. rq[r].asked \in Nat /\ rq[r].kept \in SUBSET Nat /\ rq[r].cands \in CandidateLists
  BY <1>4, RequestFields
<1>6. i \in Nat /\ i \in DOMAIN rq[r].cands /\ i <= Len(rq[r].cands)
  <2> DEFINE list == rq[r].cands
             a == rq[r].asked
  <2>1. list \in CandidateLists /\ a \in Nat /\ a < Len(list)
    BY <1>2, <1>5
  <2> HIDE DEF list, a
  <2>2. DOMAIN list = 1..Len(list) /\ Len(list) \in Nat
    BY <2>1 DEF CandidateLists
  <2>3. a + 1 \in Nat /\ a + 1 \in DOMAIN list /\ a + 1 <= Len(list)
    BY <2>1, <2>2
  <2> QED
    BY <2>3 DEF list, a
<1>7. p \in ProviderRows /\ p.id \in Providers
  BY <1>1, <1>6, CandidateRow
<1>8. p.circuitBreakerEnabled \in BOOLEAN
  BY <1>7 DEF ProviderRows
<1>9. kept \in SUBSET Nat
  BY <1>5, <1>6
<1>10. n \in RequestType
  <2> HIDE DEF kept, i
  <2> QED
    BY <1>4, <1>6, <1>9, RequestFields
<1>11. n.asked = i /\ n.kept = kept /\ n.pc = rq[r].pc /\ n.cands = rq[r].cands
       /\ n.checked = rq[r].checked /\ n.serving = rq[r].serving
       /\ n.since = rq[r].since /\ n.answer = rq[r].answer
       /\ n.resp = rq[r].resp /\ n.gone = rq[r].gone /\ n.provider = rq[r].provider
       /\ n.logs = rq[r].logs /\ n.kind = rq[r].kind
  <2> HIDE DEF kept, i
  <2> QED
    BY <1>4, RequestFields
<1> HIDE DEF n
<1>12. now \in Nat
  BY <1>1, ProxyConstants DEF Shared
<1>13. \A q \in Providers : GoodBreaker(breakers[q])
  BY <1>1 DEF Shared, BreakersGood
<1>14. /\ GoodBreaker(AfterAllow(breakers[p.id], now))
       /\ AfterAllow(breakers[p.id], now).state = "Open" =>
            breakers[p.id].state = "Open" /\ ~PassesBreaker(breakers[p.id])
       /\ breakers[p.id].state = "Closed" <=> AfterAllow(breakers[p.id], now).state = "Closed"
  BY <1>7, <1>12, <1>13, AllowGood DEF PassesBreaker
<1> HIDE DEF i, p
<1>15. /\ BreakersGood'
       /\ \A q \in Providers : breakers'[q].state = "Open" => breakers[q].state = "Open"
       /\ \A q \in Providers : breakers'[q].state # "Closed" => breakers[q].state # "Closed"
       /\ p.circuitBreakerEnabled /\ passes => breakers'[p.id].state # "Open"
  <2>1. breakers \in [Providers -> CircuitBreakerType]
    BY <1>1 DEF Shared, BreakersGood
  <2>2. CASE p.circuitBreakerEnabled
    <3>1. breakers' = [breakers EXCEPT ![p.id] = AfterAllow(breakers[p.id], now)]
      BY <1>2, <2>2
    <3>2. breakers'[p.id] = AfterAllow(breakers[p.id], now)
          /\ \A q \in Providers \ {p.id} : breakers'[q] = breakers[q]
      BY <1>7, <2>1, <3>1
    <3>3. breakers' \in [Providers -> CircuitBreakerType]
      BY <1>14, <2>1, <3>1 DEF GoodBreaker
    <3>4. BreakersGood'
      BY <1>13, <1>14, <3>2, <3>3 DEF BreakersGood, GoodBreaker
    <3> QED
      BY <1>14, <2>2, <3>2, <3>4
  <2>3. CASE ~p.circuitBreakerEnabled
    BY <1>1, <1>2, <2>3 DEF Shared, BreakersGood
  <2> QED
    BY <1>8, <2>2, <2>3
<1>16. TrippedTyped' /\ (\A q \in Requests \ {r} : tripped'[q] = tripped[q])
       /\ (p.circuitBreakerEnabled /\ passes => tripped'[r] = tripped[r] \ {p.id})
       /\ (~(p.circuitBreakerEnabled /\ passes) => tripped'[r] = tripped[r])
  <2> HIDE DEF passes
  <2> QED
    BY <1>1, <1>2 DEF Shared, TrippedTyped
<1>17. UNCHANGED <<Catalog, now, probes>> /\ faulty' = faulty /\ severed' = severed
  BY <1>2 DEF Env
<1>18. faulty' \subseteq Providers /\ severed' \subseteq Providers
      /\ faulty \subseteq faulty' /\ severed \subseteq severed'
      /\ active' \subseteq active \cup {r} /\ active \subseteq active' \cup {r}
  BY <1>1, <1>2, <1>17 DEF Shared
<1>19. Reported(r)
  <2>1. OnlySeveredStreamsTrip'
    BY <1>1, <1>15, <1>17 DEF Shared, OnlySeveredStreamsTrip
  <2> QED
    BY <1>15, <1>16, <2>1 DEF Reported, RecordedFor
<1>20. ASSUME rq'[r] = n PROVE Local(r)'
  <2>1. Place(r)'
    BY <1>1, <1>2, <1>11, <1>20 DEF Local, Place
  <2>2. Blamed(r)'
    BY <1>1, <1>11, <1>17, <1>20 DEF Local, Blamed
  <2>3. FromOneLoad(r)'
    <3>1. loads' = loads /\ version' = version
      BY <1>17 DEF Catalog
    <3> QED
      BY <1>1, <1>2, <1>11, <1>20, <3>1 DEF Local, FromOneLoad
  <2>4. /\ rq[r].kept \subseteq 1 .. rq[r].asked
        /\ \A j \in 1 .. rq[r].asked :
             j \notin rq[r].kept => rq[r].cands[j].provider.circuitBreakerEnabled
        /\ \A k \in rq[r].kept :
             /\ rq[r].cands[k].provider.circuitBreakerEnabled
             /\ breakers[rq[r].cands[k].provider.id].state = "Open"
             => rq[r].cands[k].provider.id \in tripped[r]
    BY <1>1, <1>2 DEF Local, AskedSoFar
  <2>5. kept \subseteq 1 .. i
    BY <1>5, <1>6, <2>4 DEF i
  <2>6. \A j \in 1 .. i : j \notin kept => rq[r].cands[j].provider.circuitBreakerEnabled
    <3>1. \A j \in 1 .. i : j = i \/ j \in 1 .. rq[r].asked
      BY <1>5 DEF i
    <3>2. i \notin kept => p.circuitBreakerEnabled
      OBVIOUS
    <3> QED
      BY <2>4, <3>1, <3>2 DEF p
  <2>7. ASSUME NEW k \in kept, rq[r].cands[k].provider.circuitBreakerEnabled,
               breakers'[rq[r].cands[k].provider.id].state = "Open"
        PROVE  rq[r].cands[k].provider.id \in tripped'[r]
    <3>1. k \in DOMAIN rq[r].cands
      <4>1. k \in 1 .. i /\ k \in 1 .. Len(rq[r].cands)
        BY <1>5, <1>6, <2>5 DEF CandidateLists
      <4> QED
        BY <1>5, <4>1 DEF CandidateLists
    <3>2. rq[r].cands[k].provider.id \in Providers
      BY <1>1, <3>1, CandidateRow
    <3>3. breakers[rq[r].cands[k].provider.id].state = "Open"
      BY <1>15, <2>7, <3>2
    <3>4. CASE p.circuitBreakerEnabled /\ passes
      <4>1. rq[r].cands[k].provider.id # p.id
        BY <1>15, <2>7, <3>4
      <4>2. k \in rq[r].kept
        BY <4>1 DEF p
      <4> QED
        BY <1>16, <2>4, <2>7, <3>3, <3>4, <4>1, <4>2
    <3>5. CASE ~(p.circuitBreakerEnabled /\ passes)
      <4>1. k \in rq[r].kept
        BY <2>7, <3>5 DEF p
      <4> QED
        BY <1>16, <2>4, <2>7, <3>3, <3>5, <4>1
    <3> QED
      BY <3>4, <3>5
  <2>8. AskedSoFar(r)'
    <3> HIDE DEF kept
    <3> QED
      BY <1>6, <1>11, <1>20, <2>5, <2>6, <2>7 DEF AskedSoFar
  <2>9. CheckedSoFar(r)'
    <3>1. rq[r].asked # Len(rq[r].cands)
      BY <1>2, <1>5 DEF CandidateLists
    <3>2. rq[r].checked = {} /\ rq[r].serving = {}
      BY <1>1, <1>2, <3>1 DEF Local, CheckedSoFar
    <3> QED
      BY <1>11, <1>20, <3>2 DEF CheckedSoFar
  <2>10. SettledOne(r)'
    BY <1>1, <1>2, <1>11, <1>20 DEF Local, SettledOne
  <2> QED
    BY <2>1, <2>2, <2>3, <2>8, <2>9, <2>10 DEF Local
<1> QED
  BY <1>3, <1>10, <1>17, <1>18, <1>19, <1>20, MoveStep

LEMMA CheckEndpointKeeps == ASSUME IInv, NEW r \in Requests, CheckEndpoint(r) PROVE IInv'
<1>1. Shared /\ Typed /\ Local(r)
  BY IInvParts DEF Parts
<1>2. /\ rq[r].pc = "asking" /\ rq[r].asked = Len(rq[r].cands)
      /\ breakers' = breakers /\ tripped' = tripped /\ active' = active /\ UNCHANGED Env
  BY DEF CheckEndpoint, AllAsked
<1>3. PICK i \in rq[r].kept \ rq[r].checked :
         rq' = [rq EXCEPT ![r].checked = @ \cup {i},
                          ![r].serving = IF HasEnabledEndpoint(snap, rq[r].cands[i].provider.id, EndpointPath)
                                         THEN @ \cup {i} ELSE @]
  BY DEF CheckEndpoint
<1> DEFINE has == HasEnabledEndpoint(snap, rq[r].cands[i].provider.id, EndpointPath)
           checked == rq[r].checked \cup {i}
           serving == IF has THEN rq[r].serving \cup {i} ELSE rq[r].serving
           n == [rq[r] EXCEPT !.checked = checked, !.serving = serving]
<1>4. rq' = [rq EXCEPT ![r] = n]
  BY <1>3
<1>5. rq[r] \in RequestType
  BY <1>1 DEF Typed
<1>6. rq[r].kept \in SUBSET Nat /\ rq[r].checked \in SUBSET Nat /\ rq[r].serving \in SUBSET Nat
  BY <1>5, RequestFields
<1>7. checked \in SUBSET Nat /\ serving \in SUBSET Nat
  BY <1>3, <1>6
<1>8. has <=> ServesEndpoint(loads[version], rq[r].cands[i].provider.id)
  <2>1. loads[version] \in Data /\ snap = BuildRoutingSnapshot(loads[version])
    BY <1>1 DEF Shared
  <2> QED
    BY <2>1, EndpointSent
<1>9. /\ rq[r].serving \subseteq rq[r].checked /\ rq[r].checked \subseteq rq[r].kept
      /\ \A k \in rq[r].checked : \E v \in rq[r].since .. version :
           k \in rq[r].serving <=> ServesEndpoint(loads[v], rq[r].cands[k].provider.id)
  BY <1>1, <1>2 DEF Local, CheckedSoFar
<1>10. serving \subseteq checked /\ checked \subseteq rq[r].kept
  BY <1>3, <1>9
<1>11. \A k \in checked : \E v \in rq[r].since .. version :
          k \in serving <=> ServesEndpoint(loads[v], rq[r].cands[k].provider.id)
  <2>1. rq[r].since \in 1 .. version /\ version \in Int
    BY <1>1, <1>2 DEF Local, FromOneLoad, Shared
  <2>2. version \in rq[r].since .. version
    BY <2>1
  <2>3. i \in serving <=> ServesEndpoint(loads[version], rq[r].cands[i].provider.id)
    BY <1>3, <1>8, <1>9
  <2>4. \A k \in rq[r].checked : k # i /\ (k \in serving <=> k \in rq[r].serving)
    BY <1>3
  <2> HIDE DEF serving
  <2>5. ASSUME NEW k \in checked
        PROVE  \E v \in rq[r].since .. version :
                  k \in serving <=> ServesEndpoint(loads[v], rq[r].cands[k].provider.id)
    <3>1. CASE k = i
      BY <2>2, <2>3, <3>1
    <3>2. CASE k \in rq[r].checked
      BY <1>9, <2>4, <3>2
    <3> QED
      BY <3>1, <3>2
  <2> QED
    BY <2>5
<1> HIDE DEF has, checked, serving
<1>12. n \in RequestType
  BY <1>5, <1>7, RequestSets
<1>13. n.pc = rq[r].pc /\ n.asked = rq[r].asked /\ n.kept = rq[r].kept /\ n.cands = rq[r].cands
       /\ n.checked = checked /\ n.serving = serving
       /\ n.since = rq[r].since /\ n.answer = rq[r].answer
       /\ n.resp = rq[r].resp /\ n.gone = rq[r].gone /\ n.provider = rq[r].provider
       /\ n.logs = rq[r].logs /\ n.kind = rq[r].kind /\ n.status = rq[r].status
  BY <1>5, RequestSets
<1> HIDE DEF n
<1>14. UNCHANGED <<Catalog, now, probes>> /\ faulty' = faulty /\ severed' = severed
       /\ loads' = loads /\ version' = version
  BY <1>2 DEF Env, Catalog
<1>15. faulty' \subseteq Providers /\ severed' \subseteq Providers
      /\ faulty \subseteq faulty' /\ severed \subseteq severed'
      /\ active' \subseteq active \cup {r} /\ active \subseteq active' \cup {r}
  BY <1>1, <1>2, <1>14 DEF Shared
<1>16. ASSUME rq'[r] = n PROVE Local(r)'
  <2>1. Place(r)'
    BY <1>1, <1>2, <1>13, <1>16 DEF Local, Place
  <2>2. Blamed(r)'
    BY <1>1, <1>13, <1>14, <1>16 DEF Local, Blamed
  <2>3. FromOneLoad(r)'
    BY <1>1, <1>2, <1>13, <1>14, <1>16 DEF Local, FromOneLoad
  <2>4. AskedSoFar(r)'
    BY <1>1, <1>2, <1>13, <1>16 DEF Local, AskedSoFar
  <2>5. CheckedSoFar(r)'
    <3>1. /\ rq'[r].serving = serving /\ rq'[r].checked = checked /\ rq'[r].kept = rq[r].kept
          /\ rq'[r].since = rq[r].since /\ rq'[r].cands = rq[r].cands
          /\ rq'[r].asked = Len(rq'[r].cands)
      BY <1>2, <1>13, <1>16
    <3> QED
      BY <1>10, <1>11, <1>14, <3>1 DEF CheckedSoFar, ServesEndpoint
  <2>6. SettledOne(r)'
    BY <1>1, <1>2, <1>13, <1>16 DEF Local, SettledOne
  <2> QED
    BY <2>1, <2>2, <2>3, <2>4, <2>5, <2>6 DEF Local
<1>17. Reported(r)
  BY <1>2, <1>14, QuietStep
<1> QED
  BY <1>4, <1>12, <1>14, <1>15, <1>16, <1>17, MoveStep

\* What Route may return, when every candidate has been asked and those that
\* passed have been checked.
LEMMA EligibleServes ==
    ASSUME IInv, NEW r \in Requests, AllChecked(r), NEW c \in Eligible(r)
    PROVE  \E i \in rq[r].serving :
              /\ i \in rq[r].kept /\ i \in DOMAIN rq[r].cands /\ c = rq[r].cands[i]
              /\ \E v \in rq[r].since .. version : ServesEndpoint(loads[v], c.provider.id)
              /\ \A d \in Serves(r) : d.priority <= c.priority
<1>1. rq[r].pc = "asking" /\ rq[r].asked = Len(rq[r].cands)
  BY DEF AllChecked, AllAsked
<1>2. Typed /\ AskedSoFar(r) /\ CheckedSoFar(r)
  BY IInvParts DEF Parts, Local
<1>3. rq[r].kept \subseteq 1 .. Len(rq[r].cands)
  BY <1>1, <1>2 DEF AskedSoFar
<1>4. rq[r].cands \in Seq(Candidates(LoadedProviders))
  BY <1>2, RequestFields DEF Typed, CandidateLists
<1>5. c \in Serves(r) /\ \A d \in Serves(r) : d.priority <= c.priority
  BY DEF Eligible, SelectWeightedPriority, TopGroup
<1>6. PICK i \in rq[r].serving : c = rq[r].cands[i]
  BY <1>5 DEF Serves
<1>7. i \in rq[r].kept /\ \E v \in rq[r].since .. version : ServesEndpoint(loads[v], c.provider.id)
  BY <1>1, <1>2, <1>6 DEF CheckedSoFar
<1>8. i \in DOMAIN rq[r].cands
  BY <1>3, <1>4, <1>7
<1> QED
  BY <1>5, <1>6, <1>7, <1>8

LEMMA SendKeeps == ASSUME IInv, NEW r \in Requests, Send(r) PROVE IInv'
<1>1. Shared /\ Typed /\ Local(r)
  BY IInvParts DEF Parts
<1>2. rq[r].pc = "asking" /\ AllChecked(r) /\ UNCHANGED Env
      /\ breakers' = breakers /\ tripped' = [tripped EXCEPT ![r] = {}]
  BY DEF Send, AllChecked, AllAsked
<1>3. faulty' = faulty /\ severed' = severed /\ UNCHANGED <<Catalog, now, probes>>
  BY <1>2 DEF Env
<1>4. Reported(r)
  BY <1>2, <1>3, QuietStep
<1>5. PICK c \in Eligible(r) :
         IF c.provider.validURL
         THEN /\ rq' = [rq EXCEPT ![r] = [Routed(r) EXCEPT !.pc = "sent", !.provider = c.provider.id,
                                                           !.model = c.model]]
              /\ UNCHANGED active
         ELSE RetryOr(r, "500")
  BY DEF Send
<1>6. CASE c.provider.validURL
  <2> DEFINE f == Routed(r)
             n == [f EXCEPT !.pc = "sent", !.provider = c.provider.id, !.model = c.model]
  <2>1. rq' = [rq EXCEPT ![r] = n] /\ active' = active
    BY <1>5, <1>6
  <2>2. c.provider.id \in Providers /\ c.model \in Names
    <3>1. PICK i \in DOMAIN rq[r].cands : c = rq[r].cands[i]
      BY <1>2, EligibleServes
    <3> QED
      BY <1>1, <3>1, CandidateRow
  <2>3. /\ f \in RequestType /\ f.kind = rq[r].kind /\ f.resp = rq[r].resp
        /\ f.answer = rq[r].answer /\ f.gone = rq[r].gone /\ f.logs = rq[r].logs
    <3>1. rq[r] \in RequestType
      BY <1>1 DEF Typed
    <3>2. Routed(r).resp = rq[r].resp
      BY <3>1, RequestFields DEF Routed
    <3> QED
      BY <1>1, <3>2, RoutedFields
  <2> HIDE DEF f
  <2>4. n \in RequestType
    <3>1. "sent" \in Phases
      BY PhaseNames
    <3>2. c.provider.id \in SomeProvider /\ c.model \in SomeName
      BY <2>2 DEF SomeProvider, SomeName
    <3> QED
      BY <2>3, <3>1, <3>2, RequestSets
  <2>5. n.pc = "sent" /\ n.provider = c.provider.id /\ n.kind = f.kind /\ n.resp = f.resp
        /\ n.answer = f.answer /\ n.gone = f.gone /\ n.logs = f.logs
    BY <2>3, RequestFields
  <2> HIDE DEF n
  <2>6. faulty' \subseteq Providers /\ severed' \subseteq Providers
        /\ faulty \subseteq faulty' /\ severed \subseteq severed'
        /\ active' \subseteq active \cup {r} /\ active \subseteq active' \cup {r}
    BY <1>1, <1>3, <2>1 DEF Shared
  <2>7. ASSUME rq'[r] = n PROVE Local(r)'
    <3>1. Place(r)'
      BY <1>1, <1>2, <2>2, <2>3, <2>5, <2>7 DEF Local, Place
    <3>2. Blamed(r)'
      BY <1>1, <1>2, <2>3, <2>5, <2>7 DEF Local, Blamed, Place
    <3>3. FromOneLoad(r)' /\ AskedSoFar(r)' /\ CheckedSoFar(r)'
      BY <2>5, <2>7 DEF FromOneLoad, AskedSoFar, CheckedSoFar
    <3>4. SettledOne(r)'
      BY <1>1, <1>2, <2>1, <2>3, <2>5, <2>7 DEF Local, SettledOne
    <3> QED
      BY <3>1, <3>2, <3>3, <3>4 DEF Local
  <2> QED
    BY <1>3, <1>4, <2>1, <2>4, <2>6, <2>7, MoveStep
<1>7. CASE ~c.provider.validURL
  <2>1. RetryOr(r, "500")
    BY <1>5, <1>7
  <2>2. "500" \in Statuses \ {"200"} /\ rq[r].pc \notin {"new", "streaming", "done"}
    BY <1>2 DEF Statuses
  <2> QED
    BY <1>2, <1>4, <2>1, <2>2, RetryStep
<1> QED
  BY <1>6, <1>7

-----------------------------------------------------------------------------
(***************************************************************************)
(* The steps of nobody's handler.                                          *)
(***************************************************************************)
LEMMA OtherStep ==
    ASSUME IInv, rq' = rq, active' = active, loads' = loads,
           version' \in DOMAIN loads, version <= version', snap' = BuildRoutingSnapshot(loads[version']),
           now' \in 0 .. MaxTime, probes' \in Nat, faulty' \subseteq Providers,
           faulty \subseteq faulty', severed' = severed,
           BreakersGood', TrippedTyped', OnlySeveredStreamsTrip', TripsRecorded
    PROVE  IInv'
<1>1. Shared /\ Typed /\ \A q \in Requests : Local(q)
  BY IInvParts DEF Parts
<1>2. version' \in Nat
  BY <1>1 DEF Shared
<1>3. \A q \in Requests : Local(q)'
  BY <1>1, <1>2, LocalStays DEF TripsRecorded
<1>4. Shared'
  BY <1>1 DEF Shared, Data
<1>5. Typed'
  <2>1. RequestType' = RequestType
    BY DEF RequestType
  <2> QED
    BY <1>1, <2>1 DEF Typed
<1>6. Parts'
  BY <1>3, <1>4, <1>5 DEF Parts
<1> QED
  BY <1>6, IInvParts, PTL

LEMMA QuietTrips ==
    ASSUME IInv, breakers' = breakers, tripped' = tripped, faulty' = faulty, severed' = severed
    PROVE  BreakersGood' /\ TrippedTyped' /\ OnlySeveredStreamsTrip' /\ TripsRecorded
<1>1. BreakersGood /\ TrippedTyped /\ OnlySeveredStreamsTrip
  BY IInvParts DEF Parts, Shared
<1> QED
  BY <1>1 DEF BreakersGood, TrippedTyped, OnlySeveredStreamsTrip, TripsRecorded, RecordedFor

LEMMA TickKeeps == ASSUME IInv, Tick PROVE IInv'
<1>1. Shared
  BY IInvParts DEF Parts
<1>2. /\ now < MaxTime /\ now' = now + 1 /\ loads' = loads /\ version' = version /\ snap' = snap
      /\ breakers' = breakers /\ rq' = rq /\ active' = active /\ probes' = probes
      /\ faulty' = faulty /\ severed' = severed /\ tripped' = tripped
  BY DEF Tick, Catalog
<1>3. now' \in 0 .. MaxTime
  BY <1>1, <1>2, ProxyConstants DEF Shared
<1>4. BreakersGood' /\ TrippedTyped' /\ OnlySeveredStreamsTrip' /\ TripsRecorded
  BY <1>2, QuietTrips
<1>5. version' \in DOMAIN loads /\ version <= version' /\ snap' = BuildRoutingSnapshot(loads[version'])
      /\ probes' \in Nat /\ faulty' \subseteq Providers /\ faulty \subseteq faulty'
  BY <1>1, <1>2 DEF Shared
<1> QED
  BY <1>2, <1>3, <1>4, <1>5, OtherStep

LEMMA PublishKeeps == ASSUME IInv, Publish PROVE IInv'
<1>1. Shared
  BY IInvParts DEF Parts
<1>2. /\ version < Len(loads) /\ version' = version + 1 /\ loads' = loads
      /\ snap' = BuildRoutingSnapshot(loads[version']) /\ now' = now
      /\ breakers' = breakers /\ rq' = rq /\ active' = active /\ probes' = probes
      /\ faulty' = faulty /\ severed' = severed /\ tripped' = tripped
  BY DEF Publish
<1>3. version' \in DOMAIN loads /\ version <= version'
  BY <1>1, <1>2 DEF Shared
<1>4. BreakersGood' /\ TrippedTyped' /\ OnlySeveredStreamsTrip' /\ TripsRecorded
  BY <1>2, QuietTrips
<1>5. now' \in 0 .. MaxTime /\ probes' \in Nat /\ faulty' \subseteq Providers /\ faulty \subseteq faulty'
  BY <1>1, <1>2 DEF Shared
<1> QED
  BY <1>2, <1>3, <1>4, <1>5, OtherStep

LEMMA HealthReportKeeps == ASSUME IInv, NEW p \in Providers, HealthReport(p) PROVE IInv'
<1>1. Shared
  BY IInvParts DEF Parts
<1>2. /\ probes > 0 /\ probes' = probes - 1 /\ loads' = loads /\ version' = version /\ snap' = snap
      /\ now' = now /\ rq' = rq /\ active' = active /\ severed' = severed
  BY DEF HealthReport, Catalog
<1>3. probes' \in Nat
  BY <1>1, <1>2 DEF Shared
<1>4. version' \in DOMAIN loads /\ version <= version' /\ snap' = BuildRoutingSnapshot(loads[version'])
      /\ now' \in 0 .. MaxTime
  BY <1>1, <1>2 DEF Shared
<1>5. CASE ReportSuccess(p) /\ UNCHANGED faulty
  <2>1. BreakersGood' /\ TrippedTyped' /\ OnlySeveredStreamsTrip' /\ TripsRecorded
    BY <1>2, <1>5, SuccessStep
  <2>2. faulty' \subseteq Providers /\ faulty \subseteq faulty'
    BY <1>1, <1>5 DEF Shared
  <2> QED
    BY <1>2, <1>3, <1>4, <2>1, <2>2, OtherStep
<1>6. CASE ReportFailure(p) /\ faulty' = faulty \cup {p}
  <2>1. BreakersGood' /\ TrippedTyped' /\ OnlySeveredStreamsTrip' /\ TripsRecorded
    BY <1>2, <1>6, FailureStep
  <2>2. faulty' \subseteq Providers /\ faulty \subseteq faulty'
    BY <1>1, <1>6 DEF Shared
  <2> QED
    BY <1>2, <1>3, <1>4, <2>1, <2>2, OtherStep
<1> QED
  BY <1>5, <1>6 DEF HealthReport

LEMMA StutterKeeps == ASSUME IInv, UNCHANGED vars PROVE IInv'
<1>1. Shared
  BY IInvParts DEF Parts
<1>2. /\ loads' = loads /\ version' = version /\ snap' = snap /\ now' = now
      /\ breakers' = breakers /\ rq' = rq /\ active' = active /\ probes' = probes
      /\ faulty' = faulty /\ severed' = severed /\ tripped' = tripped
  BY DEF vars
<1>3. BreakersGood' /\ TrippedTyped' /\ OnlySeveredStreamsTrip' /\ TripsRecorded
  BY <1>2, QuietTrips
<1>4. version' \in DOMAIN loads /\ version <= version' /\ snap' = BuildRoutingSnapshot(loads[version'])
      /\ now' \in 0 .. MaxTime /\ probes' \in Nat /\ faulty' \subseteq Providers /\ faulty \subseteq faulty'
  BY <1>1, <1>2 DEF Shared
<1> QED
  BY <1>2, <1>3, <1>4, OtherStep

LEMMA NewBreaker ==
    /\ GoodBreaker(NewCircuitBreaker(0, Threshold, Window, Cooldown))
    /\ NewCircuitBreaker(0, Threshold, Window, Cooldown).state = "Closed"
<1>1. NewCircuitBreaker(0, Threshold, Window, Cooldown) \in CircuitBreakerType
  BY ProxyConstants DEF NewCircuitBreaker, CircuitBreakerType, States
<1>2. IsFiniteSet({})
  BY FS_EmptySet
<1> QED
  BY <1>1, <1>2 DEF NewCircuitBreaker, GoodBreaker

LEMMA InitEstablishes == ASSUME Init PROVE IInv
<1>1. PICK s \in Scenarios :
         /\ loads = s.loads
         /\ probes = s.probes
         /\ rq = [r \in Requests |->
                 [kind |-> s.kinds[r], pc |-> "new", attempt |-> 1, since |-> 0,
                  cands |-> <<>>, asked |-> 0, kept |-> {}, checked |-> {}, serving |-> {},
                  provider |-> "none", model |-> "none", resp |-> "none", status |-> "none",
                  answer |-> "none", gone |-> FALSE, logs |-> <<>>]]
  BY DEF Init
<1>2. /\ version = 1 /\ snap = BuildRoutingSnapshot(loads[1]) /\ now = 0 /\ active = {}
      /\ faulty = {} /\ severed = {} /\ tripped = [r \in Requests |-> {}]
      /\ breakers = [p \in Providers |-> NewCircuitBreaker(0, Threshold, Window, Cooldown)]
  BY DEF Init
<1>3. s \in ScenarioType /\ s.loads # <<>>
  BY ProxyConstants
<1>4. loads \in Seq(Data) /\ loads # <<>> /\ probes \in Nat /\ s.kinds \in [Requests -> Kinds \cup {"absent"}]
  BY <1>1, <1>3 DEF ScenarioType, Data
<1>5. 1 \in DOMAIN loads
  BY <1>4
<1>6. BreakersGood /\ OnlySeveredStreamsTrip
  <2> DEFINE cb == NewCircuitBreaker(0, Threshold, Window, Cooldown)
  <2>1. GoodBreaker(cb) /\ cb.state = "Closed" /\ breakers = [p \in Providers |-> cb]
    BY <1>2, NewBreaker
  <2> HIDE DEF cb
  <2> QED
    BY <2>1 DEF BreakersGood, GoodBreaker, OnlySeveredStreamsTrip
<1>7. TrippedTyped
  BY <1>2 DEF TrippedTyped
<1>8. now \in 0 .. MaxTime
  BY <1>2, ProxyConstants
<1>9. Shared
  BY <1>2, <1>4, <1>5, <1>6, <1>7, <1>8 DEF Shared
<1>10. ASSUME NEW r \in Requests PROVE rq[r] \in RequestType /\ Local(r)
  <2> DEFINE n == [kind |-> s.kinds[r], pc |-> "new", attempt |-> 1, since |-> 0,
                   cands |-> <<>>, asked |-> 0, kept |-> {}, checked |-> {}, serving |-> {},
                   provider |-> "none", model |-> "none", resp |-> "none", status |-> "none",
                   answer |-> "none", gone |-> FALSE, logs |-> <<>>]
  <2>1. rq[r] = n
    BY <1>1
  <2>2. s.kinds[r] \in Kinds \cup {"absent"}
    BY <1>4
  <2>3. 1 \in 1 .. MaxProxyAttempts
    BY ProxyConstants
  <2>4. <<>> \in Seq(Statuses)
    OBVIOUS
  <2>5. n \in RequestType
    BY <2>2, <2>3, <2>4, NoCandidates, RequestFields
  <2>6. n.pc = "new" /\ n.asked = 0 /\ n.kept = {} /\ n.answer = "none" /\ n.resp = "none"
        /\ n.checked = {} /\ n.serving = {} /\ n.logs = <<>>
    OBVIOUS
  <2> HIDE DEF n
  <2>7. Place(r) /\ Blamed(r) /\ FromOneLoad(r) /\ AskedSoFar(r) /\ CheckedSoFar(r)
    BY <2>1, <2>6 DEF Place, Blamed, FromOneLoad, AskedSoFar, CheckedSoFar
  <2>8. SettledOne(r)
    <3>1. Len(rq[r].logs) = 0
      BY <2>1, <2>6
    <3> QED
      BY <1>2, <2>1, <2>6, <3>1 DEF SettledOne
  <2> QED
    BY <2>1, <2>5, <2>7, <2>8 DEF Local
<1>11. Typed
  BY <1>1, <1>10 DEF Typed
<1> QED
  BY <1>9, <1>10, <1>11, IInvParts DEF Parts

LEMMA StepKeeps == IInv /\ [Next]_vars => IInv'
<1> SUFFICES ASSUME IInv, [Next]_vars PROVE IInv'
  OBVIOUS
<1>1. CASE \E r \in Requests : Arrive(r) \/ HandlerStep(r)
  <2>1. PICK r \in Requests : Arrive(r) \/ HandlerStep(r)
    BY <1>1
  <2> QED
    BY <2>1, ArriveKeeps, ResolveAsAliasKeeps, ResolveAsModelKeeps, AskBreakerKeeps,
       CheckEndpointKeeps, RouteFailsKeeps, SendKeeps, CanceledKeeps, ProviderFailsKeeps, DeliverKeeps,
       BeginStreamKeeps, EndStreamKeeps DEF HandlerStep
<1>2. CASE \E r \in Requests : Respond(r) \/ StreamStops(r) \/ ClientLeaves(r)
  BY <1>2, RespondKeeps, StreamStopsKeeps, ClientLeavesKeeps
<1>3. CASE \E p \in Providers : HealthReport(p)
  BY <1>3, HealthReportKeeps
<1>4. CASE Publish
  BY <1>4, PublishKeeps
<1>5. CASE Tick
  BY <1>5, TickKeeps
<1>6. CASE UNCHANGED vars
  BY <1>6, StutterKeeps
<1> QED
  BY <1>1, <1>2, <1>3, <1>4, <1>5, <1>6 DEF Next

-----------------------------------------------------------------------------
(***************************************************************************)
(* The results.                                                            *)
(***************************************************************************)

\* The invariant behind all that follows holds of every behaviour of the
\* handlers, the health checker, the catalog's reloads and the clients.
THEOREM Invariance == Spec => []IInv
<1>1. Init => IInv
  BY InitEstablishes
<1>2. IInv /\ [Next]_vars => IInv'
  BY StepKeeps
<1> QED
  BY <1>1, <1>2, PTL DEF Spec

\* Every record of a handler keeps its type, attempts included: no path
\* through the three loops starts an attempt beyond maxProxyAttempts, and the
\* snapshot is always one that buildRoutingSnapshot made of the load in force.
THEOREM TypeCorrect == Spec => []TypeOK
<1>1. IInv => TypeOK
  BY DEF IInv
<1> QED
  BY <1>1, Invariance, PTL

\* Every request is logged exactly once, by what the client was told, and is
\* in the registry of active requests exactly while its handler runs
\* (proxyNonStreaming, handleStreamingRequest, HandleAudioTranscriptions).
THEOREM LoggedOnce == Spec => []Settled
<1>1. IInv => Settled
  BY DEF IInv
<1> QED
  BY <1>1, Invariance, PTL

\* A breaker leaves Closed only for a provider that has failed, or one with a
\* stream that could not be written on (isClientCanceled, ReportFailure).
THEOREM OnlyFailuresTrip == Spec => []OnlySeveredStreamsTrip
<1>1. IInv => OnlySeveredStreamsTrip
  BY DEF IInv
<1> QED
  BY <1>1, Invariance, PTL

-----------------------------------------------------------------------------
(***************************************************************************)
(* What a step may do.                                                     *)
(***************************************************************************)

\* A request's record is changed by its own handler, its provider or its
\* client only.
LEMMA OwnStep ==
    ASSUME Typed, [Next]_vars, NEW r \in Requests, rq'[r] # rq[r]
    PROVE  Arrive(r) \/ HandlerStep(r) \/ Respond(r) \/ StreamStops(r) \/ ClientLeaves(r)
<1> DEFINE Own(q) == Arrive(q) \/ HandlerStep(q) \/ Respond(q) \/ StreamStops(q) \/ ClientLeaves(q)
<1>1. ASSUME NEW q \in Requests, Own(q), q # r PROVE FALSE
  <2> USE DEF Typed
  <2>1. ASSUME NEW n, rq' = [rq EXCEPT ![q] = n] PROVE FALSE
    BY <1>1, <2>1
  <2>2. ASSUME NEW a, NEW l, Finish(q, a, l) PROVE FALSE
    BY <2>1, <2>2 DEF Finish
  <2>3. ASSUME NEW a, RetryOr(q, a) PROVE FALSE
    BY <2>1, <2>2, <2>3 DEF RetryOr, NextAttempt
  <2>4. CASE Arrive(q)
    BY <1>1, <2>4 DEF Arrive
  <2>5. CASE ResolveAsAlias(q)
    BY <1>1, <2>5 DEF ResolveAsAlias
  <2>6. CASE ResolveAsModel(q)
    BY <1>1, <2>6 DEF ResolveAsModel
  <2>7. CASE AskBreaker(q)
    BY <1>1, <2>7 DEF AskBreaker
  <2>8. CASE RouteFails(q)
    BY <2>3, <2>8 DEF RouteFails
  <2>9. CASE Send(q)
    BY <2>1, <2>3, <2>9 DEF Send
  <2>10. CASE Canceled(q)
    BY <2>2, <2>10 DEF Canceled
  <2>11. CASE ProviderFails(q)
    BY <2>3, <2>11 DEF ProviderFails
  <2>12. CASE Deliver(q)
    BY <2>2, <2>12 DEF Deliver
  <2>13. CASE BeginStream(q)
    BY <1>1, <2>13 DEF BeginStream
  <2>14. CASE EndStream(q)
    BY <2>2, <2>14 DEF EndStream
  <2>15. CASE Respond(q)
    BY <1>1, <2>15 DEF Respond
  <2>16. CASE StreamStops(q)
    BY <1>1, <2>16 DEF StreamStops
  <2>17. CASE ClientLeaves(q)
    BY <1>1, <2>17 DEF ClientLeaves
  <2>18. CASE CheckEndpoint(q)
    BY <1>1, <2>18 DEF CheckEndpoint
  <2> QED
    BY <1>1, <2>4, <2>5, <2>6, <2>7, <2>8, <2>9, <2>10, <2>11, <2>12, <2>13, <2>14, <2>15,
       <2>16, <2>17, <2>18 DEF HandlerStep
<1>2. ~ \E p \in Providers : HealthReport(p)
  BY DEF HealthReport
<1>3. ~Publish /\ ~Tick /\ ~UNCHANGED vars
  BY DEF Publish, Tick, vars
<1>4. \E q \in Requests : Own(q)
  BY <1>2, <1>3 DEF Next
<1> QED
  BY <1>1, <1>4

\* After a failed attempt the handler is routing again or done.
LEMMA RetryPlace ==
    ASSUME Typed, NEW r \in Requests, NEW a \in Statuses, RetryOr(r, a)
    PROVE  rq'[r].pc \in {"routing", "done"}
<1>1. CASE LastAttempt(r)
  BY <1>1, FinishFields DEF RetryOr
<1>2. CASE ~LastAttempt(r)
  BY <1>2, NextAttemptFields DEF RetryOr
<1> QED
  BY <1>1, <1>2

\* A request goes out when all its candidates have been asked and checked, to
\* one of those that Route may return.
LEMMA SentStep ==
    ASSUME IInv, [Next]_vars, NEW r \in Requests, rq[r].pc = "asking", rq'[r].pc = "sent"
    PROVE  /\ AllChecked(r) /\ UNCHANGED Catalog
           /\ \E c \in Eligible(r) : rq'[r].provider = c.provider.id /\ rq'[r].model = c.model
<1>1. Typed /\ rq[r] \in RequestType /\ rq'[r] # rq[r]
  BY IInvParts DEF Parts, Typed
<1>2. Arrive(r) \/ HandlerStep(r) \/ Respond(r) \/ StreamStops(r) \/ ClientLeaves(r)
  BY <1>1, OwnStep
<1>3. ~Arrive(r) /\ ~ResolveAsAlias(r) /\ ~ResolveAsModel(r) /\ ~Canceled(r) /\ ~ProviderFails(r)
      /\ ~Deliver(r) /\ ~BeginStream(r) /\ ~EndStream(r) /\ ~Respond(r) /\ ~StreamStops(r)
  BY DEF Arrive, ResolveAsAlias, ResolveAsModel, Canceled, ProviderFails, Deliver, BeginStream,
         EndStream, Respond, StreamStops
<1>4. ~AskBreaker(r)
  <2> SUFFICES ASSUME AskBreaker(r) PROVE FALSE
    OBVIOUS
  <2>1. PICK i, k : rq' = [rq EXCEPT ![r] = [rq[r] EXCEPT !.asked = i, !.kept = k]]
    BY DEF AskBreaker
  <2>2. rq'[r].pc = rq[r].pc
    BY <1>1, <2>1, RequestFields DEF Typed
  <2> QED
    BY <2>2
<1>5. ~CheckEndpoint(r)
  <2> SUFFICES ASSUME CheckEndpoint(r) PROVE FALSE
    OBVIOUS
  <2>1. PICK i : rq' = [rq EXCEPT ![r].checked = @ \cup {i},
                                 ![r].serving = IF HasEnabledEndpoint(snap, rq[r].cands[i].provider.id, EndpointPath)
                                                THEN @ \cup {i} ELSE @]
    BY DEF CheckEndpoint
  <2> DEFINE c == rq[r].checked \cup {i}
             s == IF HasEnabledEndpoint(snap, rq[r].cands[i].provider.id, EndpointPath)
                  THEN rq[r].serving \cup {i} ELSE rq[r].serving
             n == [rq[r] EXCEPT !.checked = c, !.serving = s]
  <2>2. rq' = [rq EXCEPT ![r] = n]
    BY <2>1
  <2> HIDE DEF c, s
  <2>3. n.pc = rq[r].pc
    BY <1>1, RequestFields
  <2> HIDE DEF n
  <2>4. rq'[r].pc = rq[r].pc
    BY <1>1, <2>2, <2>3 DEF Typed
  <2> QED
    BY <2>4
<1>6. ~ClientLeaves(r)
  <2> SUFFICES ASSUME ClientLeaves(r) PROVE FALSE
    OBVIOUS
  <2>1. rq' = [rq EXCEPT ![r] = [rq[r] EXCEPT !.gone = TRUE]]
    BY DEF ClientLeaves
  <2>2. rq'[r].pc = rq[r].pc
    BY <1>1, <2>1, RequestFields DEF Typed
  <2> QED
    BY <2>2
<1>7. "500" \in Statuses /\ "503" \in Statuses
  BY DEF Statuses
<1>8. ~RouteFails(r)
  BY <1>1, <1>7, RetryPlace DEF RouteFails
<1>9. Send(r)
  BY <1>2, <1>3, <1>4, <1>5, <1>6, <1>8 DEF HandlerStep
<1>10. PICK c \in Eligible(r) :
         IF c.provider.validURL
         THEN /\ rq' = [rq EXCEPT ![r] = [Routed(r) EXCEPT !.pc = "sent", !.provider = c.provider.id,
                                                           !.model = c.model]]
              /\ UNCHANGED active
         ELSE RetryOr(r, "500")
  BY <1>9 DEF Send
<1>11. c.provider.validURL
  BY <1>1, <1>7, <1>10, RetryPlace
<1>12. rq'[r].provider = c.provider.id /\ rq'[r].model = c.model
  <2> DEFINE f == Routed(r)
             n == [f EXCEPT !.pc = "sent", !.provider = c.provider.id, !.model = c.model]
  <2>1. f \in RequestType
    BY <1>1, RoutedFields
  <2>2. rq' = [rq EXCEPT ![r] = n]
    BY <1>10, <1>11
  <2> HIDE DEF f
  <2>3. n.provider = c.provider.id /\ n.model = c.model
    BY <2>1, RequestFields
  <2> HIDE DEF n
  <2> QED
    BY <1>1, <2>2, <2>3 DEF Typed
<1> QED
  BY <1>9, <1>10, <1>12 DEF Send, Env

\* Once the client has a status line it gets no other, and the request stays
\* with its provider, whatever the provider does in mid-stream
\* (handleStreamingRequest).
THEOREM NoFailover == Spec => NoFailoverOnceAnswered
<1>1. IInv /\ [Next]_vars => [\A r \in Requests : rq[r].answer # "none" =>
          rq'[r].answer = rq[r].answer /\ rq'[r].provider = rq[r].provider]_vars
  <2> SUFFICES ASSUME IInv, [Next]_vars, NEW r \in Requests, rq[r].answer # "none"
               PROVE  rq'[r].answer = rq[r].answer /\ rq'[r].provider = rq[r].provider
    OBVIOUS
  <2>1. Typed /\ rq[r] \in RequestType /\ Place(r)
    BY IInvParts DEF Parts, Typed, Local
  <2>2. rq[r].pc \in {"streaming", "done"} /\ (rq[r].pc = "streaming" => rq[r].answer = "200" /\ rq[r].status \in Statuses)
    BY <2>1 DEF Place
  <2> SUFFICES ASSUME rq'[r] # rq[r]
               PROVE  rq'[r].answer = rq[r].answer /\ rq'[r].provider = rq[r].provider
    OBVIOUS
  <2>3. Arrive(r) \/ HandlerStep(r) \/ Respond(r) \/ StreamStops(r) \/ ClientLeaves(r)
    BY <2>1, OwnStep
  <2>4. ~Arrive(r) /\ ~ResolveAsAlias(r) /\ ~ResolveAsModel(r) /\ ~Canceled(r) /\ ~ProviderFails(r)
        /\ ~Deliver(r) /\ ~BeginStream(r) /\ ~Respond(r) /\ ~AskBreaker(r) /\ ~CheckEndpoint(r)
        /\ ~RouteFails(r) /\ ~Send(r)
    BY <2>2 DEF Arrive, ResolveAsAlias, ResolveAsModel, Canceled, ProviderFails, Deliver,
                BeginStream, Respond, AskBreaker, CheckEndpoint, RouteFails, Send, AllChecked, AllAsked
  <2>5. CASE StreamStops(r)
    <3>1. PICK result : rq' = [rq EXCEPT ![r] = [rq[r] EXCEPT !.resp = result]]
      BY <2>5 DEF StreamStops
    <3> QED
      BY <2>1, <3>1, RequestFields DEF Typed
  <2>6. CASE ClientLeaves(r)
    <3>1. rq' = [rq EXCEPT ![r] = [rq[r] EXCEPT !.gone = TRUE]]
      BY <2>6 DEF ClientLeaves
    <3> QED
      BY <2>1, <3>1, RequestFields DEF Typed
  <2>7. CASE EndStream(r)
    <3>1. rq[r].answer = "200" /\ rq[r].status \in Statuses /\ "200" \in Statuses
      BY <2>2, <2>7 DEF EndStream, Statuses
    <3>2. \E log \in Statuses : Finish(r, "200", log)
      BY <2>7, <3>1 DEF EndStream
    <3> QED
      BY <2>1, <3>1, <3>2, FinishFields
  <2> QED
    BY <2>3, <2>4, <2>5, <2>6, <2>7 DEF HandlerStep
<1> QED
  BY <1>1, Invariance, PTL DEF Spec, NoFailoverOnceAnswered

\* A request that goes out to a provider whose breaker is open had passed that
\* breaker before it tripped (filterByCircuitBreaker, ReportFailure).
THEOREM OpenBreakersKeepAway == Spec => OpenKeepsAway
<1>1. IInv /\ [Next]_vars => [\A r \in Requests :
          /\ rq[r].pc = "asking"
          /\ rq'[r].pc = "sent"
          /\ breakers[rq'[r].provider].state = "Open"
          /\ \A c \in Serves(r) :
               c.provider.id = rq'[r].provider => c.provider.circuitBreakerEnabled
          => rq'[r].provider \in tripped[r]]_vars
  <2> SUFFICES ASSUME IInv, [Next]_vars, NEW r \in Requests,
                      rq[r].pc = "asking", rq'[r].pc = "sent",
                      breakers[rq'[r].provider].state = "Open",
                      \A c \in Serves(r) :
                        c.provider.id = rq'[r].provider => c.provider.circuitBreakerEnabled
               PROVE  rq'[r].provider \in tripped[r]
    OBVIOUS
  <2>1. AllChecked(r) /\ \E c \in Eligible(r) : rq'[r].provider = c.provider.id /\ rq'[r].model = c.model
    BY SentStep
  <2>2. PICK c \in Eligible(r) : rq'[r].provider = c.provider.id /\ rq'[r].model = c.model
    BY <2>1
  <2>3. PICK i \in rq[r].kept : c = rq[r].cands[i]
    BY <2>1, EligibleServes
  <2>4. c \in Serves(r)
    BY DEF Eligible, SelectWeightedPriority, TopGroup
  <2>5. c.provider.circuitBreakerEnabled
    BY <2>2, <2>4
  <2>6. AskedSoFar(r)
    BY IInvParts DEF Parts, Local
  <2> QED
    BY <2>2, <2>3, <2>5, <2>6 DEF AskedSoFar
<1> QED
  BY <1>1, Invariance, PTL DEF Spec, OpenKeepsAway

\* A request goes to a candidate only when every candidate of higher priority
\* was refused by its breaker or, in a load that was current during this call
\* of Route, did not serve the endpoint (Route, filterByEndpoint,
\* selectWeightedPriority).
THEOREM SparesNeedTrips == Spec => SpareNeedsTrip
<1>1. IInv /\ [Next]_vars => [\A r \in Requests : rq[r].pc = "asking" /\ rq'[r].pc = "sent" =>
          \E i \in rq[r].serving :
             /\ rq[r].cands[i].provider.id = rq'[r].provider
             /\ \A j \in DOMAIN rq[r].cands :
                  LET d == rq[r].cands[j]
                  IN  d.priority > rq[r].cands[i].priority =>
                        \/ d.provider.circuitBreakerEnabled /\ j \notin rq[r].kept
                        \/ \E v \in rq[r].since .. version :
                             ~ServesEndpoint(loads[v], d.provider.id)]_vars
  <2> SUFFICES ASSUME IInv, [Next]_vars, NEW r \in Requests,
                      rq[r].pc = "asking", rq'[r].pc = "sent"
               PROVE  \E i \in rq[r].serving :
                         /\ rq[r].cands[i].provider.id = rq'[r].provider
                         /\ \A j \in DOMAIN rq[r].cands :
                              LET d == rq[r].cands[j]
                              IN  d.priority > rq[r].cands[i].priority =>
                                    \/ d.provider.circuitBreakerEnabled /\ j \notin rq[r].kept
                                    \/ \E v \in rq[r].since .. version :
                                         ~ServesEndpoint(loads[v], d.provider.id)
    OBVIOUS
  <2>1. AllChecked(r) /\ \E c \in Eligible(r) : rq'[r].provider = c.provider.id /\ rq'[r].model = c.model
    BY SentStep
  <2>2. PICK c \in Eligible(r) : rq'[r].provider = c.provider.id /\ rq'[r].model = c.model
    BY <2>1
  <2>3. PICK i \in rq[r].serving : /\ i \in DOMAIN rq[r].cands /\ c = rq[r].cands[i]
                                   /\ \A d \in Serves(r) : d.priority <= c.priority
    BY <2>1, EligibleServes
  <2>4. Shared /\ Typed /\ AskedSoFar(r) /\ CheckedSoFar(r)
    BY IInvParts DEF Parts, Local
  <2>5. rq[r].cands \in Seq(Candidates(LoadedProviders))
    BY <2>4, RequestFields DEF Typed, CandidateLists
  <2>6. ASSUME NEW j \in DOMAIN rq[r].cands, rq[r].cands[j].priority > rq[r].cands[i].priority
        PROVE  \/ rq[r].cands[j].provider.circuitBreakerEnabled /\ j \notin rq[r].kept
               \/ \E v \in rq[r].since .. version : ~ServesEndpoint(loads[v], rq[r].cands[j].provider.id)
    <3>1. rq[r].cands[j].priority \in Int /\ rq[r].cands[i].priority \in Int
      BY <2>3, <2>4, CandidateRow
    <3>2. j \notin rq[r].serving
      <4>1. j \in rq[r].serving => rq[r].cands[j] \in Serves(r)
        BY DEF Serves
      <4> QED
        BY <2>3, <2>6, <3>1, <4>1
    <3>3. CASE j \in rq[r].kept
      <4>1. j \in rq[r].checked
        BY <2>1, <3>3 DEF AllChecked
      <4> QED
        BY <2>4, <3>2, <4>1 DEF CheckedSoFar
    <3>4. CASE j \notin rq[r].kept
      <4>1. j \in 1 .. rq[r].asked
        BY <2>1, <2>5 DEF AllChecked, AllAsked
      <4> QED
        BY <2>4, <3>4, <4>1 DEF AskedSoFar
    <3> QED
      BY <3>3, <3>4
  <2> QED
    BY <2>2, <2>3, <2>6
<1> QED
  BY <1>1, Invariance, PTL DEF Spec, SpareNeedsTrip

\* A request goes only to a provider and a model that some load current during
\* its call of Route says it may use, and whose endpoint some such load has
\* enabled (buildRoutingSnapshot, resolveCandidates, filterByEndpoint).
THEOREM SentWhereTablesSay == Spec => SentWhereRoutable
<1>1. IInv /\ [Next]_vars => [\A r \in Requests : rq[r].pc = "asking" /\ rq'[r].pc = "sent" =>
          /\ \E v \in rq[r].since .. version : \E p \in loads[v].providers :
               p.id = rq'[r].provider /\ SentBy(loads[v], p, rq'[r].model)
          /\ \E v \in rq[r].since .. version : ServesEndpoint(loads[v], rq'[r].provider)]_vars
  <2> SUFFICES ASSUME IInv, [Next]_vars, NEW r \in Requests,
                      rq[r].pc = "asking", rq'[r].pc = "sent"
               PROVE  /\ \E v \in rq[r].since .. version : \E p \in loads[v].providers :
                           p.id = rq'[r].provider /\ SentBy(loads[v], p, rq'[r].model)
                      /\ \E v \in rq[r].since .. version : ServesEndpoint(loads[v], rq'[r].provider)
    OBVIOUS
  <2>1. AllChecked(r) /\ \E c \in Eligible(r) : rq'[r].provider = c.provider.id /\ rq'[r].model = c.model
    BY SentStep
  <2>2. PICK c \in Eligible(r) : rq'[r].provider = c.provider.id /\ rq'[r].model = c.model
    BY <2>1
  <2>3. PICK i \in rq[r].serving :
           /\ i \in DOMAIN rq[r].cands /\ c = rq[r].cands[i]
           /\ \E v \in rq[r].since .. version : ServesEndpoint(loads[v], c.provider.id)
    BY <2>1, EligibleServes
  <2>4. FromOneLoad(r)
    BY IInvParts DEF Parts, Local
  <2>5. PICK v \in rq[r].since .. version : \A k \in DOMAIN rq[r].cands :
            /\ rq[r].cands[k].provider \in loads[v].providers
            /\ SentBy(loads[v], rq[r].cands[k].provider, rq[r].cands[k].model)
    BY <2>4 DEF FromOneLoad
  <2>6. c.provider \in loads[v].providers /\ SentBy(loads[v], c.provider, c.model)
    BY <2>3, <2>5
  <2> QED
    BY <2>2, <2>3, <2>6
<1> QED
  BY <1>1, Invariance, PTL DEF Spec, SentWhereRoutable
=============================================================================
