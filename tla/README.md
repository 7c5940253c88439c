# LLMate gateway: a TLA+ model

LLMate is a gateway between clients that speak the OpenAI API and a set of LLM
providers.  It routes each request to a provider that has the model, fails over
to another attempt when that goes wrong, cuts off providers that keep failing,
logs every request in SQLite and is administered over HTTP.  This directory
holds a model of its concurrent core and of its start: TLA+ modules, TLC configurations, and
TLAPS proofs.  `PROJECT.json` lists the parts of the system, the runs, the
lines of code that each definition models, the hazards and the theorems.

    tlc -workers 2 -config MCProxy.cfg MCProxy      # a run
    tlapm CollectorProofs.tla                       # the proofs of a module

## 1. The system

| Part | Code | State | Operations | What makes it correct |
|---|---|---|---|---|
| Circuit breaker | `internal/proxy/circuit.go` | state, two lists of outcomes, last change, settings | Configure, Allow, RecordSuccess, RecordFailure | trips on evidence only; keeps a provider out for the cooldown, not less and not more; forgets an outage after recovery |
| Router | `internal/proxy/router.go` | map of breakers | Route (candidates, breaker filter, endpoint filter, weighted choice by priority), two reports | sends a request only where the tables route it and the breaker lets it |
| Routing catalog | `internal/proxy/catalog.go`, `db/sqlite_routing.go` | published snapshot, channel of one token | ReloadAsync, worker, Reload with buildRoutingSnapshot, lookups | no change lost, never back to older data, catches up; answers as the queries it replaces |
| Proxy handlers | `internal/proxy/handler.go`, `streaming.go` | per request: attempt, route, response | three loops of at most three attempts | one answer, one log record, no failover after the first byte, the right party blamed |
| Active registry | `internal/proxy/active.go` | in-flight requests | Begin, End | a request is in it exactly while it runs |
| Health checker | `internal/health/checker.go` | ticker, one goroutine per provider | checkAll, checkProvider, updateHealth | its reports and writes may come at any time |
| Admin handlers, onboarding | `internal/admin/handler.go`, `onboard.go`, `db/sqlite_*.go` | the routing tables | create, update, delete; confirm | every committed change is announced |
| Metrics collector | `internal/metrics/collector.go` | channel of 1024 jobs | Record, RecordStreaming, worker, Close | accepted jobs are written once, in order, log row before chunks |
| Shutdown | `cmd/gateway/main.go` | context of the signal | Shutdown (30 s), Collector.Close, Store.Close | ends; closes the store last; loses nothing |
| API keys and limits | `internal/proxy/auth.go`, `db/sqlite_api_key.go` | counters per key and window | Allow, key CRUD | limits hold, names are unique |
| Configuration | `internal/proxy/config_cache.go`, `admin/config_handler.go`, `db/sqlite_config.go` | the table, the published copy, the idle timeout of the outbound client | Reload, Get, save | copy and transport follow the table |
| Query worker | `internal/admin/query_worker.go` | queue of 32 | Run, Start | every caller returns |
| Statistics | `internal/stats/accumulator.go` | hourly buckets | Record, Backfill, DashboardStats, TimeSeries | every row counted, none much more than once; the views agree |
| Log retention | `internal/logretention` | a daily ticker | purge, daily and on each save | only bodies past a retention in force go, and all of them do |
| Start, store, migrations | `cmd/gateway/main.go`, `internal/db` | the database | legacy copy, schema migrations, first load | a start that was cut off can be repeated; nothing lost |
| Pricing, HTTP client, middleware, environment, frontend | `internal/{pricing,httpx,middleware,auth,config,models}`, `frontend` | little or none | | |

How they interact.  Every HTTP request runs in a goroutine of its own.  Proxy
handlers call the router, which reads the catalog's snapshot (an atomic pointer)
and takes a mutex per breaker; they hand their log record to the collector by a
send that never blocks.  Admin handlers and the health checker write the
database and then put a token into the catalog's channel.  The health checker
reports to the same breakers as the handlers.  A save of settings writes the
table key by key, then reloads the proxy's copy, replaces the outbound transport
and purges log bodies, all in its own goroutine.  The collector records each row
it inserts in the statistics, which a backfill at the start fills from the same
table.  On SIGTERM one context stops the workers at once, while `srv.Shutdown`
still waits for handlers.

What is hard: reports that arrive when the breaker has moved on; the gap between
asking a breaker and sending; three hand-written retry loops; clients that
leave at any moment; coalesced reload tokens and four unsynchronised queries;
handlers that give up between a commit and its announcement; a worker that stops
before those who feed it; a router that loads the snapshot several times for one
request; a start that can be cut off between any two statements; saves that
overlap; paging by offset through a table that grows.  The `hazards` in `PROJECT.json` give each its line.

## 2. Modules

| Module | Models | |
|---|---|---|
| `Breaker` | `circuit.go`, as operators on a record | used by the next and by `Proxy` |
| `CircuitBreaker` | one breaker under any sequence of calls | state machine, properties |
| `RoutingSnapshot` | `buildRoutingSnapshot` and the lookups, as operators on tables; the store's queries they replace | used by the next |
| `Router` | the pure part of `Route` | used by `Proxy` |
| `Proxy` | requests, attempts, shared breakers, a changing snapshot, clients, providers, health reports, active registry | composes `Breaker`, `RoutingSnapshot` and `Router` |
| `ProxyProofs` | | theorems |
| `EventualCopy` | what a cache promises | abstract specification |
| `RoutingCatalog` | admin handlers and probes as writers, the reload worker | implements `EventualCopy` |
| `RoutingProofs` | | theorems about `CircuitBreaker` and `RoutingCatalog` |
| `Collector` | log records, the worker, the shutdown of the process | state machine, properties |
| `CollectorProofs` | | theorems |
| `ApiKeys` | the admin handlers of API keys, statement by statement | state machine, properties |
| `KeyLimiter` | the check of a presented key and its limits | state machine, properties |
| `KeyProofs` | | theorems about `ApiKeys` and `KeyLimiter` |
| `Startup` | the process up to its first request: legacy copy, migrations, first load; crashes and restarts | state machine, properties |
| `StartupProofs` | | theorems |
| `Configuration` | settings, their copy, the idle timeout, the retention worker | state machine, properties |
| `ConfigurationProofs` | | theorems |
| `Statistics` | the accumulator, its backfill and its readers | state machine, properties |
| `StatisticsProofs` | | theorems |
| `Sums` | sums over finite sets | lemmas, for `KeyProofs` and `StatisticsProofs` |
| `MC*` | instances for TLC | |

The specifications of `CircuitBreaker` and `ApiKeys` are named `BreakerSpec` and
`AdminSpec` (with `BreakerInit`, `AdminNext` and so on), because each shares a module of
proofs with another one.

### Breaker, CircuitBreaker

A breaker is a record with the fields of the Go struct.  Its lists of times are
sets of outcomes `[id, at]`, because only their lengths and times are used; `id`
keeps two outcomes of one instant apart.  Time is a counter, the threshold a
percentage: the code compares `float64(failures)/float64(total)` with it, the model
`100 * f > threshold * (f + s)`, the same order without the rounding.  Each method is
one step, as the mutex makes it.  The history variables (`failed`, `succeeded`,
`serial`, `narrowest`, `trippedAt`, `recoveredAt`) exist for the properties.
`Configure` ignores values out of range as the code does, hence the zeros among the
arguments that the run gives it; the theorems allow any integers.

### RoutingSnapshot, Router, Proxy

`RoutingSnapshot` takes the four tables as `LoadRoutingData` returns them, keeping
of each row what routing uses; aliases and models are sequences because their
order is the order of the candidates; `Selected` is the loop that appends the usable
rows, as a recursive function.  `ResolveAlias` and
`GetHealthyProvidersForModel` are the store's own queries, which the snapshot
replaced: the property `SentWhereRoutable` holds the one against the other.
The random choice by weight is any candidate of the highest priority with
positive weight; when the highest priority has no weight at all, `Route` fails.
A handler's step lies between two points where others may come in: a lookup of
the name as an alias and, if that finds nothing, of the model in whatever
snapshot is published by then (`ResolveAsAlias`, `ResolveAsModel`), one breaker
asked (`AskBreaker`), one endpoint looked up (`CheckEndpoint`), the choice and the
sending (`Send`, `RouteFails`), the return of `client.Do` with its body (`Respond`), the reaction to it
(`Canceled`, `ProviderFails`, `Deliver`, `BeginStream`), the end of a stream
(`StreamStops`, `EndStream`).  The three loops, `proxyNonStreaming`,
`handleStreamingRequest` and `HandleAudioTranscriptions`, have the same control
flow up to the response; where they differ (tracking, what a last 5xx becomes,
streaming) the request's `kind` decides.  The map names lines of one loop for
each action.

`Publish` replaces the snapshot by the next of a sequence of loads, at any time;
how a load comes about is the matter of `RoutingCatalog`.

Merged steps: in the code, `Configure` and the call after it are two critical
sections of one mutex; as the breaker settings are the same in all loads,
Configure sets what is already set.  `filterByEndpoint` loads the snapshot anew for
each candidate, so that a reload can come between two of them, or between the last
one and the choice: each lookup is a step of its own against the snapshot of that
moment, and what it found (`checked`, `serving`) is kept until the request goes out.
From there to the sending a handler reads nothing shared.  `normalizeEndpointPath`
changes nothing, since all callers pass constants with a leading slash.  The record handed to the collector, the answer
written and the deferred `End` are one step, as nothing reads between them.
`since`, `faulty`, `severed` and `tripped` are history; `tripped` has, for each request,
the providers whose breaker tripped since it last let that request pass.  Requests answered with 400 before the loop
touch no state and are not in the model, nor are the branches the code cannot
reach (`resp == nil` after the streaming loop, a body that stops being JSON
between two parses) or panics.

### EventualCopy, RoutingCatalog

A table is its version, the number of committed changes; a snapshot the versions
it was read from.  A handler is the sequence of transactions it commits, each
the set of the tables it changes (`CreateProvider`, `UpsertProviderEndpoints`,
... as in the store), and then its notification; it may give up
wherever the code returns early on a database error, which includes a client that
left (`GiveUp`), after the last write too if it queries again for its response
(`ReadBack`).  Whether a commit changes anything is open, except for inserts and
deletes.  Probes only log the error of a write, and notify in any case.
The worker reads the four tables one by one.  `missed` is history: a change was
committed and its announcement given up, or a reload failed, since the last
reload began.

`EventualCopy` says: items of the source only go forward; a refresh may mix
versions, but takes none that the source did not have and none older than the
copy's.

### Collector

A job is the request it logs, with the number of its chunks.  `persist` is one
step per row, so that a kill can come between two of them; the statistics are
updated with the log row.  Either select of the worker is open when the channel
has a job and the context is done, as Go's is.  `main` is its own process:
serving, `srv.Shutdown`, `close(m.ch)`, `<-m.done`, `store.Close` and exit.

### Startup

A database is a record: its tables, per table the up files whose columns it has
and the number of rows of the legacy file in it, the up files whose indexes it has,
and the recorded migrations.  A
step is a statement or a transaction: `CopyCreate`, `CopyRow`, `CopyIndex`,
`EnsureTracking`, `Migrate` (an up file and its record commit together), `LoadCatalog`.  The up files
are given as what they create, alter and touch (`UpFiles` in `MCStartup`, one entry per file);
`ALTER TABLE ADD COLUMN` fails if the column is there, `CREATE TABLE IF NOT EXISTS`
leaves what it finds.  The copy takes the tables by name: the next one is the first
of the legacy file that the target does not have yet.  With foreign keys on, SQLite refuses to prepare an INSERT
whose parent table does not exist (`Insertable`); whether a remote target checks
them is open (`Enforcing`).  Every error ends the process with `os.Exit(1)`; the
next `Boot` finds the database as it is.  The copy makes the indexes of the legacy file
after the last row; a start that ends between them leaves a target without them, as
the next one takes it for migrated.  `broken` is history: a copy was
begun and not finished, its indexes included, which no later start repairs; the properties say that
all is well otherwise, and the run `startup_legacy` shows what this exception costs.

### Configuration

A save is the sequence of `HandleUpdateConfig`: validation of all keys
(`Begin`), one `SetConfig` per key in any order, `GetAllConfig` and the store of the
pointer as two steps (`ReloadRead`, `ReloadPublish`), `ApplyIdle`, one purge per
retention setting, the answer.  Any statement may fail, with what the code then
does: a failing write ends the save, a failing reload or purge is only warned of.
Values are those that validation lets through, with one that it refuses; a key
that is absent is read as its default.  Days pass only between saves and passes
of the worker, which are bounded by minutes.  `cause` and `force` are history.

### Statistics

Buckets have the fields the readers add up; averages are sums, and tokens and
costs, which add up like latencies, are left out.  `Recorded` is one critical
section.  A page of the backfill is a query of its own: `ORDER BY timestamp DESC LIMIT
OFFSET` is the set of the rows of the window whose place in the order, the number of rows
newer than it (`Newer`), is between the offset and the end of the page.  Its rows are
recorded one by one, newest first, and the collector inserts and records between any
of these steps; a request that took long is inserted behind younger ones, since rows
are ordered by the time the request was made.  The readers, `DashboardStats` and
`TimeSeries`, are called by the tests only: the dashboard that users see is answered
from SQLite (`admin/stats.go:83,120`, `admin/handler.go:31-32`).  What `ViewsAgree` says
is therefore about the accumulator's contract, not about what is displayed today.

### ApiKeys, KeyLimiter

`ApiKeys` has one step per statement to the database: the list that
`apiKeyNameTaken` searches, the row that an update reads, the write; a request may
fail at each.  Names are compared as the code does, so a name stands for all its
spellings.  `since`, `stale` and `blind` are history: which writes of others came
between a request's statements.  `KeyLimiter` takes one key, since entries of
different keys do not touch, and keeps of its row what `RequireAPIKey` uses: whether
it is valid, and the two limits, 0 for nil.  Looking the key up and asking the
limiter are two steps, and the row may change between them.  The counters are those
of `keyLimiterEntry`; when the limiter was asked stays in the call's state, for the
properties.

## 3. Runs

| Run | Question | Bounds | States |
|---|---|---|---|
| `circuit_breaker` | does one breaker behave under every order of calls? | 4 reports, 5 ticks, thresholds of 50 % (default) and 30 %, windows and cooldowns of 1, 2 (default) and 3 ticks, and the 0 that Configure ignores; so outcomes expire and a breaker can trip twice | 755 k |
| `routing_catalog` | is a change ever lost, or a table put back, and does the catalog catch up? | a handler of each shape next to one that deletes a provider, 1 probe that never ends, 1 failing reload | 1.2 M |
| `proxy` | attempts, answers, breakers and routes | 2 providers, 3 attempts; a plain request next to a stream; one request of each kind over 5 kinds of tables with a health report; one request with an alias to two models of one provider; one request whose tables change twice | 609 k |
| `collector` | records through overflow, errors and shutdown | 4 requests (with 0, 1 and 2 chunks), channel of 2, 2 write errors | 72 k |
| `api_keys` | what do the unsynchronised statements of key administration guarantee? | 4 requests, 3 keys, 2 names | 62 k |
| `key_limits` | how many requests and tokens do fixed windows let through, and do they reject without cause? | 3 calls of 2 or 3 tokens, limits of 1 or 2 requests and of 2 tokens, each set, changed or removed at any time, windows of 2 ticks, 4 ticks | 2.1 M |
| `startup` | does every start lead to a whole schema with all data, whatever came before? | all 9 tables and all 17 up files; targets of every version; legacy files of 4 versions with and without rows that refer to others; all with the indexes of their version; 1 crash, 1 failing statement | 169 k |
| `configuration` | do copy, transport and retention follow the table? | 2 saves of up to 2 keys, 1 log row, retentions of 1 and 2 days, 1 failure, 1 restart | 731 k |
| `statistics` | what does a backfill miss or count twice while rows arrive, and do the views agree? | 3 rows before the start and 3 after, pages of 2, hours of 2 ticks, days of 2 hours, a retention that ends inside an hour, 1 failure | 9 k |

The handlers that `routing_catalog` leaves out differ from the included ones only in
which table they write.  In `startup` the schema is not a small instance but the whole.
Three rows and pages of two make a full page, a short one and, after an insert, a
row that moves from the first to the second.
Two requests suffice for one to trip the breaker between the other's question and
its sending; a second provider for a choice; three attempts because the code has
three; two changes of the tables for one call of `Route` to meet three
snapshots, and for an endpoint to be switched on or off between the lookups for two
candidates.  Two limits of requests are needed for a burst at the seam of two windows
and for a limit that is raised after rejections.  A channel of 2 with four requests overflows and also holds
jobs at the close.  Three calls open a window, fill it and open
the next one.  One failing reload and one change of health are enough to
lose an announcement and to need another.  Symmetry is used only in runs without
liveness, over requests, calls, ids and
names, which no definition tells apart.
`CHECK_DEADLOCK FALSE` stands where the system stops of itself: all requests
done, all admin requests done, the clock at its bound, process ended.

Three runs are expected to fail: the property is a sentence of the
repository, and the counterexample is what the code does.

| Run | The repository says | The code |
|---|---|---|
| `proxy_disconnect` | `handler.go:26`: cancellations "must not trip the provider circuit breaker" | a client that leaves a stream is noticed by the read (`context.Canceled`, not reported) or by the write (reported as a failure) |
| `collector_shutdown` | `Context.md:12`: "every proxied request is logged" | the worker is gone before the last handlers record |
| `startup_legacy` | `migrate.go:12`: a legacy file "is migrated so no data is lost" | tables are copied by name with foreign keys on, so the rows of `provider_models` come before the table `providers`; the INSERT is refused, and later starts take the target for migrated |

More observations need no run.  `Context.md:194` promises "failover to next
candidate", but the next attempt asks the router again, which prefers the same
provider until its breaker trips; what is left of the promise is
`SpareNeedsTrip`: a spare is used when each candidate that is preferred to it was
refused by its breaker, or did not serve the endpoint in some snapshot of this call
of `Route`.
A request may be sent to an endpoint that was disabled after it was looked up, and
past a preferred one that was enabled after it was looked up; `SentWhereRoutable`
says that it goes no further astray than that.  A name that is an alias in one snapshot and a model in the
other can be found in neither, when the reload falls between the two lookups, and
the request is answered 503 though both snapshots route it (`router.go:106,113`).
Two overlapping saves can leave the proxy's copy or the idle timeout behind the
table until the next save (`config_cache.go:22`); `StaleForACause` and
`IdleFollowsStore` say that only this, and a failure, does.  After a start, rows
that arrive during the backfill may be counted twice for as long as their buckets
live (`SurplusBounded`).  `handler.go:569` says "4xx: no circuit
reporting" of the non-streaming loop, and the streaming one reports a 4xx as a
success, which dilutes the failure rate.  Two overlapping requests can both find
the name of an API key free and both insert it (`handler.go:241`); that this is
the only way to a duplicate is what `DuplicatesNeedOverlap` says.

Fairness.  A goroutine that can run does (weak fairness of handlers,
workers and main).  `EventuallyProbed` assumes that time passes and that
requests for the provider keep coming.  `EveryRequestEnds` assumes that a
provider answers, or its connection breaks, or the client leaves: the outbound
client of production has no timeout, so nothing in the gateway itself ends such a
wait.  `SignalEndsProcess` assumes nothing of handlers; inserts are bounded
by their 5 s and `srv.Shutdown` by its 30 s.  `EventuallyFresh` assumes that the
ticker of the health checker goes on; it does not assume that failing reloads
stop for other reasons than their bound.  `EventuallyServes` assumes that whoever
supervises the process starts it again after it exited; it has to hold through
the crash and the error that the bounds allow, at any point.  `EventuallyCleared`
assumes that days go by and that the worker gets its turn; a failed pass is made up
for by the next day's.  `BackfillEnds` assumes only that its goroutine runs: each
page moves the offset on, and rows arrive finitely often in the model as they do
in the five minutes that bound it in the code.

What the properties leave out.  Some say that a thing goes wrong only in one
known way, and so delimit a hazard rather than exclude it: the code is exposed to
it, and the property would notice a second way.

| Property | Excepts | The way that is left |
|---|---|---|
| `NothingLost`, `SchemaWhole`, `EventuallyServes` | `broken` | a first boot whose copy was cut off is never made good (`sqlite.go`, `migrate.go`); `startup_legacy` shows the worst of it |
| `StaleForACause` | `cause` | overlapping saves that publish out of order, a reload or a write that failed |
| `IdleFollowsStore` | `cause` | the same for the transport; once a cause is noted, nothing is said until a restart |
| `RevocationHolds` | `stale` | an update whose read came before a deactivation writes the key back as active; a deleted key never returns |
| `DuplicatesNeedOverlap` | overlap | two requests between the check of a name and its insert |
| `OnlySeveredStreamsTrip` | `severed` | a stream whose client is found gone by the write; `proxy_disconnect` shows it |
| `EveryRequestEnds` | by its fairness | a provider that accepts a request and never answers, while the client waits |

Each property is also run against a plausible slip in the code it is
about (the definitions marked as wrong on purpose), which it must notice.

## 4. Proofs

All theorems hold for every value of the constants under the named
assumptions: `BreakerConstants` (default settings in range; any integers given to
Configure), `CatalogConstants` and `AdminOpsAreHandlers` (requests and probes are
different; any set of the handlers for each request), `CollectorConstants` (a channel of at least
one place; any number of chunks), `ApiKeysAssumption` (the word for no id and no name is
neither), `LimiterConstants` (finitely many calls; limits of tokens have a largest one; a window
of at least one tick), `StatisticsAssumption` (finitely many logs and names; requests made at
different times; hours, days and pages that are not empty; the rows in the table at the
start are not from the future), `StartupAssumption` (every table but that of migrations is
created by exactly one up file) and `LeftBehind` (what earlier versions left: a table has
the columns of the file that created it, what is recorded was applied, and a legacy file
records a prefix of the up files), `ConfigurationAssumption` (defaults and stored values
are settings that validation lets through; retentions of at least one day) and
`ProxyConstants` (at least one attempt; the breaker's settings in range; each
behaviour has at least one load of well-formed tables).

*CircuitBreaker.*  `BreakerInv` adds to the types what ties the breaker to the history:
the failures it keeps were reported (`cb.failures \subseteq failed`), the
successes within the narrowest window ever configured are still kept, an open
breaker's last change is the moment it tripped, and `CleanSlate`.  From it follow
`CleanSlateHolds`, `CooldownNotStretched`, `CooldownHolds`, and, with finiteness of
the histories and monotonicity of the rate (`RateMonotone`),
`TripsAreJustified`.  The narrowest window is needed because a wider window
configured later cannot bring pruned successes back.

*RoutingCatalog.*  `QuiescentFresh` is not inductive: while the worker reads,
what matters is that each table *already read* is as the store has it, or a
change is announced (`UpToDate`).  That is why a dropped token is harmless:
a token in the channel was not received yet, and whoever receives it reads
afterwards.  `NotAhead` orders snapshot, loaded and stored versions.
`Refinement` proves that every step is a step of `EventualCopy` or a stutter.

*Collector.*  `IInv` has conservation of the jobs as an equation between
sequences, that an exited worker has no job in hand, and the order of
shutdown (`ShutdownOrder`: channel closed only when waiting, handlers
returned unless the timeout struck, worker gone before the exit).
`RowsInOrder` needs more, that a request is in one place only: not yet recorded
(`NotYetEnqueued`), in one slot of the channel (`QueuedOnce`), or in hand with exactly
its first rows written (`JobHalfWritten`).

*Startup.*  `NothingLost` says nothing while the copy runs, so `IInv` does:
a table that is there has its legacy columns and rows, except for the rows of the one
being filled (`CopyInv`).  Outside a copy the database is consistent and has all of the
legacy rows or, before the first boot got anywhere, none (`Settled`), unless a copy was
broken off.  `RecordInv` ties the records to what was applied; it is the reason why a
crash between two up files costs nothing, and with `Settled` gives `ServesWholeSchema`.

*ApiKeys.*  `DuplicatesNeedOverlap` becomes inductive (`AdminInv`) with what a handler past its
check knows: every other key with its name was named since (`NameChecked`).
`RevokedStaysRevoked` needs that a handler that has read its row still has it, unless
others wrote or deleted it (`RowKnown`), and that ids are not used twice.

*KeyLimiter.*  `RequestsBounded` is about every span of time, the limiter keeps only one
window.  `IInv` has what the current window admitted (at most its count and the limit
of one of the admitted calls, one less after its first moment: `CurrentWindow`), and
that any span which
reaches into it from before had fewer than such a limit (`OlderWindow`), because the call
that opened the older window lies outside.  A span has at most the sum of the two,
and so fewer than twice the larger of the two limits.
`RejectionsAreDeserved` needs that the count is of calls in the window
(`CountHonest`) and that the call which opened it was itself within the limit
(`Opened`): a rejected call never opens a window, so rejections do not feed on
one another.
The limit of tokens has the same argument with sums in the place of numbers of calls
(`TokenInv`): the entry holds exactly the tokens of the calls charged in its window
(`TokensHonest`), an admitted call left it within its limit, so what one window
admits stays within the largest one, and a span meets at most two windows.

*Statistics.*  The invariant has a part for each question.  `AllCounted` and `CountedOnce`
are about the rows that have certainly been recorded (`Certain`): those the collector
is done with, and those of the window that the backfill has passed, by their places in the
order of the query (`Pending`).  An insert moves a row only to a later place
(`NewerGrows`), and a page that leaves a row of the window behind is full
(`PageFull`), so that neither a short page nor an empty one ends the backfill too early: this is
`NoRowMissed`.  The other way round, `CountedOnce` needs the table to be left alone, for
then the pages do not overlap.  `SurplusIsBounded` is not about single rows: what the
backfill has counted is bounded by the room of the pages read so far, and the rows of the pages by the
table (`PagesBound`, `PageFits`).  `ViewsAgree` needs that the breakdowns of each bucket add
up to its own numbers (`AllBalanced`), which recording and pruning keep; for the dashboard
the sums over buckets and over names are then exchanged (`SumSwap`), for days the hours
are taken day by day (`SumParts`, with the arithmetic of whole days in `DayStarts`), and
the rows of a window are counted hour by hour (`RowsOfHours`).

*Sums.*  `MapThenSumSet` is a recursive function on the subsets of a set.  `SumRemove` says
that the order in which elements are taken does not matter; from it follow the bounds of
parts and unions (`SumPart`, `SumHalves`), monotonicity (`SumMono`), a sum over the parts of a set
(`SumParts`), cardinality as a sum of ones (`SumOnes`) and the exchange of two sums
(`SumSwap`).

*Configuration.*  `StaleForACause` speaks of moments without a save, `CopyInv` of all:
a copy of the current version is the table, and if it is older, and neither a
failure nor an overlap is the cause, some save has yet to read or to publish.
`IdleInv` says the same of the transport: without a cause at most one save has written
the idle timeout and not applied it, and it has the stored value.  For
`ClearedInTime`, `ForceInv` says that whoever is about to purge, a save or the worker,
has its number of days from a time at which every row of at least a day was there;
that no save and no pass spans a day is what makes it inductive.

*Proxy.*  `IInv` says of each request what its handler holds at each place (`Place`: a
response is pending only between `client.Do` and the reaction to it, nothing is
answered before), that a failure is on record before it is reported (`Blamed`), that the
candidates are those of one load that was current since this call of `Route` began
(`FromOneLoad`), and of the candidates asked so far that those left out were refused by an
enabled breaker and that the breaker of one let through is open only if it
tripped since (`AskedSoFar`), and of each endpoint looked up so far that what was found
is so in a load that was current during this call (`CheckedSoFar`).  `FromOneLoad` is where the snapshot meets the store:
every candidate that `buildRoutingSnapshot` lists is one that the queries it
replaced would return (`AliasSent`, `DirectSent`), for any tables.  The attempt to prove
`AskedSoFar` showed that `tripped` was too small for an alias to two models of one
provider, whose breaker is asked twice in one call of `Route`; the table with such an
alias is in the run since.

What a recursive function computes (`Selected`, sums) is proved by way of a smallest
counterexample (`LeastNatural`, `LeastSet`), since the induction theorems of the library,
which have an operator as a parameter, are of no use to the provers.

Types are part of each of these invariants.

Only model-checked: liveness (`EventuallyProbed`, `EventuallyFresh`,
`EveryRequestEnds`, `SignalEndsProcess`, `EventuallyServes`, `EventuallyCleared`,
`BackfillEnds`), which is out of the prover's reach.  Every other property of a passing run,
invariant, action property or refinement, is a theorem.

## 5. Not modelled

Bodies, headers, token counts, prices and SQL text, which no property here tells
apart; the frontend; the middleware.  The queue of the admin query worker, where
every wait is bounded by a context.  The rolling buffer of a stream's chunks, which is
sequential and local to one request.  The fields of providers and aliases under
concurrent updates: `RoutingCatalog` has versions of tables, and the pattern of
read, change and write back is modelled for API keys.  A data race on the
transport pointer of the outbound client (`httpx`), whose reader is in `net/http`.
The probe that a shutdown cancels and that records its provider as unhealthy.
Failures of the disk are failed inserts and queries.  In modules other than
`Startup` and `Configuration` a crash is a behaviour that stops: what the invariants
say of the database holds at every step.

## 6. Plan

Done: breaker, catalog and its snapshot, proxy over a changing catalog, collector
and shutdown, API keys and limits, start and migrations, configuration and
retention, statistics; theorems for every safety property that the passing runs check.

Next modules, if any: the query worker, `StreamingBuffer`, lost updates of
providers and aliases.
