--------------------------- MODULE RoutingCatalog ---------------------------
(***************************************************************************)
(* The in-memory routing catalog (internal/proxy/catalog.go) and everybody *)
(* who makes it stale: the admin handlers that write the routing tables    *)
(* and the health checker.  Writers commit one or several transactions and *)
(* then call ReloadAsync, a non-blocking send on a channel of capacity 1;  *)
(* a single worker receives and rebuilds the snapshot from four queries    *)
(* that no transaction holds together (LoadRoutingData).                   *)
(*                                                                         *)
(* A table is abstracted to its version, the number of committed changes.  *)
(* A snapshot is the versions it was built from.                           *)
(***************************************************************************)
EXTENDS Naturals, Sequences

CONSTANTS
    Requests,           \* admin requests, each handled once
    AdminOps,           \* AdminOps[r]: the handlers that request r may ask for
    Probes,             \* health-check goroutines, one per provider, run again and again
    MaxFlips,           \* bound: health changes written by probes
    MaxReloadFailures   \* bound: reloads that fail (query error or 10s timeout)

ASSUME CatalogConstants ==
    /\ Requests \cap Probes = {}
    /\ MaxFlips \in Nat
    /\ MaxReloadFailures \in Nat

Actors == Requests \cup Probes
Tables == {"providers", "models", "aliases", "endpoints"}

\* LoadRoutingData queries the tables in this order.
Position == [t \in Tables |-> CASE t = "providers" -> 1 [] t = "models" -> 2
                                [] t = "aliases" -> 3 [] OTHER -> 4]

(***************************************************************************)
(* The transactions of the store that write routing tables, as the sets of *)
(* tables they change.  A provider's deletion cascades to all that it has. *)
(***************************************************************************)
CreateProvider                  == {"providers"}
UpdateProvider                  == {"providers"}
DeleteProvider                  == Tables
UpdateProviderHealth            == {"providers"}
UpsertProviderEndpoints         == {"endpoints"}
UpdateProviderEndpoint          == {"endpoints"}
CreateAlias                     == {"aliases"}
UpdateAlias                     == {"aliases"}
DeleteAlias                     == {"aliases"}
SyncProviderModels              == {"models"}
CreateProviderModel             == {"models"}
DeleteProviderModel             == {"models"}
SetProviderModelsAvailability   == {"models"}
UpdateProviderModelAvailability == {"models"}
UpdateProviderModelCosts        == {"models"}

(***************************************************************************)
(* What each handler commits, in order, before its notification.           *)
(***************************************************************************)
HandleCreateProvider      == << CreateProvider >>
HandleUpdateProvider      == << UpdateProvider >>
HandleDeleteProvider      == << DeleteProvider >>
HandleUpdateEndpoint      == << UpdateProviderEndpoint >>
HandleCreateAlias         == << CreateAlias >>
HandleUpdateAlias         == << UpdateAlias >>
HandleDeleteAlias         == << DeleteAlias >>
HandleUpdateProviderModel == << UpdateProviderModelAvailability, UpdateProviderModelCosts >>
HandleAddProviderModel    == << CreateProviderModel >>
HandleDeleteProviderModel == << DeleteProviderModel >>
HandleConfirm             == << UpsertProviderEndpoints, SyncProviderModels,
                                SetProviderModelsAvailability >>
UpdateHealth              == << UpdateProviderHealth >>

Writes ==
    [createProvider      |-> HandleCreateProvider,
     updateProvider      |-> HandleUpdateProvider,
     deleteProvider      |-> HandleDeleteProvider,
     updateEndpoint      |-> HandleUpdateEndpoint,
     createAlias         |-> HandleCreateAlias,
     updateAlias         |-> HandleUpdateAlias,
     deleteAlias         |-> HandleDeleteAlias,
     updateProviderModel |-> HandleUpdateProviderModel,
     addProviderModel    |-> HandleAddProviderModel,
     deleteProviderModel |-> HandleDeleteProviderModel,
     confirm             |-> HandleConfirm,
     updateHealth        |-> UpdateHealth]

Handlers == DOMAIN Writes

ASSUME AdminOpsAreHandlers ==
    AdminOps \in [Requests -> SUBSET (Handlers \ {"updateHealth"})]

\* Handlers that query again after their last write, and give up before the
\* notification when that query fails.
ReadBack == {"updateProviderModel", "addProviderModel", "deleteProviderModel", "confirm"}

\* Handlers whose write always changes the table when it succeeds.
Changing == {"createProvider", "deleteProvider", "createAlias",
             "addProviderModel", "deleteProviderModel"}

\* Handlers whose write is no error when there is nothing to write.
Indifferent == {"deleteAlias", "confirm"}

VARIABLES
    store,         \* version of each table in the database
    snapshot,      \* versions the published snapshot was built from
    reloadCh,      \* whether the reload channel holds a token
    worker,        \* "idle" (in select), "loading" or "stopped"
    read, loaded,  \* tables read so far by the worker, and their versions
    op, step,      \* handler each actor runs, and the next write of it
    dirty,         \* actors with a committed change they have not announced
    missed,        \* history: a change or reload was given up since a reload began
    flips, reloadFailures, \* counters for the bounds
    hasProviders   \* whether the providers table has a row

vars == <<store, snapshot, reloadCh, worker, read, loaded, op, step, dirty,
          missed, flips, reloadFailures, hasProviders>>
workerVars == <<snapshot, worker, read, loaded, reloadFailures>>
actorVars  == <<store, op, step, dirty, flips, hasProviders>>

TypeOK ==
    /\ store \in [Tables -> Nat]
    /\ snapshot \in [Tables -> Nat]
    /\ reloadCh \in BOOLEAN
    /\ worker \in {"idle", "loading", "stopped"}
    /\ read \in 0..4
    /\ loaded \in [Tables -> Nat]
    /\ op \in [Actors -> Handlers \cup {"none", "done"}]
    /\ step \in [Actors -> Nat]
    /\ dirty \in SUBSET Actors
    /\ missed \in BOOLEAN
    /\ flips \in Nat
    /\ reloadFailures \in Nat
    /\ hasProviders \in BOOLEAN

\* main has loaded the catalog before it starts anything else.
Init ==
    /\ store = [t \in Tables |-> 0]
    /\ snapshot = store
    /\ reloadCh = FALSE
    /\ worker = "idle"
    /\ read = 0
    /\ loaded = store
    /\ op = [a \in Actors |-> "none"]
    /\ step = [a \in Actors |-> 1]
    /\ dirty = {}
    /\ missed = FALSE
    /\ flips = 0
    /\ reloadFailures = 0
    /\ hasProviders \in BOOLEAN
-----------------------------------------------------------------------------
(***************************************************************************)
(* Wrong variants, to see that the properties notice.                      *)
(***************************************************************************)
NotifyLostWhileLoading(a) == reloadCh' = (reloadCh \/ worker = "idle")

ProbeNotifiesOnFlip(a) == reloadCh' = (reloadCh \/ a \in dirty)

PublishChangesOnly ==
    snapshot' = [t \in Tables |-> IF loaded[t] = snapshot[t] THEN 0 ELSE loaded[t]]

QueryOldVersion(t) ==
    /\ loaded' = [loaded EXCEPT ![t] = IF store[t] > 0 THEN store[t] - 1 ELSE 0]
    /\ read' = read + 1
-----------------------------------------------------------------------------
(***************************************************************************)
(* Writers.                                                                *)
(***************************************************************************)
StartRequest(r, h) ==
    /\ op[r] = "none"
    /\ op' = [op EXCEPT ![r] = h]
    /\ UNCHANGED <<store, step, dirty, flips, hasProviders, reloadCh, missed>>
    /\ UNCHANGED workerVars

\* checkAll lists the providers and probes each of them.
StartProbe(p) ==
    /\ op[p] = "none"
    /\ hasProviders
    /\ op' = [op EXCEPT ![p] = "updateHealth"]
    /\ UNCHANGED <<store, step, dirty, flips, hasProviders, reloadCh, missed>>
    /\ UNCHANGED workerVars

Writing(a) == op[a] \in Handlers /\ step[a] <= Len(Writes[op[a]])
Written(a) == op[a] \in Handlers /\ step[a] > Len(Writes[op[a]])

\* One transaction commits.  It may leave the rows as they were, unless it
\* inserts or deletes.  Every row but a provider belongs to a provider.
Commit(a) ==
    /\ Writing(a)
    /\ hasProviders \/ op[a] \in Indifferent \cup {"createProvider"}
    /\ \E changed \in BOOLEAN :
         /\ changed => hasProviders \/ op[a] = "createProvider"
         /\ op[a] \in Changing => changed
         /\ op[a] = "updateHealth" /\ changed => flips < MaxFlips
         /\ store' = IF changed
                     THEN [t \in Tables |-> store[t] +
                             (IF t \in Writes[op[a]][step[a]] THEN 1 ELSE 0)]
                     ELSE store
         /\ dirty' = IF changed THEN dirty \cup {a} ELSE dirty
         /\ flips' = IF op[a] = "updateHealth" /\ changed THEN flips + 1 ELSE flips
    /\ hasProviders' \in CASE op[a] = "createProvider" -> {TRUE}
                           [] op[a] = "deleteProvider" -> BOOLEAN
                           [] OTHER -> {hasProviders}
    /\ step' = [step EXCEPT ![a] = @ + 1]
    /\ UNCHANGED <<op, reloadCh, missed>>
    /\ UNCHANGED workerVars

Finish(a) ==
    /\ op' = [op EXCEPT ![a] = IF a \in Probes THEN "none" ELSE "done"]
    /\ step' = [step EXCEPT ![a] = 1]
    /\ dirty' = dirty \ {a}
    /\ UNCHANGED <<store, flips, hasProviders>>
    /\ UNCHANGED workerVars

\* An admin handler that meets an error (of the database, or because the
\* client is gone and its context cancelled) answers 500 and returns, and so
\* does not announce what it committed before.
GiveUp(r) ==
    /\ r \in Requests
    /\ Writing(r) \/ (Written(r) /\ op[r] \in ReadBack)
    /\ missed' = (missed \/ r \in dirty)
    /\ Finish(r)
    /\ UNCHANGED reloadCh

\* updateHealth only logs the error of its write and goes on.
ProbeWriteFails(p) ==
    /\ p \in Probes
    /\ Writing(p)
    /\ step' = [step EXCEPT ![p] = @ + 1]
    /\ UNCHANGED <<store, op, dirty, flips, hasProviders, reloadCh, missed>>
    /\ UNCHANGED workerVars

ReloadAsync(a) == reloadCh' = TRUE

Notify(a) ==
    /\ Written(a)
    /\ ReloadAsync(a)
    /\ Finish(a)
    /\ UNCHANGED missed
-----------------------------------------------------------------------------
(***************************************************************************)
(* The reload worker.                                                      *)
(***************************************************************************)
ReloadBegin ==
    /\ worker = "idle"
    /\ reloadCh
    /\ reloadCh' = FALSE
    /\ worker' = "loading"
    /\ read' = 0
    /\ missed' = FALSE
    /\ UNCHANGED <<snapshot, loaded, reloadFailures>>
    /\ UNCHANGED actorVars

QueryTable(t) ==
    /\ loaded' = [loaded EXCEPT ![t] = store[t]]
    /\ read' = read + 1

LoadTable(t) ==
    /\ worker = "loading"
    /\ Position[t] = read + 1
    /\ QueryTable(t)
    /\ UNCHANGED <<snapshot, worker, reloadFailures, reloadCh, missed>>
    /\ UNCHANGED actorVars

ReloadFails ==
    /\ worker = "loading"
    /\ read < 4
    /\ reloadFailures < MaxReloadFailures
    /\ reloadFailures' = reloadFailures + 1
    /\ worker' = "idle"
    /\ missed' = TRUE
    /\ UNCHANGED <<snapshot, read, loaded, reloadCh>>
    /\ UNCHANGED actorVars

Publish == snapshot' = loaded

Install ==
    /\ worker = "loading"
    /\ read = 4
    /\ Publish
    /\ worker' = "idle"
    /\ UNCHANGED <<read, loaded, reloadFailures, reloadCh, missed>>
    /\ UNCHANGED actorVars

\* The process is told to stop while the worker waits.
Stop ==
    /\ worker = "idle"
    /\ worker' = "stopped"
    /\ UNCHANGED <<snapshot, read, loaded, reloadFailures, reloadCh, missed>>
    /\ UNCHANGED actorVars

Proceed(a) == Commit(a) \/ GiveUp(a) \/ ProbeWriteFails(a) \/ Notify(a)
Work == ReloadBegin \/ (\E t \in Tables : LoadTable(t)) \/ Install

Next ==
    \/ \E r \in Requests : \E h \in AdminOps[r] : StartRequest(r, h)
    \/ \E p \in Probes : StartProbe(p)
    \/ \E a \in Actors : Proceed(a)
    \/ Work
    \/ ReloadFails
    \/ Stop

Spec == Init /\ [][Next]_vars

\* Goroutines that can run do run; the checker's ticker keeps probing.
Fairness ==
    /\ \A a \in Actors : WF_vars(Proceed(a))
    /\ \A p \in Probes : WF_vars(StartProbe(p))
    /\ WF_vars(Work)

FairSpec == Spec /\ Fairness
-----------------------------------------------------------------------------
\* Somebody knows that the snapshot may be behind the store.
Announced == reloadCh \/ missed \/ dirty # {}

(***************************************************************************)
(* No change is lost between the writers and the worker: whenever the      *)
(* worker waits, no reload is requested, no writer is about to announce a  *)
(* commit and nothing was given up on, the snapshot is the store, table by *)
(* table.  A torn read of the four tables, or a token dropped because one  *)
(* is already in the channel, never stays behind.  (ReloadAsync, Start,    *)
(* LoadRoutingData.)                                                       *)
(***************************************************************************)
QuiescentFresh == worker = "idle" /\ ~Announced => snapshot = store

(***************************************************************************)
(* The catalog as a copy of the database: it mixes versions while changes  *)
(* are on their way, but every table in it is one the database had, and    *)
(* none goes back to an older version.  (Reload, single worker.)           *)
(***************************************************************************)
Copy == INSTANCE EventualCopy WITH Items <- Tables, source <- store, copy <- snapshot
ImplementsEventualCopy == Copy!Spec

(***************************************************************************)
(* The catalog catches up: once writers are done it is the store and stays *)
(* so, even when a handler gave up without its notification or a reload    *)
(* failed, because each health check requests a reload.  With no provider  *)
(* left there is no health check, and what was missed stays missed.        *)
(* (updateHealth, Start.)                                                  *)
(***************************************************************************)
EventuallyFresh ==
    <>[]( \/ snapshot = store
          \/ worker = "stopped"
          \/ missed /\ ~hasProviders )
-----------------------------------------------------------------------------
(***************************************************************************)
(* The inductive invariant.                                                *)
(***************************************************************************)
Done(t) == worker = "loading" /\ Position[t] <= read

UpToDate ==
    worker # "stopped" =>
        \/ Announced
        \/ \A t \in Tables : IF worker = "loading" THEN Done(t) => loaded[t] = store[t]
                                                   ELSE snapshot[t] = store[t]

NotAhead ==
    \A t \in Tables :
        /\ snapshot[t] <= store[t]
        /\ Done(t) => snapshot[t] <= loaded[t] /\ loaded[t] <= store[t]

IInv == TypeOK /\ UpToDate /\ NotAhead
=============================================================================
