--------------------------- MODULE Configuration ---------------------------
(***************************************************************************)
(* The settings: the table config, the copy of it the proxy reads           *)
(* (ConfigSnapshot), the idle timeout of the outbound client, and the log   *)
(* bodies that the retention settings let live.  HandleUpdateConfig writes  *)
(* its keys one by one, publishes a fresh copy, applies the idle timeout    *)
(* and purges; several of them run at once, any statement may fail, and the *)
(* retention worker purges every day on its own.                            *)
(*                                                                         *)
(* A key that is absent from the table is read as its default, so the table *)
(* is a total function.  Time passes in days; a log row's age is counted up *)
(* to Old, an age past every retention.                                     *)
(***************************************************************************)
EXTENDS Integers, Sequences, FiniteSets

CONSTANTS
    Saves,          \* the PUT requests to /admin/config
    Keys,           \* the settings
    Values,         \* Values[k]: the values the validation lets through
    Default,        \* Default[k]: what an absent key is read as
    IdleKey,        \* http_idle_conn_timeout_seconds
    RetentionKeys,  \* the retention settings, in the order they are purged
    Stored,         \* the settings the table may hold when the process starts
    Bodies,         \* the request bodies: functions from some of the keys
    Rows,           \* log rows
    Old,            \* an age past every retention
    MaxFailures,    \* bound on failing statements
    MaxRestarts     \* bound on restarts of the process

Retention == {RetentionKeys[i] : i \in DOMAIN RetentionKeys}
AllValues == UNION {Values[k] : k \in Keys}
Settings == {c \in [Keys -> AllValues] : \A k \in Keys : c[k] \in Values[k]}

ASSUME ConfigurationAssumption ==
    /\ IdleKey \in Keys /\ RetentionKeys \in Seq(Keys)
    /\ Default \in Settings /\ Stored \subseteq Settings
    /\ Old \in Nat
    /\ \A k \in Retention : Values[k] \subseteq 1 .. (Old - 1)   \* at least a day
    /\ \A b \in Bodies : DOMAIN b \subseteq Keys
    /\ MaxFailures \in Nat /\ MaxRestarts \in Nat

VARIABLES
    store,      \* the table config
    snap,       \* ConfigSnapshot.val
    idle,       \* IdleConnTimeout of the current transport
    pc, body, todo, read,  \* each save: its place, its body, keys left, what Reload read
    worker,     \* the retention worker: its place, the settings it read, keys left
    tick,       \* the worker's ticker has fired
    age,        \* age[r]: days since the row was written, -1 before
    kept,       \* kept[k]: the rows that still have the body k is about
    failures, restarts,
    version,    \* history: how many writes there were, and at which the copy was read
    cause,      \* history: why copy and transport may differ from the table
    force       \* history: force[r][k]: the values k has had in the lifetime of r

procs == <<pc, body, todo, read>>
times == <<age, kept, force>>
vars == <<store, snap, idle, procs, worker, tick, times, failures, restarts, version, cause>>

InProgress == {"writing", "publish", "apply", "purge"}
Quiet == \A s \in Saves : pc[s] \notin InProgress

Resting == [at |-> "rest", cfg |-> Default, todo |-> <<>>]

Unread == [cfg |-> Default, at |-> 0]

\* The handler of s returns.
Return(s) == /\ pc' = [pc EXCEPT ![s] = "done"]
             /\ body' = [body EXCEPT ![s] = <<>>]
             /\ todo' = [todo EXCEPT ![s] = {}]

Fail == failures < MaxFailures /\ failures' = failures + 1

----------------------------------------------------------------------------
Init ==
    /\ store \in Stored /\ snap = store /\ idle = store[IdleKey]
    /\ pc = [s \in Saves |-> "start"]
    /\ body = [s \in Saves |-> <<>>]
    /\ todo = [s \in Saves |-> {}]
    /\ read = [s \in Saves |-> Unread]
    /\ worker = Resting /\ tick = TRUE
    /\ age = [r \in Rows |-> -1]
    /\ kept = [k \in Retention |-> {}]
    /\ failures = 0 /\ restarts = 0
    /\ version = [now |-> 0, snap |-> 0]
    /\ cause = [overtaken |-> FALSE, dropped |-> FALSE, idle |-> FALSE]
    /\ force = [r \in Rows |-> [k \in Retention |-> {}]]

----------------------------------------------------------------------------
(* HandleUpdateConfig. *)

Valid(b) == \A k \in DOMAIN b : b[k] \in Values[k]

\* Every key is checked before any is written; one bad value refuses the body.
Begin(s) ==
    /\ pc[s] = "start"
    /\ \E b \in Bodies :
        \/ /\ Valid(b)
           /\ body' = [body EXCEPT ![s] = b]
           /\ pc' = [pc EXCEPT ![s] = "writing"]
           /\ todo' = [todo EXCEPT ![s] = DOMAIN b]
           \* two saves of the idle timeout at once may apply it in either order
           /\ cause' = [cause EXCEPT !.idle = @ \/
                          /\ IdleKey \in DOMAIN b
                          /\ \E o \in Saves \ {s} : IdleKey \in DOMAIN body[o]]
        \/ ~Valid(b) /\ Return(s) /\ cause' = cause
    /\ UNCHANGED <<store, snap, idle, read, worker, tick, times,
                   failures, restarts, version>>

\* SetConfig of one of the keys left; a Go map is ranged over in any order.
SetConfig(s) ==
    /\ pc[s] = "writing"
    /\ \E k \in todo[s] :
        /\ store' = [store EXCEPT ![k] = body[s][k]]
        /\ todo' = [todo EXCEPT ![s] = @ \ {k}]
        /\ force' = [r \in Rows |-> [q \in Retention |->
                       IF q = k /\ age[r] >= 0 THEN force[r][q] \union {body[s][k]}
                                               ELSE force[r][q]]]
    /\ version' = [version EXCEPT !.now = @ + 1]
    /\ UNCHANGED <<snap, idle, pc, body, read, worker, tick, age, kept,
                   failures, restarts, cause>>

\* SetConfig fails, or the client has gone: the answer is a 500 and nothing
\* is reloaded, whatever was written before.
SetConfigFails(s) ==
    /\ pc[s] = "writing" /\ todo[s] # {} /\ Fail
    /\ Return(s)
    /\ LET written == DOMAIN body[s] \ todo[s]
       IN  cause' = [cause EXCEPT !.dropped = @ \/ written # {},
                                  !.idle = @ \/ IdleKey \in written]
    /\ UNCHANGED <<store, snap, idle, read, worker, tick, times,
                   restarts, version>>

\* Wrong on purpose: the copy is patched with the body instead of read from the table.
ReloadPatch(s) ==
    /\ pc[s] = "writing" /\ todo[s] = {}
    /\ read' = [read EXCEPT ![s] =
         [cfg |-> [k \in Keys |-> IF k \in DOMAIN body[s] THEN body[s][k] ELSE snap[k]],
          at |-> version.now]]
    /\ pc' = [pc EXCEPT ![s] = "publish"]
    /\ UNCHANGED <<store, snap, idle, body, todo, worker, tick, times,
                   failures, restarts, version, cause>>

\* onConfigChanged, first half of Reload: GetAllConfig.
ReloadRead(s) ==
    /\ pc[s] = "writing" /\ todo[s] = {}
    /\ read' = [read EXCEPT ![s] = [cfg |-> store, at |-> version.now]]
    /\ pc' = [pc EXCEPT ![s] = "publish"]
    /\ UNCHANGED <<store, snap, idle, body, todo, worker, tick, times,
                   failures, restarts, version, cause>>

\* The Reload fails, which reloadConfig only warns of.
ReloadFails(s) ==
    /\ pc[s] = "writing" /\ todo[s] = {} /\ Fail
    /\ pc' = [pc EXCEPT ![s] = "apply"]
    /\ cause' = [cause EXCEPT !.dropped = TRUE]
    /\ UNCHANGED <<store, snap, idle, body, todo, read, worker, tick, times,
                   restarts, version>>

\* Second half of Reload: the pointer is stored, whatever was stored since.
ReloadPublish(s) ==
    /\ pc[s] = "publish"
    /\ snap' = read[s].cfg
    /\ version' = [version EXCEPT !.snap = read[s].at]
    /\ LET fresh == read[s].at = version.now
       IN  cause' = [cause EXCEPT !.overtaken = ~fresh /\ (@ \/ read[s].at < version.snap),
                                  !.dropped = ~fresh /\ @]
    /\ pc' = [pc EXCEPT ![s] = "apply"]
    /\ read' = [read EXCEPT ![s] = Unread]
    /\ UNCHANGED <<store, idle, body, todo, worker, tick, times, failures, restarts>>

\* Wrong on purpose: the timeout is taken from the proxy's copy.
ApplyIdleFromCopy(s) ==
    /\ pc[s] = "apply"
    /\ idle' = IF IdleKey \in DOMAIN body[s] THEN snap[IdleKey] ELSE idle
    /\ pc' = [pc EXCEPT ![s] = "purge"]
    /\ todo' = [todo EXCEPT ![s] = DOMAIN body[s] \intersect Retention]
    /\ UNCHANGED <<store, snap, body, read, worker, tick, times,
                   failures, restarts, version, cause>>

\* onHTTPIdleSaved: ApplyIdleConnTimeout replaces the transport.
ApplyIdle(s) ==
    /\ pc[s] = "apply"
    /\ idle' = IF IdleKey \in DOMAIN body[s] THEN body[s][IdleKey] ELSE idle
    /\ pc' = [pc EXCEPT ![s] = "purge"]
    /\ todo' = [todo EXCEPT ![s] = DOMAIN body[s] \intersect Retention]
    /\ UNCHANGED <<store, snap, body, read, worker, tick, times,
                   failures, restarts, version, cause>>

\* Purge...BodiesOlderThan: the rows of setting k that lose their body.
Purged(k, days) == {r \in kept[k] : age[r] > days}

\* A purge that succeeds, with the retention given in days.
Purge(k, days) == kept' = [kept EXCEPT ![k] = @ \ Purged(k, days)]

\* The first of the given settings in the order of the code.
First(keys) == RetentionKeys[CHOOSE i \in DOMAIN RetentionKeys :
                 /\ RetentionKeys[i] \in keys
                 /\ \A j \in 1 .. i - 1 : RetentionKeys[j] \notin keys]

\* The save purges for the next retention setting of its body; that a purge
\* fails is only warned of.
PurgeSaved(s) ==
    /\ pc[s] = "purge" /\ todo[s] # {}
    /\ LET k == First(todo[s])
       IN  /\ \/ Purge(k, body[s][k]) /\ failures' = failures
              \/ Fail /\ kept' = kept
           /\ todo' = [todo EXCEPT ![s] = @ \ {k}]
    /\ UNCHANGED <<store, snap, idle, pc, body, read, worker, tick, age, force,
                   restarts, version, cause>>

\* The answer, with the settings read once more.
Answer(s) ==
    /\ pc[s] = "purge" /\ todo[s] = {}
    /\ Return(s)
    /\ UNCHANGED <<store, snap, idle, read, worker, tick, times,
                   failures, restarts, version, cause>>

----------------------------------------------------------------------------
(* The retention worker. *)

\* Wrong on purpose: runOnce reads the proxy's copy.
WorkerReadsCopy ==
    /\ worker.at = "rest" /\ tick
    /\ tick' = FALSE
    /\ worker' = [at |-> "purge", cfg |-> snap, todo |-> RetentionKeys]
    /\ UNCHANGED <<store, snap, idle, procs, times, failures, restarts, version, cause>>

\* runOnce reads the table, not the copy.
WorkerReads ==
    /\ worker.at = "rest" /\ tick
    /\ tick' = FALSE
    /\ \/ /\ worker' = [at |-> "purge", cfg |-> store, todo |-> RetentionKeys]
          /\ failures' = failures
       \/ Fail /\ worker' = worker
    /\ UNCHANGED <<store, snap, idle, procs, times, restarts, version, cause>>

\* It purges for one setting after the other; a failure is only warned of.
WorkerPurges ==
    /\ worker.at = "purge" /\ worker.todo # <<>>
    /\ LET k == Head(worker.todo)
       IN  \/ Purge(k, worker.cfg[k]) /\ failures' = failures
           \/ Fail /\ kept' = kept
    /\ worker' = [worker EXCEPT !.todo = Tail(@)]
    /\ UNCHANGED <<store, snap, idle, procs, tick, age, force, restarts, version, cause>>

WorkerRests ==
    /\ worker.at = "purge" /\ worker.todo = <<>>
    /\ worker' = Resting
    /\ UNCHANGED <<store, snap, idle, procs, tick, times, failures, restarts, version, cause>>

----------------------------------------------------------------------------
(* The surroundings. *)

\* A request is logged with its bodies.
LogRow(r) ==
    /\ age[r] = -1
    /\ age' = [age EXCEPT ![r] = 0]
    /\ kept' = [k \in Retention |-> kept[k] \union {r}]
    /\ force' = [force EXCEPT ![r] = [k \in Retention |-> {store[k]}]]
    /\ UNCHANGED <<store, snap, idle, procs, worker, tick, failures, restarts, version, cause>>

\* Wrong on purpose: a timer that fires once instead of a ticker.
DayPassesUnnoticed ==
    /\ Quiet /\ worker.at = "rest"
    /\ age' = [r \in Rows |-> IF age[r] \in 0 .. Old - 1 THEN age[r] + 1 ELSE age[r]]
    /\ UNCHANGED <<store, snap, idle, procs, worker, tick, kept, force,
                   failures, restarts, version, cause>>

\* A day passes and the ticker fires (its channel holds one tick).  Saves and
\* passes of the worker take minutes, so none spans a day.
DayPasses ==
    /\ Quiet /\ worker.at = "rest"
    /\ age' = [r \in Rows |-> IF age[r] \in 0 .. Old - 1 THEN age[r] + 1 ELSE age[r]]
    /\ tick' = TRUE
    /\ UNCHANGED <<store, snap, idle, procs, worker, kept, force,
                   failures, restarts, version, cause>>

\* The process ends and starts again: the copy and the transport are built from
\* the table, or from the defaults when it cannot be read, and the worker
\* begins with a pass.
Restart ==
    /\ restarts < MaxRestarts /\ restarts' = restarts + 1
    /\ pc' = [s \in Saves |-> IF pc[s] \in InProgress THEN "done" ELSE pc[s]]
    /\ body' = [s \in Saves |-> <<>>] /\ todo' = [s \in Saves |-> {}]
    /\ read' = [s \in Saves |-> Unread]
    /\ \/ /\ snap' = store /\ failures' = failures
          /\ version' = [version EXCEPT !.snap = version.now]
          /\ cause' = [overtaken |-> FALSE, dropped |-> FALSE, idle |-> FALSE]
       \/ /\ Fail /\ snap' = Default
          /\ cause' = [overtaken |-> FALSE, dropped |-> TRUE, idle |-> TRUE]
          /\ version' = version
    /\ idle' = snap'[IdleKey]
    /\ worker' = Resting /\ tick' = TRUE
    /\ UNCHANGED <<store, times>>

Save(s) == \/ Begin(s) \/ SetConfig(s) \/ SetConfigFails(s) \/ ReloadRead(s)
           \/ ReloadFails(s) \/ ReloadPublish(s) \/ ApplyIdle(s) \/ PurgeSaved(s)
           \/ Answer(s)

Worker == WorkerReads \/ WorkerPurges \/ WorkerRests

Next == \/ \E s \in Saves : Save(s)
        \/ \E r \in Rows : LogRow(r)
        \/ Worker \/ DayPasses \/ Restart

Spec == Init /\ [][Next]_vars

\* Handlers and the worker run on, and days go by.
FairSpec == /\ Spec
            /\ \A s \in Saves : WF_vars(Save(s))
            /\ WF_vars(Worker)
            /\ WF_vars(DayPasses)

----------------------------------------------------------------------------
TypeOK ==
    /\ store \in Settings /\ snap \in Settings /\ idle \in Values[IdleKey]
    /\ pc \in [Saves -> InProgress \union {"start", "done"}]
    /\ body \in [Saves -> Bodies \union {<<>>}]
    /\ todo \in [Saves -> SUBSET Keys]
    /\ read \in [Saves -> [cfg : Settings, at : Nat]]
    /\ worker \in [at : {"rest", "purge"}, cfg : Settings, todo : Seq(Retention)]
    /\ tick \in BOOLEAN
    /\ age \in [Rows -> -1 .. Old] /\ kept \in [Retention -> SUBSET Rows]
    /\ failures \in 0 .. MaxFailures /\ restarts \in 0 .. MaxRestarts
    /\ version \in [now : Nat, snap : Nat]
    /\ cause \in [overtaken : BOOLEAN, dropped : BOOLEAN, idle : BOOLEAN]
    /\ force \in [Rows -> [Retention -> SUBSET AllValues]]

\* With no save under way the proxy's copy equals the table, unless since the
\* copy was last fresh a save failed after it had written a key, a reload
\* failed, or an older reload was stored over a newer one.
StaleForACause ==
    Quiet /\ ~cause.overtaken /\ ~cause.dropped => snap = store

\* With no save under way the transport has the stored idle timeout, unless two
\* saves of it overlapped, one failed after writing it, or the start could not
\* read the table.
IdleFollowsStore == Quiet /\ ~cause.idle => idle = store[IdleKey]

\* A body is cleared only at an age past a retention that was in force while
\* its row existed: neither the worker nor a save purges by a setting from
\* before.
ClearedInTime ==
    [][\A k \in Retention : \A r \in kept[k] \ kept'[k] :
          \E days \in force[r][k] : age[r] > days]_vars

\* A body that has outlived every retention is cleared in the end, though
\* reads and purges may fail and a failed pass is not repeated before the
\* next day.
EventuallyCleared ==
    \A k \in Retention : \A r \in Rows :
        (r \in kept[k] /\ age[r] = Old) ~> (r \notin kept[k])

----------------------------------------------------------------------------
(* The inductive invariant behind the first three properties. *)

\* What a save holds in its hands at each place of HandleUpdateConfig.
HoldsBody(s) ==
    /\ Valid(body[s])
    /\ todo[s] \subseteq DOMAIN body[s]
    /\ pc[s] \notin InProgress => DOMAIN body[s] = {}
    /\ pc[s] \in {"publish", "apply"} => todo[s] = {}
    /\ pc[s] = "purge" => todo[s] \subseteq Retention

\* s has written k into the table.
Written(s, k) == pc[s] \in InProgress /\ k \in DOMAIN body[s] /\ (pc[s] = "writing" => k \notin todo[s])

\* s is on its way to a copy that is as new as the table, or has read it.
WillRefresh(s) ==
    \/ pc[s] = "writing" /\ \E k \in Keys : Written(s, k)
    \/ pc[s] = "publish" /\ read[s].at = version.now

\* A copy of the version of the table is the table, and when the proxy's copy
\* is older, without a cause, some save will refresh it.
CopyInv ==
    /\ version.snap <= version.now
    /\ \A s \in Saves : pc[s] = "publish" =>
          /\ read[s].at <= version.now
          /\ read[s].at = version.now => read[s].cfg = store
    /\ ~cause.dropped /\ version.snap = version.now => snap = store
    /\ ~cause.dropped /\ ~cause.overtaken /\ version.snap # version.now =>
          \E s \in Saves : WillRefresh(s)

\* s has written the idle timeout and not applied it yet.
IdlePending(s) == Written(s, IdleKey) /\ pc[s] # "purge"

\* Without a cause one save at most is about the idle timeout, and only that
\* save, once it has written the timeout, is still to apply it.
IdleInv ==
    ~cause.idle =>
        /\ \A s, t \in Saves : IdleKey \in DOMAIN body[s] /\ IdleKey \in DOMAIN body[t] => s = t
        /\ \A s \in Saves : IdlePending(s) => body[s][IdleKey] = store[IdleKey]
        /\ (\A s \in Saves : ~IdlePending(s)) => idle = store[IdleKey]

\* Whoever purges has its number of days from a time when every row that is a
\* day old was there: no save and no pass of the worker spans a day.
InForce(r) ==
    /\ \A k \in Retention : store[k] \in force[r][k]
    /\ age[r] # 0 =>
          /\ \A s \in Saves : \A k \in Retention : Written(s, k) => body[s][k] \in force[r][k]
          /\ worker.at = "purge" => \A k \in Retention : worker.cfg[k] \in force[r][k]

ForceInv ==
    /\ \A r \in Rows : age[r] # -1 => InForce(r)
    /\ \A k \in Retention : \A r \in kept[k] : age[r] # -1

IInv ==
    /\ TypeOK
    /\ \A s \in Saves : HoldsBody(s)
    /\ CopyInv
    /\ IdleInv
    /\ ForceInv

=============================================================================
