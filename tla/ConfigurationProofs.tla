------------------------ MODULE ConfigurationProofs -------------------------
(***************************************************************************)
(* Proofs about Configuration, for any number of saves, settings, log rows *)
(* and failures.                                                           *)
(***************************************************************************)
EXTENDS Configuration, WellFoundedInduction, SequenceTheorems, TLAPS

(***************************************************************************)
(* The operators of the model.                                             *)
(***************************************************************************)

\* A non-empty set of naturals has a least element.
LEMMA LeastNatural ==
    ASSUME NEW T, T \subseteq Nat, T # {}
    PROVE  \E i \in T : \A j \in T : ~ (j < i)
<1>1. PICK i \in T : \A j \in T : ~ (<<j, i>> \in OpToRel(<, Nat))
  BY NatLessThanWellFounded, WFMin
<1>2. \A j \in T : j < i => <<j, i>> \in OpToRel(<, Nat)
  BY DEF OpToRel
<1> QED
  BY <1>1, <1>2

\* First picks one of the settings it is given.
LEMMA FirstIsOneOf ==
    ASSUME NEW keys, keys \subseteq Retention, keys # {}
    PROVE  First(keys) \in keys
<1> DEFINE T == {i \in DOMAIN RetentionKeys : RetentionKeys[i] \in keys}
<1>1. DOMAIN RetentionKeys \subseteq Nat /\ DOMAIN RetentionKeys = 1 .. Len(RetentionKeys)
      /\ Len(RetentionKeys) \in Nat
  BY ConfigurationAssumption
<1>2. T # {} /\ T \subseteq Nat
  BY <1>1 DEF Retention
<1>3. PICK i \in T : \A j \in T : ~ (j < i)
  BY <1>2, LeastNatural
<1>4. \A j \in 1 .. i - 1 : j \in DOMAIN RetentionKeys /\ j < i
  BY <1>1, <1>3
<1>5. \E n \in DOMAIN RetentionKeys : /\ RetentionKeys[n] \in keys
                                      /\ \A j \in 1 .. n - 1 : RetentionKeys[j] \notin keys
  BY <1>3, <1>4
<1> QED
  BY <1>5 DEF First

\* What is in the settings, and what changing one of them leaves.
LEMMA SettingsValues ==
    ASSUME NEW c \in Settings
    PROVE  c \in [Keys -> AllValues] /\ \A k \in Keys : c[k] \in Values[k] /\ c[k] \in AllValues
BY DEF Settings

LEMMA SetOneKey ==
    ASSUME NEW c \in Settings, NEW k \in Keys, NEW v \in Values[k]
    PROVE  [c EXCEPT ![k] = v] \in Settings /\ v \in AllValues
<1>1. v \in AllValues
  BY DEF AllValues
<1> QED
  BY <1>1 DEF Settings

LEMMA RetentionIsKeys == Retention \subseteq Keys /\ RetentionKeys \in Seq(Retention)
<1>1. RetentionKeys \in Seq(Keys)
  BY ConfigurationAssumption
<1>2. Retention \subseteq Keys
  BY <1>1 DEF Retention
<1>3. RetentionKeys \in Seq(Retention)
  <2>1. RetentionKeys = [i \in 1 .. Len(RetentionKeys) |-> RetentionKeys[i]] /\ Len(RetentionKeys) \in Nat
    BY <1>1
  <2>2. \A i \in 1 .. Len(RetentionKeys) : RetentionKeys[i] \in Retention
    BY <1>1 DEF Retention
  <2> QED
    BY <2>1, <2>2, IsASeq
<1> QED
  BY <1>2, <1>3

\* The history records.
LEMMA NextVersion ==
    ASSUME NEW v \in [now : Nat, snap : Nat]
    PROVE  /\ [v EXCEPT !.now = @ + 1] \in [now : Nat, snap : Nat]
           /\ [v EXCEPT !.now = @ + 1].now = v.now + 1
           /\ [v EXCEPT !.now = @ + 1].snap = v.snap
<1>1. [v EXCEPT !.now = @ + 1] = [now |-> v.now + 1, snap |-> v.snap]
  OBVIOUS
<1> QED
  BY <1>1

LEMMA ACause ==
    \A o, d, i \in BOOLEAN : [overtaken |-> o, dropped |-> d, idle |-> i]
                                \in [overtaken : BOOLEAN, dropped : BOOLEAN, idle : BOOLEAN]
OBVIOUS

LEMMA EmptyBody == DOMAIN <<>> = {} /\ Valid(<<>>)
BY DEF Valid

LEMMA BodyKeys == \A b \in Bodies \union {<<>>} : DOMAIN b \subseteq Keys
BY ConfigurationAssumption, EmptyBody

-----------------------------------------------------------------------------
(***************************************************************************)
(* The types, and what a save holds at each place.                         *)
(***************************************************************************)
Shape == TypeOK /\ \A s \in Saves : HoldsBody(s)

LEMMA FailTyped == ASSUME failures \in 0 .. MaxFailures, Fail PROVE failures' \in 0 .. MaxFailures
BY ConfigurationAssumption DEF Fail

LEMMA InitShape == Init => Shape
<1> SUFFICES ASSUME Init PROVE Shape
  OBVIOUS
<1>1. store \in Settings /\ snap \in Settings /\ idle \in Values[IdleKey]
  BY ConfigurationAssumption, SettingsValues DEF Init
<1>2. pc \in [Saves -> InProgress \union {"start", "done"}]
      /\ body \in [Saves -> Bodies \union {<<>>}] /\ todo \in [Saves -> SUBSET Keys]
  BY DEF Init
<1>3. read \in [Saves -> [cfg : Settings, at : Nat]]
  BY ConfigurationAssumption DEF Init, Unread
<1>4. worker \in [at : {"rest", "purge"}, cfg : Settings, todo : Seq(Retention)]
  BY ConfigurationAssumption DEF Init, Resting
<1>5. age \in [Rows -> -1 .. Old] /\ kept \in [Retention -> SUBSET Rows]
      /\ failures \in 0 .. MaxFailures /\ restarts \in 0 .. MaxRestarts
      /\ force \in [Rows -> [Retention -> SUBSET AllValues]]
  BY ConfigurationAssumption DEF Init
<1>6. version \in [now : Nat, snap : Nat]
      /\ cause \in [overtaken : BOOLEAN, dropped : BOOLEAN, idle : BOOLEAN] /\ tick \in BOOLEAN
  BY DEF Init
<1>7. TypeOK
  BY <1>1, <1>2, <1>3, <1>4, <1>5, <1>6, Zenon DEF TypeOK
<1>8. \A s \in Saves : HoldsBody(s)
  BY EmptyBody DEF Init, HoldsBody, InProgress
<1> QED
  BY <1>7, <1>8 DEF Shape

\* A step of save s leaves what the other saves hold.
LEMMA OthersHold ==
    ASSUME Shape, NEW s \in Saves, HoldsBody(s)',
           \A t \in Saves \ {s} : pc'[t] = pc[t] /\ body'[t] = body[t] /\ todo'[t] = todo[t]
    PROVE  \A t \in Saves : HoldsBody(t)'
<1> SUFFICES ASSUME NEW t \in Saves \ {s} PROVE HoldsBody(t)'
  OBVIOUS
<1> QED
  BY DEF Shape, HoldsBody, Valid

\* The handler returns.
LEMMA ReturnShape ==
    ASSUME Shape, NEW s \in Saves, Return(s)
    PROVE  /\ pc' \in [Saves -> InProgress \union {"start", "done"}]
           /\ body' \in [Saves -> Bodies \union {<<>>}]
           /\ todo' \in [Saves -> SUBSET Keys]
           /\ \A t \in Saves : HoldsBody(t)'
<1>1. /\ pc \in [Saves -> InProgress \union {"start", "done"}]
      /\ body \in [Saves -> Bodies \union {<<>>}] /\ todo \in [Saves -> SUBSET Keys]
      /\ pc' = [pc EXCEPT ![s] = "done"] /\ body' = [body EXCEPT ![s] = <<>>]
      /\ todo' = [todo EXCEPT ![s] = {}]
  BY DEF Shape, TypeOK, Return
<1>2. /\ pc' \in [Saves -> InProgress \union {"start", "done"}]
      /\ body' \in [Saves -> Bodies \union {<<>>}] /\ todo' \in [Saves -> SUBSET Keys]
  BY <1>1
<1>3. HoldsBody(s)'
  BY <1>1, EmptyBody DEF HoldsBody, Valid, InProgress
<1>4. \A t \in Saves \ {s} : pc'[t] = pc[t] /\ body'[t] = body[t] /\ todo'[t] = todo[t]
  BY <1>1
<1> QED
  BY <1>2, <1>3, <1>4, OthersHold

LEMMA BeginShape == ASSUME Shape, NEW s \in Saves, Begin(s) PROVE Shape'
<1>1. /\ UNCHANGED <<store, snap, idle, read, worker, tick, times, failures, restarts, version>>
      /\ pc[s] = "start"
  BY DEF Begin
<1>2. PICK b \in Bodies :
        \/ /\ Valid(b) /\ body' = [body EXCEPT ![s] = b]
           /\ pc' = [pc EXCEPT ![s] = "writing"]
           /\ todo' = [todo EXCEPT ![s] = DOMAIN b]
           /\ \E i \in BOOLEAN : cause' = [cause EXCEPT !.idle = i]
        \/ Return(s) /\ cause' = cause
  BY Zenon DEF Begin, Shape, TypeOK
<1>3. CASE Return(s) /\ cause' = cause
  BY <1>1, <1>3, ReturnShape DEF Shape, TypeOK, times
<1>4. CASE /\ Valid(b) /\ body' = [body EXCEPT ![s] = b]
           /\ pc' = [pc EXCEPT ![s] = "writing"]
           /\ todo' = [todo EXCEPT ![s] = DOMAIN b]
           /\ \E i \in BOOLEAN : cause' = [cause EXCEPT !.idle = i]
  <2>1. cause' \in [overtaken : BOOLEAN, dropped : BOOLEAN, idle : BOOLEAN]
    BY <1>4 DEF Shape, TypeOK
  <2>2. /\ pc' \in [Saves -> InProgress \union {"start", "done"}]
        /\ body' \in [Saves -> Bodies \union {<<>>}] /\ todo' \in [Saves -> SUBSET Keys]
    BY <1>4, BodyKeys DEF Shape, TypeOK, InProgress
  <2>3. TypeOK'
    BY <1>1, <2>1, <2>2 DEF Shape, TypeOK, times
  <2>4. HoldsBody(s)'
    BY <1>4 DEF Shape, TypeOK, HoldsBody, Valid, InProgress
  <2>5. \A t \in Saves \ {s} : pc'[t] = pc[t] /\ body'[t] = body[t] /\ todo'[t] = todo[t]
    BY <1>4 DEF Shape, TypeOK
  <2> QED
    BY <2>3, <2>4, <2>5, OthersHold DEF Shape
<1> QED
  BY <1>2, <1>3, <1>4

\* The key that SetConfig writes.
LEMMA SetConfigWrites ==
    ASSUME Shape, NEW s \in Saves, SetConfig(s)
    PROVE  \E k \in todo[s] :
              /\ k \in Keys /\ k \in DOMAIN body[s] /\ body[s][k] \in Values[k]
              /\ body[s][k] \in AllValues
              /\ store' = [store EXCEPT ![k] = body[s][k]] /\ store' \in Settings
              /\ todo' = [todo EXCEPT ![s] = @ \ {k}]
              /\ force' = [r \in Rows |-> [q \in Retention |->
                              IF q = k /\ age[r] >= 0 THEN force[r][q] \union {body[s][k]}
                                                      ELSE force[r][q]]]
<1>1. PICK k \in todo[s] :
              /\ store' = [store EXCEPT ![k] = body[s][k]]
              /\ todo' = [todo EXCEPT ![s] = @ \ {k}]
              /\ force' = [r \in Rows |-> [q \in Retention |->
                              IF q = k /\ age[r] >= 0 THEN force[r][q] \union {body[s][k]}
                                                      ELSE force[r][q]]]
  BY DEF SetConfig
<1>2. k \in DOMAIN body[s] /\ k \in Keys /\ body[s][k] \in Values[k]
  BY DEF Shape, TypeOK, HoldsBody, Valid
<1>3. store' \in Settings /\ body[s][k] \in AllValues
  BY <1>1, <1>2, SetOneKey DEF Shape, TypeOK
<1> QED
  BY <1>1, <1>2, <1>3

LEMMA SetConfigShape == ASSUME Shape, NEW s \in Saves, SetConfig(s) PROVE Shape'
<1>1. /\ pc[s] = "writing" /\ version' = [version EXCEPT !.now = @ + 1]
      /\ UNCHANGED <<snap, idle, pc, body, read, worker, tick, age, kept, failures, restarts, cause>>
  BY DEF SetConfig
<1>2. PICK k \in todo[s] :
              /\ k \in Keys /\ k \in DOMAIN body[s] /\ body[s][k] \in Values[k]
              /\ body[s][k] \in AllValues
              /\ store' = [store EXCEPT ![k] = body[s][k]] /\ store' \in Settings
              /\ todo' = [todo EXCEPT ![s] = @ \ {k}]
              /\ force' = [r \in Rows |-> [q \in Retention |->
                              IF q = k /\ age[r] >= 0 THEN force[r][q] \union {body[s][k]}
                                                      ELSE force[r][q]]]
  BY SetConfigWrites
<1>3. force' \in [Rows -> [Retention -> SUBSET AllValues]]
  BY <1>2 DEF Shape, TypeOK
<1>4. version' \in [now : Nat, snap : Nat] /\ todo' \in [Saves -> SUBSET Keys]
  <2>1. version' \in [now : Nat, snap : Nat]
    BY <1>1, NextVersion DEF Shape, TypeOK
  <2>2. todo' \in [Saves -> SUBSET Keys]
    BY <1>2 DEF Shape, TypeOK
  <2> QED
    BY <2>1, <2>2
<1>5. TypeOK'
  BY <1>1, <1>2, <1>3, <1>4 DEF Shape, TypeOK
<1>6. HoldsBody(s)'
  BY <1>1, <1>2 DEF Shape, TypeOK, HoldsBody, Valid, InProgress
<1>7. \A t \in Saves \ {s} : pc'[t] = pc[t] /\ body'[t] = body[t] /\ todo'[t] = todo[t]
  BY <1>1, <1>2 DEF Shape, TypeOK
<1> QED
  BY <1>5, <1>6, <1>7, OthersHold DEF Shape

LEMMA SetConfigFailsShape == ASSUME Shape, NEW s \in Saves, SetConfigFails(s) PROVE Shape'
<1>1. /\ UNCHANGED <<store, snap, idle, read, worker, tick, times, restarts, version>>
      /\ Fail /\ Return(s)
  BY DEF SetConfigFails
<1>2. cause' \in [overtaken : BOOLEAN, dropped : BOOLEAN, idle : BOOLEAN]
  <2>1. \E d, i \in BOOLEAN : cause' = [cause EXCEPT !.dropped = d, !.idle = i]
    BY Zenon DEF SetConfigFails, Shape, TypeOK
  <2> QED
    BY <2>1 DEF Shape, TypeOK
<1>3. failures' \in 0 .. MaxFailures
  BY <1>1, FailTyped DEF Shape, TypeOK
<1> QED
  BY <1>1, <1>2, <1>3, ReturnShape DEF Shape, TypeOK, times

\* Save s goes on with its body and with some of its keys left.
LEMMA GoOn ==
    ASSUME Shape, NEW s \in Saves, NEW at \in {"publish", "apply", "purge"}, NEW left,
           pc' = [pc EXCEPT ![s] = at], body' = body, todo' = [todo EXCEPT ![s] = left],
           left \subseteq DOMAIN body[s], pc[s] \in InProgress,
           at # "purge" => left = {}, at = "purge" => left \subseteq Retention
    PROVE  /\ pc' \in [Saves -> InProgress \union {"start", "done"}]
           /\ body' \in [Saves -> Bodies \union {<<>>}]
           /\ todo' \in [Saves -> SUBSET Keys]
           /\ \A t \in Saves : HoldsBody(t)'
<1>1. /\ pc' \in [Saves -> InProgress \union {"start", "done"}]
      /\ body' \in [Saves -> Bodies \union {<<>>}]
      /\ todo' \in [Saves -> SUBSET Keys]
  BY BodyKeys DEF Shape, TypeOK, InProgress
<1>2. HoldsBody(s)'
  BY DEF Shape, TypeOK, HoldsBody, Valid, InProgress
<1>3. \A t \in Saves \ {s} : pc'[t] = pc[t] /\ body'[t] = body[t] /\ todo'[t] = todo[t]
  BY DEF Shape, TypeOK
<1> QED
  BY <1>1, <1>2, <1>3, OthersHold

LEMMA ReloadReadShape == ASSUME Shape, NEW s \in Saves, ReloadRead(s) PROVE Shape'
<1>1. /\ pc[s] = "writing" /\ todo[s] = {} /\ pc' = [pc EXCEPT ![s] = "publish"]
      /\ read' = [read EXCEPT ![s] = [cfg |-> store, at |-> version.now]]
      /\ UNCHANGED <<store, snap, idle, body, todo, worker, tick, times,
                     failures, restarts, version, cause>>
  BY DEF ReloadRead
<1>2. todo' = [todo EXCEPT ![s] = {}] /\ pc[s] \in InProgress
  BY <1>1 DEF Shape, TypeOK, InProgress
<1>3. read' \in [Saves -> [cfg : Settings, at : Nat]]
  BY <1>1 DEF Shape, TypeOK
<1> QED
  BY <1>1, <1>2, <1>3, GoOn DEF Shape, TypeOK, times

LEMMA ReloadFailsShape == ASSUME Shape, NEW s \in Saves, ReloadFails(s) PROVE Shape'
<1>1. /\ pc[s] = "writing" /\ todo[s] = {} /\ pc' = [pc EXCEPT ![s] = "apply"] /\ Fail
      /\ cause' = [cause EXCEPT !.dropped = TRUE]
      /\ UNCHANGED <<store, snap, idle, body, todo, read, worker, tick, times, restarts, version>>
  BY DEF ReloadFails
<1>2. todo' = [todo EXCEPT ![s] = {}] /\ pc[s] \in InProgress
  BY <1>1 DEF Shape, TypeOK, InProgress
<1>3. cause' \in [overtaken : BOOLEAN, dropped : BOOLEAN, idle : BOOLEAN]
  BY <1>1 DEF Shape, TypeOK
<1>4. failures' \in 0 .. MaxFailures
  BY <1>1, FailTyped DEF Shape, TypeOK
<1> QED
  BY <1>1, <1>2, <1>3, <1>4, GoOn DEF Shape, TypeOK, times

LEMMA ReloadPublishShape == ASSUME Shape, NEW s \in Saves, ReloadPublish(s) PROVE Shape'
<1>1. /\ pc[s] = "publish" /\ snap' = read[s].cfg /\ pc' = [pc EXCEPT ![s] = "apply"]
      /\ version' = [version EXCEPT !.snap = read[s].at]
      /\ read' = [read EXCEPT ![s] = Unread]
      /\ UNCHANGED <<store, idle, body, todo, worker, tick, times, failures, restarts>>
  BY DEF ReloadPublish
<1>2. todo[s] = {} /\ pc[s] \in InProgress
  BY <1>1 DEF Shape, HoldsBody, InProgress
<1>3. todo' = [todo EXCEPT ![s] = {}]
  BY <1>1, <1>2 DEF Shape, TypeOK
<1>4. cause' \in [overtaken : BOOLEAN, dropped : BOOLEAN, idle : BOOLEAN]
  <2>1. \E o, d \in BOOLEAN : cause' = [cause EXCEPT !.overtaken = o, !.dropped = d]
    BY Zenon DEF ReloadPublish, Shape, TypeOK
  <2> QED
    BY <2>1 DEF Shape, TypeOK
<1>5. snap' \in Settings /\ version' \in [now : Nat, snap : Nat]
  BY <1>1 DEF Shape, TypeOK
<1>6. read' \in [Saves -> [cfg : Settings, at : Nat]]
  BY <1>1, ConfigurationAssumption DEF Shape, TypeOK, Unread
<1> QED
  BY <1>1, <1>2, <1>3, <1>4, <1>5, <1>6, GoOn DEF Shape, TypeOK, times

LEMMA ApplyIdleShape == ASSUME Shape, NEW s \in Saves, ApplyIdle(s) PROVE Shape'
<1>1. /\ pc[s] = "apply" /\ pc' = [pc EXCEPT ![s] = "purge"]
      /\ idle' = IF IdleKey \in DOMAIN body[s] THEN body[s][IdleKey] ELSE idle
      /\ todo' = [todo EXCEPT ![s] = DOMAIN body[s] \intersect Retention]
      /\ UNCHANGED <<store, snap, body, read, worker, tick, times, failures, restarts, version, cause>>
  BY DEF ApplyIdle
<1>2. pc[s] \in InProgress
  BY <1>1 DEF InProgress
<1>3. idle' \in Values[IdleKey]
  BY <1>1 DEF Shape, TypeOK, HoldsBody, Valid
<1>4. DOMAIN body[s] \intersect Retention \subseteq DOMAIN body[s]
      /\ DOMAIN body[s] \intersect Retention \subseteq Retention
  OBVIOUS
<1>5. /\ pc' \in [Saves -> InProgress \union {"start", "done"}]
      /\ body' \in [Saves -> Bodies \union {<<>>}]
      /\ todo' \in [Saves -> SUBSET Keys]
      /\ \A t \in Saves : HoldsBody(t)'
  BY <1>1, <1>2, <1>4, GoOn
<1> QED
  BY <1>1, <1>3, <1>5 DEF Shape, TypeOK, times

\* A purge for one setting, or a failed one: bodies are only ever taken away.
LEMMA PurgeTyped ==
    ASSUME Shape, NEW k, NEW days,
           \/ Purge(k, days) /\ failures' = failures
           \/ Fail /\ kept' = kept
    PROVE  /\ kept' \in [Retention -> SUBSET Rows] /\ failures' \in 0 .. MaxFailures
           /\ \A q \in Retention : \A r \in kept[q] \ kept'[q] : q = k /\ age[r] > days
           /\ \A q \in Retention : kept'[q] \subseteq kept[q]
<1>1. kept \in [Retention -> SUBSET Rows] /\ failures \in 0 .. MaxFailures
  BY DEF Shape, TypeOK
<1>2. CASE Purge(k, days) /\ failures' = failures
  BY <1>1, <1>2 DEF Purge, Purged
<1>3. CASE Fail /\ kept' = kept
  BY <1>1, <1>3, FailTyped
<1> QED
  BY <1>2, <1>3

LEMMA PurgeSavedShape == ASSUME Shape, NEW s \in Saves, PurgeSaved(s) PROVE Shape'
<1> DEFINE k == First(todo[s])
<1>1. /\ pc[s] = "purge" /\ todo' = [todo EXCEPT ![s] = @ \ {k}]
      /\ \/ Purge(k, body[s][k]) /\ failures' = failures
         \/ Fail /\ kept' = kept
      /\ UNCHANGED <<store, snap, idle, pc, body, read, worker, tick, age, force,
                     restarts, version, cause>>
  BY DEF PurgeSaved
<1> HIDE DEF k
<1>2. kept' \in [Retention -> SUBSET Rows] /\ failures' \in 0 .. MaxFailures
  BY <1>1, PurgeTyped
<1>3. TypeOK'
  BY <1>1, <1>2 DEF Shape, TypeOK
<1>4. HoldsBody(s)'
  BY <1>1 DEF Shape, TypeOK, HoldsBody, Valid, InProgress
<1>5. \A t \in Saves \ {s} : pc'[t] = pc[t] /\ body'[t] = body[t] /\ todo'[t] = todo[t]
  BY <1>1 DEF Shape, TypeOK
<1> QED
  BY <1>3, <1>4, <1>5, OthersHold DEF Shape

LEMMA AnswerShape == ASSUME Shape, NEW s \in Saves, Answer(s) PROVE Shape'
BY ReturnShape DEF Answer, Shape, TypeOK, times

\* The worker, the surroundings.
LEMMA ProcsHold == ASSUME Shape, UNCHANGED <<pc, body, todo>> PROVE \A s \in Saves : HoldsBody(s)'
BY DEF Shape, HoldsBody, Valid

LEMMA WorkerShape == ASSUME Shape, Worker PROVE Shape'
<1>1. UNCHANGED <<store, snap, idle, procs, age, force, restarts, version, cause>>
  BY DEF Worker, WorkerReads, WorkerPurges, WorkerRests, times
<1>2. tick' \in BOOLEAN
  BY Zenon DEF Shape, TypeOK, Worker, WorkerReads, WorkerPurges, WorkerRests
<1>3. /\ worker' \in [at : {"rest", "purge"}, cfg : Settings, todo : Seq(Retention)]
      /\ kept' \in [Retention -> SUBSET Rows] /\ failures' \in 0 .. MaxFailures
  <2>1. CASE WorkerReads
    <3>1. [at |-> "purge", cfg |-> store, todo |-> RetentionKeys]
             \in [at : {"rest", "purge"}, cfg : Settings, todo : Seq(Retention)]
      BY RetentionIsKeys DEF Shape, TypeOK
    <3> QED
      BY <2>1, <3>1, FailTyped DEF WorkerReads, times, Shape, TypeOK
  <2>2. CASE WorkerPurges
    <3>1. /\ worker.todo # <<>> /\ worker' = [worker EXCEPT !.todo = Tail(worker.todo)]
          /\ \/ Purge(Head(worker.todo), worker.cfg[Head(worker.todo)]) /\ failures' = failures
             \/ Fail /\ kept' = kept
      BY <2>2 DEF WorkerPurges
    <3>2. Tail(worker.todo) \in Seq(Retention)
      BY <3>1, HeadTailProperties DEF Shape, TypeOK
    <3> QED
      BY <3>1, <3>2, PurgeTyped DEF Shape, TypeOK
  <2>3. CASE WorkerRests
    BY <2>3, ConfigurationAssumption DEF WorkerRests, Resting, times, Shape, TypeOK
  <2> QED
    BY <2>1, <2>2, <2>3 DEF Worker
<1> QED
  BY <1>1, <1>2, <1>3, ProcsHold DEF Shape, TypeOK, procs

LEMMA LogRowShape == ASSUME Shape, NEW r \in Rows, LogRow(r) PROVE Shape'
<1>1. /\ age' = [age EXCEPT ![r] = 0] /\ kept' = [k \in Retention |-> kept[k] \union {r}]
      /\ force' = [force EXCEPT ![r] = [k \in Retention |-> {store[k]}]]
      /\ UNCHANGED <<store, snap, idle, procs, worker, tick, failures, restarts, version, cause>>
  BY DEF LogRow
<1>2. age' \in [Rows -> -1 .. Old] /\ kept' \in [Retention -> SUBSET Rows]
  BY <1>1, ConfigurationAssumption DEF Shape, TypeOK
<1>3. force' \in [Rows -> [Retention -> SUBSET AllValues]]
  <2>1. \A k \in Retention : store[k] \in AllValues
    BY RetentionIsKeys, SettingsValues DEF Shape, TypeOK
  <2> QED
    BY <1>1, <2>1 DEF Shape, TypeOK
<1> QED
  BY <1>1, <1>2, <1>3, ProcsHold DEF Shape, TypeOK, procs

LEMMA DayPassesShape == ASSUME Shape, DayPasses PROVE Shape'
<1>1. /\ age' = [r \in Rows |-> IF age[r] \in 0 .. Old - 1 THEN age[r] + 1 ELSE age[r]] /\ tick' = TRUE
      /\ UNCHANGED <<store, snap, idle, procs, worker, kept, force, failures, restarts, version, cause>>
  BY DEF DayPasses
<1>2. age' \in [Rows -> -1 .. Old]
  BY <1>1, ConfigurationAssumption DEF Shape, TypeOK
<1>3. tick' \in BOOLEAN
  BY <1>1, Zenon
<1> QED
  BY <1>1, <1>2, <1>3, ProcsHold DEF Shape, TypeOK, procs

LEMMA RestartShape == ASSUME Shape, Restart PROVE Shape'
<1>1. /\ restarts < MaxRestarts /\ restarts' = restarts + 1
      /\ pc' = [s \in Saves |-> IF pc[s] \in InProgress THEN "done" ELSE pc[s]]
      /\ body' = [s \in Saves |-> <<>>] /\ todo' = [s \in Saves |-> {}]
      /\ read' = [s \in Saves |-> Unread]
      /\ idle' = snap'[IdleKey] /\ worker' = Resting /\ tick' = TRUE
      /\ UNCHANGED <<store, times>>
  BY DEF Restart
<1>2. restarts' \in 0 .. MaxRestarts
  BY <1>1, ConfigurationAssumption DEF Shape, TypeOK
<1>3. snap' \in Settings /\ idle' \in Values[IdleKey] /\ failures' \in 0 .. MaxFailures
  <2>1. snap' \in Settings /\ failures' \in 0 .. MaxFailures
    BY ConfigurationAssumption, FailTyped DEF Restart, Shape, TypeOK
  <2> QED
    BY <1>1, <2>1, ConfigurationAssumption, SettingsValues
<1>4. version' \in [now : Nat, snap : Nat]
  BY DEF Restart, Shape, TypeOK
<1>5. cause' \in [overtaken : BOOLEAN, dropped : BOOLEAN, idle : BOOLEAN]
  <2>1. \/ cause' = [overtaken |-> FALSE, dropped |-> FALSE, idle |-> FALSE]
        \/ cause' = [overtaken |-> FALSE, dropped |-> TRUE, idle |-> TRUE]
    BY DEF Restart
  <2> QED
    BY <2>1, ACause, Zenon
<1>6. /\ pc' \in [Saves -> InProgress \union {"start", "done"}]
      /\ body' \in [Saves -> Bodies \union {<<>>}] /\ todo' \in [Saves -> SUBSET Keys]
  BY <1>1 DEF Shape, TypeOK
<1>7. read' \in [Saves -> [cfg : Settings, at : Nat]]
  BY <1>1, ConfigurationAssumption DEF Unread
<1>8. worker' \in [at : {"rest", "purge"}, cfg : Settings, todo : Seq(Retention)]
  BY <1>1, ConfigurationAssumption DEF Resting
<1>9. tick' \in BOOLEAN
  BY <1>1, Zenon
<1>10. \A s \in Saves : HoldsBody(s)'
  BY <1>1, EmptyBody DEF Shape, TypeOK, HoldsBody, Valid, InProgress
<1>11. TypeOK'
  BY <1>1, <1>2, <1>3, <1>4, <1>5, <1>6, <1>7, <1>8, <1>9 DEF Shape, TypeOK, times
<1> QED
  BY <1>10, <1>11 DEF Shape

LEMMA ShapeStep == Shape /\ [Next]_vars => Shape'
<1>1. Shape /\ UNCHANGED vars => Shape'
  BY ProcsHold DEF Shape, TypeOK, vars, procs, times
<1> QED
  BY <1>1, BeginShape, SetConfigShape, SetConfigFailsShape, ReloadReadShape, ReloadFailsShape,
     ReloadPublishShape, ApplyIdleShape, PurgeSavedShape, AnswerShape, WorkerShape, LogRowShape,
     DayPassesShape, RestartShape DEF Next, Save

-----------------------------------------------------------------------------
(***************************************************************************)
(* CopyInv: the proxy's copy against the table.                            *)
(***************************************************************************)

\* A step that lets no save publish or give up a refresh, and adds no cause.
LEMMA CopyAside ==
    ASSUME CopyInv, UNCHANGED <<store, snap, version>>,
           ~cause'.dropped => ~cause.dropped, ~cause'.overtaken => ~cause.overtaken,
           \A t \in Saves : pc'[t] = "publish" => pc[t] = "publish" /\ read'[t] = read[t],
           ~cause'.dropped => \A t \in Saves : WillRefresh(t) => WillRefresh(t)'
    PROVE  CopyInv'
<1>1. /\ version'.snap <= version'.now
      /\ \A s \in Saves : pc'[s] = "publish" =>
            /\ read'[s].at <= version'.now
            /\ read'[s].at = version'.now => read'[s].cfg = store'
  BY DEF CopyInv
<1>2. ~cause'.dropped /\ version'.snap = version'.now => snap' = store'
  BY DEF CopyInv
<1>3. ~cause'.dropped /\ ~cause'.overtaken /\ version'.snap # version'.now =>
          \E s \in Saves : WillRefresh(s)'
  BY DEF CopyInv
<1> QED
  BY <1>1, <1>2, <1>3 DEF CopyInv

\* What is left of a refresh when only save s moves.
LEMMA RefreshStays ==
    ASSUME NEW t \in Saves, WillRefresh(t), version' = version,
           pc'[t] = pc[t], body'[t] = body[t], todo'[t] = todo[t], read'[t] = read[t]
    PROVE  WillRefresh(t)'
BY DEF WillRefresh, Written, InProgress

LEMMA BeginCopy == ASSUME Shape, CopyInv, NEW s \in Saves, Begin(s) PROVE CopyInv'
<1>1. /\ pc[s] = "start" /\ UNCHANGED <<store, snap, read, version>>
      /\ pc' = [pc EXCEPT ![s] = "writing"] \/ pc' = [pc EXCEPT ![s] = "done"]
      /\ \E b : body' = [body EXCEPT ![s] = b]
      /\ \E x : todo' = [todo EXCEPT ![s] = x]
  BY DEF Begin, Return
<1>2. cause'.dropped = cause.dropped /\ cause'.overtaken = cause.overtaken
  <2>1. cause' = cause \/ \E i : cause' = [cause EXCEPT !.idle = i]
    BY Zenon DEF Begin
  <2> QED
    BY <2>1 DEF Shape, TypeOK
<1>3. \A t \in Saves \ {s} : pc'[t] = pc[t] /\ body'[t] = body[t] /\ todo'[t] = todo[t]
  BY <1>1 DEF Shape, TypeOK
<1>4. ~WillRefresh(s) /\ pc'[s] # "publish"
  BY <1>1 DEF WillRefresh, Shape, TypeOK
<1>5. \A t \in Saves : pc'[t] = "publish" => pc[t] = "publish" /\ read'[t] = read[t]
  BY <1>1, <1>3, <1>4
<1>6. \A t \in Saves : WillRefresh(t) => WillRefresh(t)'
  BY <1>1, <1>3, <1>4, RefreshStays
<1> QED
  BY <1>1, <1>2, <1>5, <1>6, CopyAside

LEMMA SetConfigCopy == ASSUME Shape, CopyInv, NEW s \in Saves, SetConfig(s) PROVE CopyInv'
<1>1. /\ pc[s] = "writing" /\ version' = [version EXCEPT !.now = @ + 1]
      /\ UNCHANGED <<snap, pc, body, read, cause>>
  BY DEF SetConfig
<1>2. version'.now = version.now + 1 /\ version'.snap = version.snap
      /\ version.now \in Nat /\ version.snap \in Nat /\ version.snap <= version.now
  BY <1>1, NextVersion DEF Shape, TypeOK, CopyInv
<1>3. \A t \in Saves : pc[t] = "publish" => read[t].at <= version.now /\ read[t].at \in Nat
  BY DEF Shape, TypeOK, CopyInv
<1>4. \A t \in Saves : pc[t] = "publish" => read[t].at <= version'.now /\ read[t].at # version'.now
  BY <1>2, <1>3
<1>5. WillRefresh(s)'
  <2>1. PICK k \in todo[s] : k \in Keys /\ k \in DOMAIN body[s] /\ todo' = [todo EXCEPT ![s] = @ \ {k}]
    BY SetConfigWrites
  <2>2. k \notin todo'[s]
    BY <2>1 DEF Shape, TypeOK
  <2> QED
    BY <1>1, <2>1, <2>2 DEF WillRefresh, Written, InProgress
<1>6. version'.snap <= version'.now /\ version'.snap # version'.now
  BY <1>2
<1> QED
  BY <1>1, <1>4, <1>5, <1>6 DEF CopyInv

LEMMA SetConfigFailsCopy == ASSUME Shape, CopyInv, NEW s \in Saves, SetConfigFails(s) PROVE CopyInv'
<1>1. /\ pc[s] = "writing" /\ UNCHANGED <<store, snap, read, version>>
      /\ pc' = [pc EXCEPT ![s] = "done"]
      /\ body' = [body EXCEPT ![s] = <<>>] /\ todo' = [todo EXCEPT ![s] = {}]
  BY DEF SetConfigFails, Return
<1>2. \A t \in Saves \ {s} : pc'[t] = pc[t] /\ body'[t] = body[t] /\ todo'[t] = todo[t]
  BY <1>1 DEF Shape, TypeOK
<1>3. /\ cause'.dropped = (cause.dropped \/ DOMAIN body[s] \ todo[s] # {})
      /\ cause'.overtaken = cause.overtaken
  BY DEF SetConfigFails, Shape, TypeOK
<1>4. pc'[s] # "publish"
  BY <1>1 DEF Shape, TypeOK
<1>5. ~cause'.dropped => ~WillRefresh(s)
  BY <1>1, <1>3 DEF WillRefresh, Written
<1>6. \A t \in Saves : pc'[t] = "publish" => pc[t] = "publish" /\ read'[t] = read[t]
  BY <1>1, <1>2, <1>4
<1>7. ~cause'.dropped => \A t \in Saves : WillRefresh(t) => WillRefresh(t)'
  BY <1>1, <1>2, <1>5, RefreshStays
<1> QED
  BY <1>1, <1>3, <1>6, <1>7, CopyAside

LEMMA ReloadReadCopy == ASSUME Shape, CopyInv, NEW s \in Saves, ReloadRead(s) PROVE CopyInv'
<1>1. /\ pc' = [pc EXCEPT ![s] = "publish"]
      /\ read' = [read EXCEPT ![s] = [cfg |-> store, at |-> version.now]]
      /\ UNCHANGED <<store, snap, body, todo, version, cause>>
  BY DEF ReloadRead
<1>2. /\ pc'[s] = "publish" /\ read'[s].at = version.now /\ read'[s].cfg = store
      /\ \A t \in Saves \ {s} : pc'[t] = pc[t] /\ read'[t] = read[t]
  BY <1>1 DEF Shape, TypeOK
<1>3. version.now \in Nat /\ version.now <= version.now
  BY DEF Shape, TypeOK
<1>4. \A t \in Saves : pc'[t] = "publish" =>
          read'[t].at <= version'.now /\ (read'[t].at = version'.now => read'[t].cfg = store')
  BY <1>1, <1>2, <1>3 DEF CopyInv
<1>5. WillRefresh(s)'
  BY <1>1, <1>2 DEF WillRefresh
<1> QED
  BY <1>1, <1>4, <1>5 DEF CopyInv

LEMMA ReloadFailsCopy == ASSUME Shape, CopyInv, NEW s \in Saves, ReloadFails(s) PROVE CopyInv'
<1>1. /\ pc' = [pc EXCEPT ![s] = "apply"] /\ cause' = [cause EXCEPT !.dropped = TRUE]
      /\ UNCHANGED <<store, snap, body, todo, read, version>>
  BY DEF ReloadFails
<1>2. cause'.dropped
  BY <1>1 DEF Shape, TypeOK
<1>3. cause'.overtaken = cause.overtaken
  BY <1>1 DEF Shape, TypeOK
<1>4. \A t \in Saves : pc'[t] = "publish" => pc[t] = "publish" /\ read'[t] = read[t]
  BY <1>1 DEF Shape, TypeOK
<1> QED
  BY <1>1, <1>2, <1>3, <1>4, CopyAside

LEMMA ReloadPublishCopy == ASSUME Shape, CopyInv, NEW s \in Saves, ReloadPublish(s) PROVE CopyInv'
<1>1. /\ pc[s] = "publish" /\ snap' = read[s].cfg /\ pc' = [pc EXCEPT ![s] = "apply"]
      /\ version' = [version EXCEPT !.snap = read[s].at]
      /\ read' = [read EXCEPT ![s] = Unread]
      /\ UNCHANGED <<store, body, todo>>
  BY DEF ReloadPublish
<1>2. /\ version'.now = version.now /\ version'.snap = read[s].at
      /\ version.now \in Nat /\ version.snap \in Nat /\ read[s].at \in Nat
  BY <1>1 DEF Shape, TypeOK
<1>3. /\ read[s].at <= version.now /\ version.snap <= version.now
      /\ read[s].at = version.now => read[s].cfg = store
  BY <1>1 DEF CopyInv
<1>4. /\ ~cause'.dropped => read[s].at = version.now \/ ~cause.dropped
      /\ ~cause'.overtaken => read[s].at = version.now \/ (~cause.overtaken /\ ~(read[s].at < version.snap))
  BY DEF ReloadPublish, Shape, TypeOK
<1>5. /\ pc'[s] # "publish"
      /\ \A t \in Saves \ {s} : pc'[t] = pc[t] /\ read'[t] = read[t] /\ body'[t] = body[t] /\ todo'[t] = todo[t]
  BY <1>1 DEF Shape, TypeOK
<1>6. \A t \in Saves : pc'[t] = "publish" =>
          read'[t].at <= version'.now /\ (read'[t].at = version'.now => read'[t].cfg = store')
  BY <1>1, <1>2, <1>5 DEF CopyInv
<1>7. version'.snap <= version'.now /\ (version'.snap = version'.now => snap' = store')
  BY <1>1, <1>2, <1>3
<1>8. ASSUME ~cause'.dropped, ~cause'.overtaken, version'.snap # version'.now
      PROVE  \E t \in Saves : WillRefresh(t)'
  <2>1. ~cause.dropped /\ ~cause.overtaken /\ read[s].at # version.now /\ ~(read[s].at < version.snap)
    BY <1>2, <1>4, <1>8
  <2>2. version.snap # version.now
    BY <1>2, <1>3, <2>1
  <2>3. PICK t \in Saves : WillRefresh(t)
    BY <2>1, <2>2 DEF CopyInv
  <2>4. t # s
    BY <1>1, <2>1, <2>3 DEF WillRefresh
  <2> QED
    BY <1>2, <1>5, <2>3, <2>4 DEF WillRefresh, Written, InProgress
<1> QED
  BY <1>6, <1>7, <1>8 DEF CopyInv

\* The rest of a save comes after its refresh.
LEMMA LaterCopy ==
    ASSUME Shape, CopyInv, NEW s \in Saves, ApplyIdle(s) \/ PurgeSaved(s) \/ Answer(s)
    PROVE  CopyInv'
<1>1. pc[s] \in {"apply", "purge"} /\ UNCHANGED <<store, snap, version, cause, read>>
      /\ (pc' = pc \/ pc' = [pc EXCEPT ![s] = "purge"] \/ pc' = [pc EXCEPT ![s] = "done"])
      /\ (body' = body \/ \E b : body' = [body EXCEPT ![s] = b])
      /\ \E x : todo' = [todo EXCEPT ![s] = x]
  BY DEF ApplyIdle, PurgeSaved, Answer, Return
<1>2. \A t \in Saves \ {s} : pc'[t] = pc[t] /\ body'[t] = body[t] /\ todo'[t] = todo[t]
  BY <1>1 DEF Shape, TypeOK
<1>3. ~WillRefresh(s) /\ pc'[s] # "publish"
  BY <1>1 DEF WillRefresh, Shape, TypeOK
<1>4. \A t \in Saves : pc'[t] = "publish" => pc[t] = "publish" /\ read'[t] = read[t]
  BY <1>1, <1>2, <1>3
<1>5. \A t \in Saves : WillRefresh(t) => WillRefresh(t)'
  BY <1>1, <1>2, <1>3, RefreshStays
<1> QED
  BY <1>1, <1>4, <1>5, CopyAside

LEMMA RestartCopy == ASSUME Shape, CopyInv, Restart PROVE CopyInv'
<1>1. \A s \in Saves : pc'[s] # "publish"
  BY DEF Restart, InProgress
<1>2. CASE /\ snap' = store /\ store' = store
           /\ version' = [version EXCEPT !.snap = version.now]
  <2>1. version'.snap = version'.now /\ version'.now \in Nat
    BY <1>2 DEF Shape, TypeOK
  <2> QED
    BY <1>1, <1>2, <2>1 DEF CopyInv
<1>3. CASE /\ cause' = [overtaken |-> FALSE, dropped |-> TRUE, idle |-> TRUE]
           /\ version' = version
  <2>1. cause'.dropped
    BY <1>3
  <2> QED
    BY <1>1, <1>3, <2>1 DEF CopyInv
<1> QED
  BY <1>2, <1>3 DEF Restart

LEMMA CopyStep == Shape /\ CopyInv /\ [Next]_vars => CopyInv'
<1>1. ASSUME CopyInv, UNCHANGED <<store, snap, version, cause, procs>> PROVE CopyInv'
  BY <1>1 DEF CopyInv, WillRefresh, Written, InProgress, procs
<1>2. Worker \/ DayPasses \/ (\E r \in Rows : LogRow(r)) \/ UNCHANGED vars
         => UNCHANGED <<store, snap, version, cause, procs>>
  BY DEF Worker, WorkerReads, WorkerPurges, WorkerRests, DayPasses, LogRow, vars
<1> QED
  BY <1>1, <1>2, BeginCopy, SetConfigCopy, SetConfigFailsCopy, ReloadReadCopy, ReloadFailsCopy,
     ReloadPublishCopy, LaterCopy, RestartCopy DEF Next, Save

-----------------------------------------------------------------------------
(***************************************************************************)
(* IdleInv: the transport against the table.                               *)
(***************************************************************************)

\* A step in which no save takes up, writes, applies or gives up the timeout.
LEMMA IdleAside ==
    ASSUME IdleInv, UNCHANGED idle, store'[IdleKey] = store[IdleKey],
           ~cause'.idle => ~cause.idle,
           \A t \in Saves : IdleKey \in DOMAIN body'[t] =>
               IdleKey \in DOMAIN body[t] /\ body'[t] = body[t],
           ~cause'.idle => \A t \in Saves : IdlePending(t)' <=> IdlePending(t)
    PROVE  IdleInv'
<1>1. \A t \in Saves : IdlePending(t)' => IdleKey \in DOMAIN body'[t]
  BY DEF IdlePending, Written
<1> QED
  BY <1>1 DEF IdleInv

LEMMA BeginIdle == ASSUME Shape, IdleInv, NEW s \in Saves, Begin(s) PROVE IdleInv'
<1>1. pc[s] = "start" /\ UNCHANGED <<store, idle>>
  BY DEF Begin
<1>2. DOMAIN body[s] = {}
  BY <1>1 DEF Shape, HoldsBody, InProgress
<1>3. ~IdlePending(s)
  BY <1>1 DEF IdlePending, Written, InProgress
<1>4. CASE Return(s) /\ cause' = cause
  <2>1. /\ pc'[s] = "done" /\ body'[s] = <<>>
        /\ \A t \in Saves \ {s} : pc'[t] = pc[t] /\ body'[t] = body[t] /\ todo'[t] = todo[t]
    BY <1>4 DEF Shape, TypeOK, Return
  <2>2. ~IdlePending(s)'
    BY <2>1 DEF IdlePending, Written, InProgress
  <2>3. \A t \in Saves \ {s} : IdlePending(t)' <=> IdlePending(t)
    BY <2>1 DEF IdlePending, Written
  <2> QED
    BY <1>1, <1>3, <1>4, <2>1, <2>2, <2>3, EmptyBody, IdleAside
<1>5. ASSUME NEW b \in Bodies, body' = [body EXCEPT ![s] = b],
             pc' = [pc EXCEPT ![s] = "writing"], todo' = [todo EXCEPT ![s] = DOMAIN b],
             ~cause'.idle => /\ ~cause.idle
                             /\ ~(/\ IdleKey \in DOMAIN b
                                  /\ \E o \in Saves \ {s} : IdleKey \in DOMAIN body[o])
      PROVE  IdleInv'
  <2>1. /\ pc'[s] = "writing" /\ body'[s] = b /\ todo'[s] = DOMAIN b
        /\ \A t \in Saves \ {s} : pc'[t] = pc[t] /\ body'[t] = body[t] /\ todo'[t] = todo[t]
    BY <1>5 DEF Shape, TypeOK
  <2>2. ~IdlePending(s)'
    BY <2>1 DEF IdlePending, Written
  <2>3. \A t \in Saves \ {s} : IdlePending(t)' <=> IdlePending(t)
    BY <2>1 DEF IdlePending, Written
  <2> QED
    BY <1>1, <1>2, <1>3, <1>5, <2>1, <2>2, <2>3 DEF IdleInv
<1>6. \/ Return(s) /\ cause' = cause
      \/ \E b \in Bodies :
           /\ body' = [body EXCEPT ![s] = b] /\ pc' = [pc EXCEPT ![s] = "writing"]
           /\ todo' = [todo EXCEPT ![s] = DOMAIN b]
           /\ ~cause'.idle => /\ ~cause.idle
                              /\ ~(/\ IdleKey \in DOMAIN b
                                   /\ \E o \in Saves \ {s} : IdleKey \in DOMAIN body[o])
  BY DEF Begin, Shape, TypeOK
<1> QED
  BY <1>4, <1>5, <1>6

LEMMA SetConfigIdle == ASSUME Shape, IdleInv, NEW s \in Saves, SetConfig(s) PROVE IdleInv'
<1>1. pc[s] = "writing" /\ UNCHANGED <<idle, pc, body, cause>>
  BY DEF SetConfig
<1>2. PICK k \in todo[s] : /\ k \in Keys /\ k \in DOMAIN body[s]
                           /\ store' = [store EXCEPT ![k] = body[s][k]]
                           /\ todo' = [todo EXCEPT ![s] = @ \ {k}]
  BY SetConfigWrites
<1>3. todo'[s] = todo[s] \ {k} /\ \A t \in Saves \ {s} : todo'[t] = todo[t]
  BY <1>2 DEF Shape, TypeOK
<1>4. \A t \in Saves \ {s} : IdlePending(t)' <=> IdlePending(t)
  BY <1>1, <1>3 DEF IdlePending, Written
<1>5. CASE k # IdleKey
  <2>1. IdlePending(s)' <=> IdlePending(s)
    BY <1>1, <1>3, <1>5 DEF IdlePending, Written
  <2>2. store'[IdleKey] = store[IdleKey]
    BY <1>2, <1>5, SettingsValues, ConfigurationAssumption DEF Shape, TypeOK
  <2> QED
    BY <1>1, <1>4, <2>1, <2>2, IdleAside
<1>6. CASE k = IdleKey
  <2>1. IdlePending(s)'
    BY <1>1, <1>2, <1>3, <1>6 DEF IdlePending, Written, InProgress
  <2>2. store'[IdleKey] = body[s][IdleKey]
    BY <1>2, <1>6, SettingsValues, ConfigurationAssumption DEF Shape, TypeOK
  <2>3. \A t \in Saves : IdlePending(t)' => IdleKey \in DOMAIN body[t]
    BY <1>1 DEF IdlePending, Written
  <2> QED
    BY <1>1, <1>2, <1>6, <2>1, <2>2, <2>3 DEF IdleInv
<1> QED
  BY <1>5, <1>6

LEMMA SetConfigFailsIdle == ASSUME Shape, IdleInv, NEW s \in Saves, SetConfigFails(s) PROVE IdleInv'
<1>1. pc[s] = "writing" /\ UNCHANGED <<store, idle>> /\ Return(s)
  BY DEF SetConfigFails
<1>2. /\ pc'[s] = "done" /\ body'[s] = <<>>
      /\ \A t \in Saves \ {s} : pc'[t] = pc[t] /\ body'[t] = body[t] /\ todo'[t] = todo[t]
  BY <1>1 DEF Shape, TypeOK, Return
<1>3. cause'.idle = (cause.idle \/ IdleKey \in DOMAIN body[s] \ todo[s])
  BY DEF SetConfigFails, Shape, TypeOK
<1>4. ~IdlePending(s)'
  BY <1>2 DEF IdlePending, Written, InProgress
<1>5. ~cause'.idle => ~IdlePending(s)
  BY <1>1, <1>3 DEF IdlePending, Written
<1>6. \A t \in Saves \ {s} : IdlePending(t)' <=> IdlePending(t)
  BY <1>2 DEF IdlePending, Written
<1>7. \A t \in Saves : IdleKey \in DOMAIN body'[t] => IdleKey \in DOMAIN body[t] /\ body'[t] = body[t]
  BY <1>2, EmptyBody
<1>8. ~cause'.idle => ~cause.idle
  BY <1>3
<1>9. ~cause'.idle => \A t \in Saves : IdlePending(t)' <=> IdlePending(t)
  BY <1>4, <1>5, <1>6
<1> QED
  BY <1>1, <1>7, <1>8, <1>9, IdleAside

\* The refresh of the copy comes between the writes and the timeout.
LEMMA ReloadIdle ==
    ASSUME Shape, IdleInv, NEW s \in Saves, ReloadRead(s) \/ ReloadFails(s) \/ ReloadPublish(s)
    PROVE  IdleInv'
<1>1. /\ pc[s] \in {"writing", "publish"} /\ UNCHANGED <<store, idle, body, todo>>
      /\ pc' = [pc EXCEPT ![s] = "publish"] \/ pc' = [pc EXCEPT ![s] = "apply"]
  BY DEF ReloadRead, ReloadFails, ReloadPublish
<1>2. todo[s] = {}
  BY <1>1 DEF ReloadRead, ReloadFails, ReloadPublish, Shape, HoldsBody
<1>3. cause'.idle = cause.idle
  <2>1. CASE ReloadRead(s)
    BY <2>1 DEF ReloadRead
  <2>2. CASE ReloadFails(s)
    BY <2>2 DEF ReloadFails, Shape, TypeOK
  <2>3. CASE ReloadPublish(s)
    <3>1. \E o, d : cause' = [cause EXCEPT !.overtaken = o, !.dropped = d]
      BY <2>3, Zenon DEF ReloadPublish
    <3> QED
      BY <3>1 DEF Shape, TypeOK
  <2> QED
    BY <2>1, <2>2, <2>3
<1>4. pc'[s] \in {"publish", "apply"} /\ \A t \in Saves \ {s} : pc'[t] = pc[t]
  BY <1>1 DEF Shape, TypeOK
<1>5. \A t \in Saves : IdlePending(t)' <=> IdlePending(t)
  BY <1>1, <1>2, <1>4 DEF IdlePending, Written, InProgress
<1> QED
  BY <1>1, <1>3, <1>5, IdleAside

LEMMA ApplyIdleIdle == ASSUME Shape, IdleInv, NEW s \in Saves, ApplyIdle(s) PROVE IdleInv'
<1>1. /\ pc[s] = "apply" /\ pc' = [pc EXCEPT ![s] = "purge"]
      /\ idle' = IF IdleKey \in DOMAIN body[s] THEN body[s][IdleKey] ELSE idle
      /\ UNCHANGED <<store, body, cause>>
  BY DEF ApplyIdle
<1>2. pc'[s] = "purge" /\ \A t \in Saves \ {s} : pc'[t] = pc[t] /\ todo'[t] = todo[t]
  BY <1>1 DEF ApplyIdle, Shape, TypeOK
<1>3. ~IdlePending(s)' /\ \A t \in Saves \ {s} : IdlePending(t)' <=> IdlePending(t)
  BY <1>1, <1>2 DEF IdlePending, Written
<1>4. IdlePending(s) <=> IdleKey \in DOMAIN body[s]
  BY <1>1 DEF IdlePending, Written, InProgress
<1>5. CASE IdleKey \in DOMAIN body[s]
  BY <1>1, <1>3, <1>4, <1>5 DEF IdleInv
<1>6. CASE IdleKey \notin DOMAIN body[s]
  BY <1>1, <1>3, <1>4, <1>6, IdleAside
<1> QED
  BY <1>5, <1>6

\* After the timeout is applied.
LEMMA LaterIdle ==
    ASSUME Shape, IdleInv, NEW s \in Saves, PurgeSaved(s) \/ Answer(s)
    PROVE  IdleInv'
<1>1. /\ pc[s] = "purge" /\ UNCHANGED <<store, idle, cause>>
      /\ \/ pc' = pc /\ body' = body
         \/ pc' = [pc EXCEPT ![s] = "done"] /\ body' = [body EXCEPT ![s] = <<>>]
      /\ \E x : todo' = [todo EXCEPT ![s] = x]
  BY DEF PurgeSaved, Answer, Return
<1>2. /\ pc'[s] \in {"purge", "done"} /\ (body'[s] = body[s] \/ body'[s] = <<>>)
      /\ \A t \in Saves \ {s} : pc'[t] = pc[t] /\ todo'[t] = todo[t] /\ body'[t] = body[t]
  BY <1>1 DEF Shape, TypeOK
<1>3. ~IdlePending(s)' /\ ~IdlePending(s)
  BY <1>1, <1>2 DEF IdlePending, Written, InProgress
<1>4. \A t \in Saves \ {s} : IdlePending(t)' <=> IdlePending(t)
  BY <1>2 DEF IdlePending, Written
<1>5. \A t \in Saves : IdleKey \in DOMAIN body'[t] => IdleKey \in DOMAIN body[t] /\ body'[t] = body[t]
  BY <1>2, EmptyBody
<1> QED
  BY <1>1, <1>3, <1>4, <1>5, IdleAside

LEMMA RestartIdle == ASSUME Shape, IdleInv, Restart PROVE IdleInv'
<1>1. /\ \A s \in Saves : body'[s] = <<>> /\ pc'[s] \notin InProgress
      /\ store' = store /\ idle' = snap'[IdleKey]
  BY DEF Restart, InProgress
<1>2. \A s \in Saves : ~IdlePending(s)' /\ IdleKey \notin DOMAIN body'[s]
  BY <1>1, EmptyBody DEF IdlePending, Written
<1>3. CASE snap' = store
  BY <1>1, <1>2, <1>3 DEF IdleInv
<1>4. CASE cause' = [overtaken |-> FALSE, dropped |-> TRUE, idle |-> TRUE]
  <2>1. cause'.idle
    BY <1>4
  <2> QED
    BY <2>1 DEF IdleInv
<1> QED
  BY <1>3, <1>4 DEF Restart

LEMMA IdleStep == Shape /\ IdleInv /\ [Next]_vars => IdleInv'
<1>1. ASSUME IdleInv, UNCHANGED <<store, idle, cause, procs>> PROVE IdleInv'
  BY <1>1 DEF IdleInv, IdlePending, Written, procs
<1>2. Worker \/ DayPasses \/ (\E r \in Rows : LogRow(r)) \/ UNCHANGED vars
         => UNCHANGED <<store, idle, cause, procs>>
  BY DEF Worker, WorkerReads, WorkerPurges, WorkerRests, DayPasses, LogRow, vars
<1> QED
  BY <1>1, <1>2, BeginIdle, SetConfigIdle, SetConfigFailsIdle, ReloadIdle, ApplyIdleIdle,
     LaterIdle, RestartIdle DEF Next, Save

-----------------------------------------------------------------------------
(***************************************************************************)
(* ForceInv: whose number of days a purge goes by.                         *)
(***************************************************************************)

\* A step after which each row has seen at least the values it has seen.
LEMMA ForceAside ==
    ASSUME Shape, ForceInv, UNCHANGED <<store, force, age>>,
           \A s \in Saves : \A k \in Retention : Written(s, k)' => Written(s, k) /\ body'[s] = body[s],
           worker'.at = "purge" => worker'.cfg = store \/ (worker.at = "purge" /\ worker'.cfg = worker.cfg),
           \A k \in Retention : kept'[k] \subseteq kept[k]
    PROVE  ForceInv'
<1>1. \A r \in Rows : age'[r] # -1 => InForce(r)'
  <2> SUFFICES ASSUME NEW r \in Rows, age[r] # -1 PROVE InForce(r)'
    BY Zenon
  <2>1. InForce(r)
    BY DEF ForceInv
  <2>2. \A k \in Retention : store'[k] \in force'[r][k]
    BY <2>1 DEF InForce
  <2>3. ASSUME age[r] # 0, NEW s \in Saves, NEW k \in Retention, Written(s, k)'
        PROVE  body'[s][k] \in force'[r][k]
    BY <2>1, <2>3 DEF InForce
  <2>4. ASSUME age[r] # 0, worker'.at = "purge", NEW k \in Retention
        PROVE  worker'.cfg[k] \in force'[r][k]
    BY <2>1, <2>4 DEF InForce
  <2> QED
    BY <2>2, <2>3, <2>4 DEF InForce
<1>2. \A k \in Retention : \A r \in kept'[k] : age'[r] # -1
  BY DEF ForceInv
<1> QED
  BY <1>1, <1>2 DEF ForceInv

\* A step of save s that writes nothing.
LEMMA SaveForce ==
    ASSUME Shape, ForceInv, NEW s \in Saves, Save(s), ~SetConfig(s)
    PROVE  ForceInv'
<1>1. UNCHANGED <<store, force, age, worker>>
  BY DEF Save, Begin, SetConfigFails, ReloadRead, ReloadFails, ReloadPublish, ApplyIdle,
         PurgeSaved, Answer, times
<1>2. \A k \in Retention : kept'[k] \subseteq kept[k]
  <2>1. CASE PurgeSaved(s)
    <3>1. \E k, days : \/ Purge(k, days) /\ failures' = failures
                       \/ Fail /\ kept' = kept
      BY <2>1, Zenon DEF PurgeSaved
    <3> QED
      BY <3>1, PurgeTyped
  <2>2. CASE ~PurgeSaved(s)
    BY <2>2 DEF Save, Begin, SetConfigFails, ReloadRead, ReloadFails, ReloadPublish, ApplyIdle,
                Answer, times
  <2> QED
    BY <2>1, <2>2
<1>3. \A t \in Saves \ {s} : pc'[t] = pc[t] /\ body'[t] = body[t] /\ todo'[t] = todo[t]
  <2>1. /\ pc' = pc \/ \E x : pc' = [pc EXCEPT ![s] = x]
        /\ body' = body \/ \E x : body' = [body EXCEPT ![s] = x]
        /\ todo' = todo \/ \E x : todo' = [todo EXCEPT ![s] = x]
    BY Zenon DEF Save, Begin, SetConfigFails, ReloadRead, ReloadFails, ReloadPublish, ApplyIdle,
                 PurgeSaved, Answer, Return
  <2> QED
    BY <2>1 DEF Shape, TypeOK
<1>4. \A t \in Saves \ {s} : \A k \in Retention : Written(t, k)' => Written(t, k)
  BY <1>3 DEF Written
<1>5. \A k \in Retention : Written(s, k)' => Written(s, k) /\ body'[s] = body[s]
  <2>1. CASE Begin(s) \/ SetConfigFails(s) \/ Answer(s)
    <3>1. \/ pc'[s] = "done"
          \/ pc'[s] = "writing" /\ todo'[s] = DOMAIN body'[s]
      BY <2>1 DEF Begin, SetConfigFails, Answer, Return, Shape, TypeOK
    <3> QED
      BY <3>1 DEF Written, InProgress
  <2>2. CASE ReloadRead(s) \/ ReloadFails(s) \/ ReloadPublish(s) \/ ApplyIdle(s) \/ PurgeSaved(s)
    <3>1. body' = body /\ pc[s] \in InProgress /\ (pc[s] = "writing" => todo[s] = {})
      BY <2>2 DEF ReloadRead, ReloadFails, ReloadPublish, ApplyIdle, PurgeSaved, InProgress
    <3> QED
      BY <3>1 DEF Written
  <2> QED
    BY <2>1, <2>2 DEF Save
<1>6. \A t \in Saves : \A k \in Retention : Written(t, k)' => Written(t, k) /\ body'[t] = body[t]
  BY <1>3, <1>4, <1>5
<1> QED
  BY <1>1, <1>2, <1>6, ForceAside

LEMMA SetConfigForce == ASSUME Shape, ForceInv, NEW s \in Saves, SetConfig(s) PROVE ForceInv'
<1>1. pc[s] = "writing" /\ UNCHANGED <<pc, body, worker, age, kept>>
  BY DEF SetConfig
<1>2. PICK k \in todo[s] :
              /\ k \in Keys
              /\ store' = [store EXCEPT ![k] = body[s][k]]
              /\ todo' = [todo EXCEPT ![s] = @ \ {k}]
              /\ force' = [r \in Rows |-> [q \in Retention |->
                              IF q = k /\ age[r] >= 0 THEN force[r][q] \union {body[s][k]}
                                                      ELSE force[r][q]]]
  BY SetConfigWrites
<1>3. todo'[s] = todo[s] \ {k} /\ \A t \in Saves \ {s} : todo'[t] = todo[t]
  BY <1>2 DEF Shape, TypeOK
<1>4. \A t \in Saves : \A q \in Keys : Written(t, q)' => Written(t, q) \/ (t = s /\ q = k)
  BY <1>1, <1>3 DEF Written
<1>5. \A q \in Keys : store'[q] = IF q = k THEN body[s][k] ELSE store[q]
  BY <1>2, SettingsValues DEF Shape, TypeOK
<1>6. ASSUME NEW r \in Rows, age[r] # -1 PROVE InForce(r)'
  <2>1. InForce(r)
    BY <1>6 DEF ForceInv
  <2>2. age[r] >= 0
    BY <1>6 DEF Shape, TypeOK
  <2>3. \A q \in Retention : force[r][q] \subseteq force'[r][q] /\ (q = k => body[s][k] \in force'[r][q])
    BY <1>2, <2>2
  <2>4. \A q \in Retention : store'[q] \in force'[r][q]
    BY <1>5, <2>1, <2>3, RetentionIsKeys DEF InForce
  <2>5. age'[r] # 0 => \A t \in Saves : \A q \in Retention : Written(t, q)' => body'[t][q] \in force'[r][q]
    BY <1>1, <1>4, <2>1, <2>3, RetentionIsKeys DEF InForce
  <2>6. age'[r] # 0 /\ worker'.at = "purge" => \A q \in Retention : worker'.cfg[q] \in force'[r][q]
    BY <1>1, <2>1, <2>3 DEF InForce
  <2> QED
    BY <2>4, <2>5, <2>6 DEF InForce
<1> QED
  BY <1>1, <1>6 DEF ForceInv

LEMMA WorkerForce == ASSUME Shape, ForceInv, Worker PROVE ForceInv'
<1>1. UNCHANGED <<store, force, age, procs>>
  BY DEF Worker, WorkerReads, WorkerPurges, WorkerRests, times
<1>2. worker'.at = "purge" => worker'.cfg = store \/ (worker.at = "purge" /\ worker'.cfg = worker.cfg)
  BY DEF Worker, WorkerReads, WorkerPurges, WorkerRests, Resting, Shape, TypeOK
<1>3. \A k \in Retention : kept'[k] \subseteq kept[k]
  <2>1. CASE WorkerPurges
    <3>1. \E k, days : \/ Purge(k, days) /\ failures' = failures
                       \/ Fail /\ kept' = kept
      BY <2>1, Zenon DEF WorkerPurges
    <3> QED
      BY <3>1, PurgeTyped
  <2>2. CASE WorkerReads \/ WorkerRests
    BY <2>2 DEF WorkerReads, WorkerRests, times
  <2> QED
    BY <2>1, <2>2 DEF Worker
<1>4. \A s \in Saves : \A k \in Retention : Written(s, k)' => Written(s, k) /\ body'[s] = body[s]
  BY <1>1 DEF Written, procs
<1> QED
  BY <1>1, <1>2, <1>3, <1>4, ForceAside

LEMMA LogRowForce == ASSUME Shape, ForceInv, NEW r \in Rows, LogRow(r) PROVE ForceInv'
<1>1. /\ age[r] = -1 /\ age' = [age EXCEPT ![r] = 0] /\ kept' = [k \in Retention |-> kept[k] \union {r}]
      /\ force' = [force EXCEPT ![r] = [k \in Retention |-> {store[k]}]]
      /\ UNCHANGED <<store, procs, worker>>
  BY DEF LogRow
<1>2. /\ age'[r] = 0 /\ force'[r] = [k \in Retention |-> {store[k]}]
      /\ \A q \in Rows \ {r} : age'[q] = age[q] /\ force'[q] = force[q]
  BY <1>1 DEF Shape, TypeOK
<1>3. InForce(r)'
  BY <1>1, <1>2 DEF InForce
<1>4. ASSUME NEW q \in Rows \ {r}, age[q] # -1 PROVE InForce(q)'
  <2>1. InForce(q) /\ age'[q] = age[q] /\ force'[q] = force[q]
    BY <1>2, <1>4 DEF ForceInv
  <2>2. \A s \in Saves : \A k \in Retention : Written(s, k)' <=> Written(s, k)
    BY <1>1 DEF Written, procs
  <2> QED
    BY <1>1, <2>1, <2>2 DEF InForce, procs
<1>5. \A q \in Rows : age'[q] # -1 => InForce(q)'
  BY <1>2, <1>3, <1>4
<1>6. \A k \in Retention : \A q \in kept'[k] : age'[q] # -1
  BY <1>1, <1>2 DEF ForceInv, Shape, TypeOK
<1> QED
  BY <1>5, <1>6 DEF ForceInv

\* A day passes only when nobody is about to purge.
LEMMA DayPassesForce == ASSUME Shape, ForceInv, DayPasses PROVE ForceInv'
<1>1. /\ Quiet /\ worker.at = "rest"
      /\ age' = [r \in Rows |-> IF age[r] \in 0 .. Old - 1 THEN age[r] + 1 ELSE age[r]]
      /\ UNCHANGED <<store, procs, worker, kept, force>>
  BY DEF DayPasses
<1>2. \A s \in Saves : \A k \in Retention : ~Written(s, k)'
  BY <1>1 DEF Quiet, Written, procs
<1>3. \A r \in Rows : age'[r] # -1 <=> age[r] # -1
  BY <1>1, ConfigurationAssumption DEF Shape, TypeOK
<1>4. worker'.at # "purge"
  BY <1>1
<1>5. ASSUME NEW r \in Rows, age'[r] # -1 PROVE InForce(r)'
  BY <1>1, <1>2, <1>3, <1>4, <1>5 DEF InForce, ForceInv
<1>6. \A k \in Retention : \A r \in kept'[k] : age'[r] # -1
  BY <1>1, <1>3 DEF ForceInv, Shape, TypeOK
<1> QED
  BY <1>5, <1>6 DEF ForceInv

LEMMA RestartForce == ASSUME Shape, ForceInv, Restart PROVE ForceInv'
<1>1. UNCHANGED <<store, force, age, kept>> /\ worker'.at # "purge"
  BY DEF Restart, times, Resting
<1>2. \A s \in Saves : pc'[s] \notin InProgress
  BY DEF Restart, InProgress
<1>3. \A s \in Saves : \A k \in Retention : ~Written(s, k)'
  BY <1>2 DEF Written
<1> QED
  BY <1>1, <1>3, ForceAside

LEMMA ForceStep == Shape /\ ForceInv /\ [Next]_vars => ForceInv'
<1>1. Shape /\ ForceInv /\ UNCHANGED vars => ForceInv'
  BY DEF ForceInv, InForce, Written, vars, procs, times
<1>2. ASSUME Shape, ForceInv, NEW s \in Saves, Save(s) PROVE ForceInv'
  BY <1>2, SaveForce, SetConfigForce
<1> QED
  BY <1>1, <1>2, WorkerForce, LogRowForce, DayPassesForce, RestartForce DEF Next

\* A purge takes a body only past the number of days of one who purges.
LEMMA PurgeInTime ==
    ASSUME Shape, ForceInv, [Next]_vars
    PROVE  \A k \in Retention : \A r \in kept[k] \ kept'[k] : \E days \in force[r][k] : age[r] > days
<1> SUFFICES ASSUME NEW k \in Retention, NEW r \in kept[k] \ kept'[k]
             PROVE  \E days \in force[r][k] : age[r] > days
  OBVIOUS
<1>1. r \in Rows /\ age[r] # -1 /\ InForce(r) /\ age[r] \in -1 .. Old
  BY DEF Shape, TypeOK, ForceInv
<1>2. \A days \in Values[k] : days \in Nat /\ days >= 1
  BY ConfigurationAssumption
<1>3. ASSUME NEW s \in Saves, PurgeSaved(s) PROVE \E days \in force[r][k] : age[r] > days
  <2> DEFINE q == First(todo[s])
  <2>1. /\ pc[s] = "purge" /\ todo[s] # {}
        /\ \/ Purge(q, body[s][q]) /\ failures' = failures
           \/ Fail /\ kept' = kept
    BY <1>3 DEF PurgeSaved
  <2>2. todo[s] \subseteq Retention /\ todo[s] \subseteq DOMAIN body[s] /\ Valid(body[s])
    BY <2>1 DEF Shape, HoldsBody
  <2>3. q \in todo[s]
    BY <2>1, <2>2, FirstIsOneOf
  <2> HIDE DEF q
  <2>4. q = k /\ age[r] > body[s][q]
    BY <2>1, PurgeTyped
  <2>5. body[s][k] \in Values[k] /\ Written(s, k)
    BY <2>1, <2>2, <2>3, <2>4 DEF Valid, Written, InProgress
  <2>6. age[r] # 0
    BY <1>1, <1>2, <2>4, <2>5
  <2> QED
    BY <1>1, <2>4, <2>5, <2>6 DEF InForce
<1>4. ASSUME WorkerPurges PROVE \E days \in force[r][k] : age[r] > days
  <2> DEFINE q == Head(worker.todo)
  <2>1. /\ worker.at = "purge"
        /\ \/ Purge(q, worker.cfg[q]) /\ failures' = failures
           \/ Fail /\ kept' = kept
    BY <1>4 DEF WorkerPurges
  <2> HIDE DEF q
  <2>2. q = k /\ age[r] > worker.cfg[q]
    BY <2>1, PurgeTyped
  <2>3. worker.cfg[k] \in Values[k]
    BY RetentionIsKeys, SettingsValues DEF Shape, TypeOK
  <2>4. age[r] # 0
    BY <1>1, <1>2, <2>2, <2>3
  <2> QED
    BY <1>1, <2>1, <2>2, <2>4 DEF InForce
<1>5. CASE LogRow(r) \/ \E x \in Rows : LogRow(x)
  BY <1>5 DEF LogRow
<1>6. CASE kept' = kept
  BY <1>6
<1>7. DayPasses \/ Restart \/ UNCHANGED vars \/ WorkerReads \/ WorkerRests => kept' = kept
  BY DEF DayPasses, Restart, vars, times, WorkerReads, WorkerRests
<1>8. ASSUME NEW s \in Saves, Save(s), ~PurgeSaved(s) PROVE kept' = kept
  BY <1>8 DEF Save, Begin, SetConfig, SetConfigFails, ReloadRead, ReloadFails, ReloadPublish,
              ApplyIdle, Answer, times
<1> QED
  BY <1>3, <1>4, <1>5, <1>6, <1>7, <1>8 DEF Next, Worker

-----------------------------------------------------------------------------
(***************************************************************************)
(* IInv holds in every reachable state.                                    *)
(***************************************************************************)
THEOREM Invariance == Spec => []IInv
<1>1. Init => IInv
  <2> SUFFICES ASSUME Init PROVE IInv
    OBVIOUS
  <2>1. Shape
    BY InitShape
  <2>2. \A s \in Saves : pc[s] = "start" /\ body[s] = <<>>
    BY DEF Init
  <2>3. CopyInv
    BY <2>2 DEF Init, CopyInv
  <2>4. \A s \in Saves : ~IdlePending(s) /\ \A k \in Retention : ~Written(s, k)
    BY <2>2 DEF IdlePending, Written, InProgress
  <2>5. IdleInv
    BY <2>2, <2>4, EmptyBody DEF Init, IdleInv
  <2>6. ForceInv
    BY <2>4 DEF Init, ForceInv
  <2> QED
    BY <2>1, <2>3, <2>5, <2>6 DEF IInv, Shape
<1>2. IInv /\ [Next]_vars => IInv'
  BY ShapeStep, CopyStep, IdleStep, ForceStep DEF IInv, Shape
<1> QED
  BY <1>1, <1>2, PTL DEF Spec

(***************************************************************************)
(* With no save under way the proxy's copy is the table, unless a failed   *)
(* save, a failed reload or an overtaking one explains the difference.     *)
(***************************************************************************)
THEOREM CopyStaleForACause == Spec => []StaleForACause
<1>1. IInv => StaleForACause
  BY DEF IInv, CopyInv, StaleForACause, WillRefresh, Quiet, InProgress
<1> QED
  BY <1>1, Invariance, PTL

(***************************************************************************)
(* With no save under way the transport has the stored idle timeout,       *)
(* unless overlapping saves, a failed one or a failed start explain it.    *)
(***************************************************************************)
THEOREM TransportFollowsStore == Spec => []IdleFollowsStore
<1>1. IInv => IdleFollowsStore
  BY DEF IInv, IdleInv, IdleFollowsStore, IdlePending, Written, Quiet
<1> QED
  BY <1>1, Invariance, PTL

(***************************************************************************)
(* Neither a save nor the retention worker clears a body before the age    *)
(* that a setting in force in the row's lifetime allows, however saves,    *)
(* passes, failures and restarts interleave.                               *)
(***************************************************************************)
THEOREM BodiesClearedInTime == Spec => ClearedInTime
<1>1. IInv /\ [Next]_vars =>
        [\A k \in Retention : \A r \in kept[k] \ kept'[k] :
            \E days \in force[r][k] : age[r] > days]_vars
  BY PurgeInTime DEF IInv, Shape
<1> QED
  BY <1>1, Invariance, PTL DEF Spec, ClearedInTime
=============================================================================
