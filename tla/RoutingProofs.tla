--------------------------- MODULE RoutingProofs ----------------------------
(***************************************************************************)
(* Proofs about what the router decides by: its breakers, and the catalog  *)
(* of its routes.                                                          *)
(***************************************************************************)
EXTENDS CircuitBreaker, RoutingCatalog, FiniteSetTheorems, TLAPS

-----------------------------------------------------------------------------
(***************************************************************************)
(* CircuitBreaker, for every threshold, window, cooldown and bound: the    *)
(* inductive invariant BreakerInv, and from it the properties that         *)
(* MCCircuitBreaker checks on a small instance.                            *)
(***************************************************************************)

(***************************************************************************)
(* More failures against no more successes: if the smaller failure count   *)
(* and the larger success count are above the threshold, so are the        *)
(* others.                                                                 *)
(***************************************************************************)
LEMMA RateMonotone ==
    ASSUME NEW f \in Nat, NEW s \in Nat, NEW F \in Nat, NEW S \in Nat,
           NEW t \in 1..100, f <= F, S <= s, RateExceeds(f, s, t)
    PROVE  RateExceeds(F, S, t)
<1>1. (100 - t) * f > t * s
  BY DEF RateExceeds
<1>2. (100 - t) * F >= (100 - t) * f
  <2>1. F = f + (F - f) /\ F - f \in Nat /\ 100 - t \in Nat
    OBVIOUS
  <2> DEFINE d == F - f
             k == 100 - t
  <2>2. k * d \in Nat
    BY <2>1
  <2>3. k * (f + d) = k * f + k * d
    BY <2>1
  <2> QED
    BY <2>1, <2>2, <2>3
<1>3. t * s >= t * S
  <2> DEFINE d == s - S
  <2>1. s = S + d /\ d \in Nat
    OBVIOUS
  <2>2. t * d \in Nat
    BY <2>1
  <2>3. t * (S + d) = t * S + t * d
    BY <2>1
  <2> QED
    BY <2>1, <2>2, <2>3
<1>4. (100 - t) * F > t * S
  <2>1. (100 - t) * F \in Int /\ t * S \in Int /\ (100 - t) * f \in Int /\ t * s \in Int
    OBVIOUS
  <2> QED
    BY <1>1, <1>2, <1>3, <2>1
<1>5. 100 * F > t * (F + S)
  <2>1. (100 - t) * F = 100 * F - t * F
    OBVIOUS
  <2>2. t * (F + S) = t * F + t * S
    OBVIOUS
  <2>3. 100 * F \in Int /\ t * F \in Int /\ t * S \in Int
    OBVIOUS
  <2> QED
    BY <1>4, <2>1, <2>2, <2>3
<1>6. F + S > 0
  BY <1>4
<1> QED
  BY <1>5, <1>6 DEF RateExceeds

(***************************************************************************)
(* What each method returns.                                               *)
(***************************************************************************)
LEMMA ConfigureFacts ==
    ASSUME NEW c \in CircuitBreakerType, NEW t \in Int, NEW w \in Int, NEW d \in Int
    PROVE  LET r == ConfigureBreaker(c, t, w, d)
           IN  /\ r \in CircuitBreakerType
               /\ r.state = c.state /\ r.lastStateChange = c.lastStateChange
               /\ r.failures = c.failures /\ r.successes = c.successes
<1> DEFINE t1 == IF t \in 1..100 THEN t ELSE c.errorThreshold
           w1 == IF w > 0 THEN w ELSE c.windowSize
           d1 == IF d > 0 THEN d ELSE c.cooldownPeriod
<1>1. t1 \in 1..100 /\ w1 \in Nat \ {0} /\ d1 \in Nat \ {0}
  BY DEF CircuitBreakerType
<1>2. ConfigureBreaker(c, t, w, d) =
        [c EXCEPT !.errorThreshold = t1, !.windowSize = w1, !.cooldownPeriod = d1]
  BY DEF ConfigureBreaker
<1> HIDE DEF t1, w1, d1
<1> QED
  BY <1>1, <1>2 DEF CircuitBreakerType

LEMMA AfterAllowFacts ==
    ASSUME NEW c \in CircuitBreakerType, NEW n \in Nat
    PROVE  LET r == AfterAllow(c, n)
           IN  /\ r \in CircuitBreakerType
               /\ r.failures = c.failures /\ r.successes = c.successes
               /\ r.windowSize = c.windowSize
               /\ \/ r = c
                  \/ c.state = "Open" /\ r.state = "HalfOpen" /\ CooledDown(c, n)
BY DEF AfterAllow, CircuitBreakerType, States

LEMMA PruneFacts ==
    ASSUME NEW c \in CircuitBreakerType, NEW n \in Nat
    PROVE  LET r == Prune(c, n)
           IN  /\ r \in CircuitBreakerType
               /\ r.failures = Within(c.failures, n, c.windowSize)
               /\ r.successes = Within(c.successes, n, c.windowSize)
               /\ r.state = c.state /\ r.lastStateChange = c.lastStateChange
               /\ r.windowSize = c.windowSize /\ r.errorThreshold = c.errorThreshold
               /\ r.cooldownPeriod = c.cooldownPeriod
BY DEF Prune, CircuitBreakerType, Within

LEMMA RecordSuccessFacts ==
    ASSUME NEW c \in CircuitBreakerType, NEW n \in Nat, NEW i \in Nat
    PROVE  LET r == RecordSuccess(c, n, i)
           IN  /\ r \in CircuitBreakerType
               /\ r.failures \subseteq c.failures
               /\ r.successes = Within(c.successes, n, c.windowSize) \cup {[id |-> i, at |-> n]}
               /\ r.windowSize = c.windowSize
               /\ \/ c.state = "HalfOpen" /\ r.state = "Closed" /\ r.failures = {}
                  \/ /\ c.state # "HalfOpen"
                     /\ r.state = c.state /\ r.lastStateChange = c.lastStateChange
<1> DEFINE o == [id |-> i, at |-> n]
           p == Prune(c, n)
           k == [p EXCEPT !.successes = @ \cup {o}]
<1>1. p \in CircuitBreakerType /\ p.failures \subseteq c.failures
      /\ p.successes = Within(c.successes, n, c.windowSize)
      /\ p.state = c.state /\ p.lastStateChange = c.lastStateChange
      /\ p.windowSize = c.windowSize
  BY PruneFacts DEF Within
<1> HIDE DEF p
<1>2. o \in Outcome
  BY DEF Outcome
<1>3. k \in CircuitBreakerType /\ k.failures = p.failures
      /\ k.successes = p.successes \cup {o}
      /\ k.state = p.state /\ k.lastStateChange = p.lastStateChange
      /\ k.windowSize = p.windowSize
  BY <1>1, <1>2 DEF CircuitBreakerType
<1> HIDE DEF k
<1>4. CASE c.state = "HalfOpen"
  <2>1. RecordSuccess(c, n, i) = CloseBreaker(k, n)
    BY <1>4 DEF RecordSuccess, k, p
  <2> QED
    BY <1>1, <1>3, <1>4, <2>1 DEF CloseBreaker, CircuitBreakerType, States
<1>5. CASE c.state # "HalfOpen"
  <2>1. RecordSuccess(c, n, i) = k
    BY <1>5 DEF RecordSuccess, k, p
  <2> QED
    BY <1>1, <1>3, <1>5, <2>1
<1> QED
  BY <1>4, <1>5

LEMMA RecordFailureFacts ==
    ASSUME NEW c \in CircuitBreakerType, NEW n \in Nat, NEW i \in Nat
    PROVE  LET r == RecordFailure(c, n, i)
           IN  /\ r \in CircuitBreakerType
               /\ r.failures = Within(c.failures, n, c.windowSize) \cup {[id |-> i, at |-> n]}
               /\ r.successes = Within(c.successes, n, c.windowSize)
               /\ r.windowSize = c.windowSize
               /\ \/ r.state = c.state /\ r.lastStateChange = c.lastStateChange
                  \/ c.state # "Open" /\ r.state = "Open" /\ r.lastStateChange = n
               /\ c.state = "Closed" /\ r.state = "Open" =>
                     RateExceeds(Cardinality(r.failures), Cardinality(r.successes),
                                 c.errorThreshold)
<1> DEFINE o == [id |-> i, at |-> n]
           p == Prune(c, n)
           k == [p EXCEPT !.failures = @ \cup {o}]
<1>1. p \in CircuitBreakerType
      /\ p.failures = Within(c.failures, n, c.windowSize)
      /\ p.successes = Within(c.successes, n, c.windowSize)
      /\ p.state = c.state /\ p.lastStateChange = c.lastStateChange
      /\ p.windowSize = c.windowSize /\ p.errorThreshold = c.errorThreshold
  BY PruneFacts
<1> HIDE DEF p
<1>2. o \in Outcome
  BY DEF Outcome
<1>3. k \in CircuitBreakerType /\ k.successes = p.successes
      /\ k.failures = p.failures \cup {o}
      /\ k.state = p.state /\ k.lastStateChange = p.lastStateChange
      /\ k.windowSize = p.windowSize /\ k.errorThreshold = p.errorThreshold
  BY <1>1, <1>2 DEF CircuitBreakerType
<1> HIDE DEF k
<1>4. CASE Trips(k)
  <2>1. RecordFailure(c, n, i) = OpenBreaker(k, n)
    BY <1>4 DEF RecordFailure, k, p
  <2>2. k.state # "Open"
    BY <1>4 DEF Trips
  <2>3. k.state = "Closed" => RateExceeds(Cardinality(k.failures),
                                Cardinality(k.successes), k.errorThreshold)
    BY <1>4 DEF Trips
  <2> QED
    BY <1>1, <1>3, <2>1, <2>2, <2>3 DEF OpenBreaker, CircuitBreakerType, States
<1>5. CASE ~Trips(k)
  <2>1. RecordFailure(c, n, i) = k
    BY <1>5 DEF RecordFailure, k, p
  <2> QED
    BY <1>1, <1>3, <2>1
<1> QED
  BY <1>4, <1>5
-----------------------------------------------------------------------------
(***************************************************************************)
(* The history is kept: what the breaker has pruned is outside every       *)
(* window it has been configured with.                                     *)
(***************************************************************************)
LEMMA BreakerInitInv == BreakerInit => BreakerInv
<1> SUFFICES ASSUME BreakerInit PROVE BreakerInv
  OBVIOUS
<1>1. cb \in CircuitBreakerType /\ cb.state = "Closed" /\ cb.failures = {}
      /\ cb.successes = {} /\ cb.windowSize = DefaultWindow
  BY BreakerConstants DEF BreakerInit, NewCircuitBreaker, CircuitBreakerType, States
<1>2. IsFiniteSet({})
  BY FS_EmptySet
<1> QED
  BY <1>1, <1>2, BreakerConstants
  DEF BreakerInit, BreakerInv, BreakerTypeOK, HistoryKept, CleanSlate, Within

LEMMA TickIInv == BreakerInv /\ Tick => BreakerInv'
BY DEF BreakerInv, BreakerTypeOK, HistoryKept, CleanSlate, Within, Tick, Outcome, CircuitBreakerType

LEMMA ConfigureIInv ==
    ASSUME NEW t \in Int, NEW w \in Int, NEW d \in Int, BreakerInv, Configure(t, w, d)
    PROVE  BreakerInv'
<1>1. cb' \in CircuitBreakerType /\ cb'.state = cb.state
      /\ cb'.lastStateChange = cb.lastStateChange
      /\ cb'.failures = cb.failures /\ cb'.successes = cb.successes
  BY ConfigureFacts DEF BreakerInv, BreakerTypeOK, Configure
<1>2. narrowest' \in Nat \ {0} /\ narrowest' <= cb'.windowSize /\ narrowest' <= narrowest
  BY <1>1 DEF BreakerInv, BreakerTypeOK, Configure, CircuitBreakerType
<1>3. Within(succeeded, now, narrowest') \subseteq Within(succeeded, now, narrowest)
  BY <1>2 DEF BreakerInv, BreakerTypeOK, Within, Outcome
<1> QED
  BY <1>1, <1>2, <1>3 DEF BreakerInv, BreakerTypeOK, HistoryKept, CleanSlate, Configure

LEMMA AskIInv == BreakerInv /\ Ask => BreakerInv'
<1> SUFFICES ASSUME BreakerInv, Ask PROVE BreakerInv'
  OBVIOUS
<1>1. /\ cb' \in CircuitBreakerType
      /\ cb'.failures = cb.failures /\ cb'.successes = cb.successes
      /\ cb'.windowSize = cb.windowSize
      /\ cb' = cb \/ cb'.state = "HalfOpen"
  BY AfterAllowFacts DEF BreakerInv, BreakerTypeOK, Ask
<1> QED
  BY <1>1 DEF BreakerInv, BreakerTypeOK, HistoryKept, CleanSlate, Ask

LEMMA SuccessIInv == BreakerInv /\ ReportSuccess => BreakerInv'
<1> SUFFICES ASSUME BreakerInv, ReportSuccess PROVE BreakerInv'
  OBVIOUS
<1> DEFINE o == [id |-> serial, at |-> now]
<1>1. /\ cb' \in CircuitBreakerType
      /\ cb'.failures \subseteq cb.failures
      /\ cb'.successes = Within(cb.successes, now, cb.windowSize) \cup {o}
      /\ cb'.windowSize = cb.windowSize
      /\ \/ cb.state = "HalfOpen" /\ cb'.state = "Closed" /\ cb'.failures = {}
         \/ /\ cb.state # "HalfOpen"
            /\ cb'.state = cb.state /\ cb'.lastStateChange = cb.lastStateChange
  BY RecordSuccessFacts DEF BreakerInv, BreakerTypeOK, ReportSuccess
<1>2. o \in Outcome
  BY DEF BreakerInv, BreakerTypeOK, Outcome
<1>3. BreakerTypeOK'
  BY <1>1, <1>2 DEF BreakerInv, BreakerTypeOK, ReportSuccess
<1>4. HistoryKept'
  <2>1. IsFiniteSet(succeeded')
    BY FS_AddElement DEF BreakerInv, HistoryKept, ReportSuccess
  <2>2. Within(succeeded', now, narrowest) \subseteq
          Within(cb.successes, now, cb.windowSize) \cup {o}
    <3> SUFFICES ASSUME NEW x \in succeeded, x.at > now - narrowest
                 PROVE  x \in cb.successes /\ x.at > now - cb.windowSize
      BY DEF Within, ReportSuccess
    <3>1. x \in cb.successes
      BY DEF BreakerInv, HistoryKept, Within
    <3>2. x.at > now - cb.windowSize
      BY DEF BreakerInv, BreakerTypeOK, HistoryKept, Outcome, CircuitBreakerType
    <3> QED
      BY <3>1, <3>2
  <2> QED
    BY <1>1, <2>1, <2>2 DEF BreakerInv, HistoryKept, ReportSuccess, Within
<1>5. CleanSlate' /\ recoveredAt' <= serial'
  BY <1>1 DEF BreakerInv, BreakerTypeOK, CleanSlate, ReportSuccess
<1> QED
  BY <1>1, <1>3, <1>4, <1>5 DEF BreakerInv, ReportSuccess

LEMMA FailureIInv == BreakerInv /\ ReportFailure => BreakerInv'
<1> SUFFICES ASSUME BreakerInv, ReportFailure PROVE BreakerInv'
  OBVIOUS
<1> DEFINE o == [id |-> serial, at |-> now]
<1>1. /\ cb' \in CircuitBreakerType
      /\ cb'.failures = Within(cb.failures, now, cb.windowSize) \cup {o}
      /\ cb'.successes = Within(cb.successes, now, cb.windowSize)
      /\ cb'.windowSize = cb.windowSize
      /\ \/ cb'.state = cb.state /\ cb'.lastStateChange = cb.lastStateChange
         \/ cb.state # "Open" /\ cb'.state = "Open" /\ cb'.lastStateChange = now
  <2>1. cb \in CircuitBreakerType /\ now \in Nat /\ serial \in Nat
    BY DEF BreakerInv, BreakerTypeOK
  <2>2. cb' = RecordFailure(cb, now, serial)
    BY DEF ReportFailure
  <2> QED
    BY <2>1, <2>2, RecordFailureFacts
<1>2. o \in Outcome
  BY DEF BreakerInv, BreakerTypeOK, Outcome
<1>3. BreakerTypeOK'
  BY <1>1, <1>2 DEF BreakerInv, BreakerTypeOK, ReportFailure
<1>4. HistoryKept'
  <2>1. IsFiniteSet(failed')
    BY FS_AddElement DEF BreakerInv, HistoryKept, ReportFailure
  <2>2. Within(succeeded, now, narrowest) \subseteq Within(cb.successes, now, cb.windowSize)
    <3> SUFFICES ASSUME NEW x \in succeeded, x.at > now - narrowest
                 PROVE  x \in cb.successes /\ x.at > now - cb.windowSize
      BY DEF Within
    <3>1. x \in cb.successes
      BY DEF BreakerInv, HistoryKept, Within
    <3>2. x.at > now - cb.windowSize
      BY DEF BreakerInv, BreakerTypeOK, HistoryKept, Outcome, CircuitBreakerType
    <3> QED
      BY <3>1, <3>2
  <2> QED
    BY <1>1, <2>1, <2>2 DEF BreakerInv, HistoryKept, ReportFailure, Within
<1>5. CleanSlate' /\ recoveredAt' <= serial'
  <2>1. recoveredAt' = recoveredAt /\ serial' = serial + 1 /\ recoveredAt <= serial
    BY DEF BreakerInv, ReportFailure
  <2>2. ASSUME cb'.state = "Closed", NEW x \in cb'.failures PROVE x.id >= recoveredAt
    <3>1. cb.state = "Closed"
      BY <1>1, <2>2
    <3>2. CASE x \in cb.failures
      BY <3>1, <3>2 DEF BreakerInv, CleanSlate
    <3>3. CASE x = o
      BY <2>1, <3>3 DEF BreakerInv, BreakerTypeOK
    <3> QED
      BY <1>1, <2>2, <3>2, <3>3 DEF Within
  <2> QED
    BY <2>1, <2>2 DEF BreakerInv, BreakerTypeOK, CleanSlate
<1>6. cb'.state = "Open" => cb'.lastStateChange = trippedAt'
  BY <1>1 DEF BreakerInv, ReportFailure
<1> QED
  BY <1>3, <1>4, <1>5, <1>6 DEF BreakerInv

(***************************************************************************)
(* BreakerInv is an invariant of the breaker.                              *)
(***************************************************************************)
THEOREM BreakerInvariance == BreakerSpec => []BreakerInv
<1>1. BreakerInv /\ [BreakerNext]_breakerVars => BreakerInv'
  <2> SUFFICES ASSUME BreakerInv, [BreakerNext]_breakerVars PROVE BreakerInv'
    OBVIOUS
  <2>1. CASE Tick
    BY <2>1, TickIInv
  <2>2. ASSUME NEW t \in Thresholds, NEW w \in Durations, NEW d \in Durations,
               Configure(t, w, d)
        PROVE  BreakerInv'
    BY <2>2, ConfigureIInv, BreakerConstants
  <2>3. CASE Ask
    BY <2>3, AskIInv
  <2>4. CASE ReportSuccess
    BY <2>4, SuccessIInv
  <2>5. CASE ReportFailure
    BY <2>5, FailureIInv
  <2>6. CASE UNCHANGED breakerVars
    BY <2>6 DEF BreakerInv, BreakerTypeOK, HistoryKept, CleanSlate, breakerVars
  <2> QED
    BY <2>1, <2>2, <2>3, <2>4, <2>5, <2>6 DEF BreakerNext
<1> QED
  BY BreakerInitInv, <1>1, PTL DEF BreakerSpec

(***************************************************************************)
(* A recovered breaker starts from a clean slate.                          *)
(***************************************************************************)
THEOREM CleanSlateHolds == BreakerSpec => []CleanSlate
<1>1. BreakerInv => CleanSlate
  BY DEF BreakerInv
<1> QED
  BY BreakerInvariance, <1>1, PTL

(***************************************************************************)
(* Late failures never stretch the cooldown.                               *)
(***************************************************************************)
THEOREM CooldownNotStretched == BreakerSpec => []OpenNoLongerThanCooldown
<1>1. BreakerInv => OpenNoLongerThanCooldown
  BY DEF BreakerInv, OpenNoLongerThanCooldown, Allow, CooledDown
<1> QED
  BY BreakerInvariance, <1>1, PTL

(***************************************************************************)
(* An Open breaker is left only for HalfOpen and only after the cooldown.  *)
(***************************************************************************)
THEOREM CooldownHolds == BreakerSpec => CooldownHeld
<1> DEFINE A == cb.state = "Open" /\ cb'.state # "Open" =>
                  cb'.state = "HalfOpen" /\ now - trippedAt >= cb.cooldownPeriod
<1>1. BreakerInv /\ [BreakerNext]_breakerVars => [A]_breakerVars
  <2> SUFFICES ASSUME BreakerInv, BreakerNext, cb.state = "Open", cb'.state # "Open"
               PROVE  cb'.state = "HalfOpen" /\ now - trippedAt >= cb.cooldownPeriod
    OBVIOUS
  <2>1. CASE Tick
    BY <2>1 DEF Tick
  <2>2. ASSUME NEW t \in Thresholds, NEW w \in Durations, NEW d \in Durations,
               Configure(t, w, d)
        PROVE  FALSE
    BY <2>2, ConfigureFacts, BreakerConstants DEF Configure, BreakerInv, BreakerTypeOK
  <2>3. CASE Ask
    BY <2>3, AfterAllowFacts DEF Ask, BreakerInv, BreakerTypeOK, CooledDown
  <2>4. CASE ReportSuccess
    <3>1. cb \in CircuitBreakerType /\ now \in Nat /\ serial \in Nat
      BY DEF BreakerInv, BreakerTypeOK
    <3>2. cb' = RecordSuccess(cb, now, serial)
      BY <2>4 DEF ReportSuccess
    <3>3. \/ cb.state = "HalfOpen"
          \/ RecordSuccess(cb, now, serial).state = cb.state
      BY <3>1, RecordSuccessFacts
    <3> QED
      BY <3>2, <3>3
  <2>5. CASE ReportFailure
    BY <2>5, RecordFailureFacts DEF ReportFailure, BreakerInv, BreakerTypeOK
  <2> QED
    BY <2>1, <2>2, <2>3, <2>4, <2>5 DEF BreakerNext
<1> QED
  BY BreakerInvariance, <1>1, PTL DEF BreakerSpec, CooldownHeld

(***************************************************************************)
(* Every trip is justified by the reports: what the breaker counts as      *)
(* failures are reported failures inside the window, and it counts every   *)
(* success inside the narrowest window, so the rate it computes is at most *)
(* the rate of the history.                                                *)
(***************************************************************************)
THEOREM TripsAreJustified == BreakerSpec => TripJustified
<1> DEFINE F == Within(failed', now, cb.windowSize)
           S == Within(succeeded, now, narrowest)
           A == cb.state = "Closed" /\ cb'.state = "Open" =>
                  AboveThreshold(Cardinality(F), Cardinality(S))
<1>1. BreakerInv /\ [BreakerNext]_breakerVars => [A]_breakerVars
  <2> SUFFICES ASSUME BreakerInv, BreakerNext, cb.state = "Closed", cb'.state = "Open"
               PROVE  AboveThreshold(Cardinality(F), Cardinality(S))
    OBVIOUS
  <2>1. CASE ReportFailure
    <3>1. /\ cb'.failures = Within(cb.failures, now, cb.windowSize)
                                \cup {[id |-> serial, at |-> now]}
          /\ cb'.successes = Within(cb.successes, now, cb.windowSize)
          /\ cb'.windowSize = cb.windowSize
          /\ RateExceeds(Cardinality(cb'.failures), Cardinality(cb'.successes),
                         cb.errorThreshold)
      BY <2>1, RecordFailureFacts DEF ReportFailure, BreakerInv, BreakerTypeOK
    <3>2. BreakerInv'
      BY <2>1, FailureIInv
    <3>3. cb'.failures \subseteq F
      <4>1. now > now - cb.windowSize
        BY DEF BreakerInv, BreakerTypeOK, CircuitBreakerType
      <4> QED
        BY <2>1, <3>1, <4>1 DEF BreakerInv, HistoryKept, Within, ReportFailure
    <3>4. S \subseteq cb'.successes
      BY <2>1, <3>2 DEF BreakerInv, HistoryKept, ReportFailure
    <3>5. IsFiniteSet(F) /\ IsFiniteSet(cb'.successes)
      <4>1. F \subseteq failed' /\ cb'.successes \subseteq succeeded'
        BY <3>2 DEF BreakerInv, HistoryKept, Within
      <4>2. IsFiniteSet(failed') /\ IsFiniteSet(succeeded')
        BY <3>2 DEF BreakerInv, HistoryKept
      <4> QED
        BY <4>1, <4>2, FS_Subset
    <3>6. /\ Cardinality(cb'.failures) \in Nat /\ Cardinality(F) \in Nat
          /\ Cardinality(cb'.failures) <= Cardinality(F)
      BY <3>3, <3>5, FS_Subset, FS_CardinalityType
    <3>7. /\ Cardinality(cb'.successes) \in Nat /\ Cardinality(S) \in Nat
          /\ Cardinality(S) <= Cardinality(cb'.successes)
      BY <3>4, <3>5, FS_Subset, FS_CardinalityType
    <3>8. cb.errorThreshold \in 1..100
      BY DEF BreakerInv, BreakerTypeOK, CircuitBreakerType
    <3> HIDE DEF F, S
    <3>9. RateExceeds(Cardinality(F), Cardinality(S), cb.errorThreshold)
      BY <3>1, <3>6, <3>7, <3>8, RateMonotone
    <3> QED
      BY <3>9 DEF RateExceeds, AboveThreshold
  <2>2. CASE Tick
    BY <2>2 DEF Tick
  <2>3. ASSUME NEW t \in Thresholds, NEW w \in Durations, NEW d \in Durations,
               Configure(t, w, d)
        PROVE  FALSE
    BY <2>3, ConfigureFacts, BreakerConstants DEF Configure, BreakerInv, BreakerTypeOK
  <2>4. CASE Ask
    BY <2>4, AfterAllowFacts DEF Ask, BreakerInv, BreakerTypeOK
  <2>5. CASE ReportSuccess
    BY <2>5, RecordSuccessFacts DEF ReportSuccess, BreakerInv, BreakerTypeOK
  <2> QED
    BY <2>1, <2>2, <2>3, <2>4, <2>5 DEF BreakerNext
<1> QED
  BY BreakerInvariance, <1>1, PTL DEF BreakerSpec, TripJustified

-----------------------------------------------------------------------------
(***************************************************************************)
(* RoutingCatalog, for any number of concurrent requests and probes and any*)
(* bounds: the inductive invariant IInv, from it that no change is lost    *)
(* (QuiescentFresh), and that the catalog implements EventualCopy.         *)
(***************************************************************************)

LEMMA InitIInv == Init => IInv
<1> SUFFICES ASSUME Init PROVE IInv
  OBVIOUS
<1>1. TypeOK
  <2>1. store \in [Tables -> Nat] /\ snapshot \in [Tables -> Nat] /\ loaded \in [Tables -> Nat]
    BY DEF Init
  <2>2. worker \in {"idle", "loading", "stopped"} /\ read \in 0..4 /\ dirty \in SUBSET Actors
    BY DEF Init
  <2>3. op \in [Actors -> Handlers \cup {"none", "done"}] /\ step \in [Actors -> Nat]
    BY DEF Init
  <2>4. flips \in Nat /\ reloadFailures \in Nat
    BY DEF Init
  <2>5. reloadCh \in BOOLEAN /\ missed \in BOOLEAN /\ hasProviders \in BOOLEAN
    BY Zenon DEF Init
  <2> QED
    BY <2>1, <2>2, <2>3, <2>4, <2>5, Zenon DEF TypeOK
<1>2. UpToDate /\ NotAhead
  BY DEF Init, UpToDate, NotAhead, Done
<1> QED
  BY <1>1, <1>2 DEF IInv

(***************************************************************************)
(* The positions in which LoadRoutingData reads the four tables.           *)
(***************************************************************************)
LEMMA PositionFacts ==
    /\ \A t \in Tables : Position[t] \in 1..4
    /\ \A t, u \in Tables : Position[t] = Position[u] => t = u
BY DEF Position, Tables

(***************************************************************************)
(* Steps of the writers leave the worker alone, only move the store        *)
(* forward, and leave whatever they change announced.                      *)
(***************************************************************************)
LEMMA WriterStep ==
    ASSUME IInv, TypeOK', UNCHANGED workerVars,
           \A t \in Tables : store'[t] >= store[t],
           Announced' \/ (~Announced /\ store' = store)
    PROVE  IInv'
<1>1. UpToDate'
  BY DEF IInv, UpToDate, Done, workerVars
<1>2. NotAhead'
  BY DEF IInv, TypeOK, NotAhead, Done, workerVars
<1> QED
  BY <1>1, <1>2 DEF IInv

LEMMA CommitFacts ==
    ASSUME TypeOK, NEW a \in Actors, Commit(a)
    PROVE  /\ store' \in [Tables -> Nat]
           /\ \A t \in Tables : store'[t] >= store[t]
           /\ dirty' \in SUBSET Actors
           /\ \/ dirty' # {}
              \/ store' = store /\ dirty' = dirty
           /\ flips' \in Nat
           /\ hasProviders' \in BOOLEAN
<1>1. PICK changed \in BOOLEAN :
         /\ store' = IF changed
                     THEN [t \in Tables |-> store[t] +
                             (IF t \in Writes[op[a]][step[a]] THEN 1 ELSE 0)]
                     ELSE store
         /\ dirty' = IF changed THEN dirty \cup {a} ELSE dirty
         /\ flips' = IF op[a] = "updateHealth" /\ changed THEN flips + 1 ELSE flips
  BY DEF Commit
<1>2. flips' \in Nat
  BY <1>1 DEF TypeOK
<1>3. hasProviders' \in BOOLEAN
  BY DEF Commit, TypeOK
<1>4. CASE changed
  <2>1. store' = [t \in Tables |-> store[t] +
                             (IF t \in Writes[op[a]][step[a]] THEN 1 ELSE 0)]
        /\ dirty' = dirty \cup {a}
    BY <1>1, <1>4
  <2>2. \A t \in Tables : store'[t] \in Nat /\ store'[t] >= store[t]
    BY <2>1 DEF TypeOK
  <2> QED
    BY <1>2, <1>3, <2>1, <2>2 DEF TypeOK
<1>5. CASE ~changed
  BY <1>1, <1>2, <1>3, <1>5 DEF TypeOK
<1> QED
  BY <1>4, <1>5

LEMMA CommitIInv == ASSUME NEW a \in Actors, IInv, Commit(a) PROVE IInv'
<1>1. TypeOK /\ UNCHANGED workerVars
  BY DEF IInv, Commit
<1>2. /\ store' \in [Tables -> Nat]
      /\ \A t \in Tables : store'[t] >= store[t]
      /\ dirty' \in SUBSET Actors
      /\ dirty' # {} \/ (store' = store /\ dirty' = dirty)
      /\ flips' \in Nat
      /\ hasProviders' \in BOOLEAN
  BY <1>1, CommitFacts
<1>3. TypeOK'
  BY <1>1, <1>2 DEF TypeOK, Commit, workerVars
<1>4. Announced' \/ (~Announced /\ store' = store)
  BY <1>2 DEF Announced, Commit
<1> QED
  BY <1>1, <1>2, <1>3, <1>4, WriterStep

LEMMA GiveUpIInv == ASSUME NEW a \in Actors, IInv, GiveUp(a) PROVE IInv'
<1>1. TypeOK'
  BY DEF IInv, TypeOK, GiveUp, Finish, workerVars
<1>2. UNCHANGED workerVars /\ store' = store
  BY DEF GiveUp, Finish
<1>3. Announced' \/ ~Announced
  BY DEF Announced, GiveUp, Finish
<1> QED
  BY <1>1, <1>2, <1>3, WriterStep DEF IInv, TypeOK

LEMMA NotifyIInv == ASSUME NEW a \in Actors, IInv, Notify(a) PROVE IInv'
<1>1. TypeOK'
  BY DEF IInv, TypeOK, Notify, ReloadAsync, Finish, workerVars
<1>2. UNCHANGED workerVars /\ store' = store /\ Announced'
  BY DEF Notify, ReloadAsync, Finish, Announced
<1> QED
  BY <1>1, <1>2, WriterStep DEF IInv, TypeOK

(***************************************************************************)
(* The remaining writer steps change neither the store nor what is         *)
(* announced.                                                              *)
(***************************************************************************)
LEMMA QuietIInv ==
    ASSUME IInv,
           \/ \E r \in Requests : \E h \in AdminOps[r] : StartRequest(r, h)
           \/ \E p \in Probes : StartProbe(p)
           \/ \E p \in Actors : ProbeWriteFails(p)
    PROVE  IInv'
<1>1. UNCHANGED <<store, dirty, flips, hasProviders, reloadCh, missed>>
      /\ UNCHANGED workerVars
  BY DEF StartRequest, StartProbe, ProbeWriteFails
<1>2. op' \in [Actors -> Handlers \cup {"none", "done"}] /\ step' \in [Actors -> Nat]
  <2>1. CASE \E r \in Requests : \E h \in AdminOps[r] : StartRequest(r, h)
    BY <2>1, AdminOpsAreHandlers DEF IInv, TypeOK, StartRequest, Actors
  <2>2. CASE \E p \in Probes : StartProbe(p)
    BY <2>2 DEF IInv, TypeOK, StartProbe, Actors, Handlers, Writes
  <2>3. CASE \E p \in Actors : ProbeWriteFails(p)
    BY <2>3 DEF IInv, TypeOK, ProbeWriteFails
  <2> QED
    BY <2>1, <2>2, <2>3
<1>3. TypeOK'
  BY <1>1, <1>2 DEF IInv, TypeOK, workerVars
<1>4. Announced' = Announced
  BY <1>1 DEF Announced
<1> QED
  BY <1>1, <1>3, <1>4, WriterStep DEF IInv, TypeOK

LEMMA ReloadBeginIInv == IInv /\ ReloadBegin => IInv'
<1> SUFFICES ASSUME IInv, ReloadBegin PROVE IInv'
  OBVIOUS
<1>1. TypeOK'
  <2>1. worker' \in {"idle", "loading", "stopped"} /\ read' \in 0..4
    BY DEF ReloadBegin
  <2>2. reloadCh' \in BOOLEAN /\ missed' \in BOOLEAN
    BY Zenon DEF ReloadBegin
  <2>3. UNCHANGED <<snapshot, loaded, reloadFailures>> /\ UNCHANGED actorVars
    BY DEF ReloadBegin
  <2> QED
    BY <2>1, <2>2, <2>3 DEF IInv, TypeOK, actorVars
<1>2. \A t \in Tables : ~Done(t)'
  <2>1. \A t \in Tables : Position[t]' = Position[t] /\ ~(Position[t] <= 0)
    BY PositionFacts DEF Position, Tables
  <2> QED
    BY <2>1 DEF Done, ReloadBegin
<1> QED
  BY <1>1, <1>2 DEF IInv, UpToDate, NotAhead, ReloadBegin, actorVars

LEMMA LoadTableIInv == ASSUME NEW u \in Tables, IInv, LoadTable(u) PROVE IInv'
<1>1. /\ worker = "loading" /\ Position[u] = read + 1
      /\ loaded' = [loaded EXCEPT ![u] = store[u]] /\ read' = read + 1
      /\ UNCHANGED <<snapshot, worker, reloadFailures, reloadCh, missed>>
      /\ UNCHANGED actorVars
  BY DEF LoadTable, QueryTable
<1>2. TypeOK'
  BY <1>1, PositionFacts DEF IInv, TypeOK, actorVars
<1>3. \A t \in Tables : Done(t)' => t = u \/ Done(t)
  BY <1>1, PositionFacts DEF Done, IInv, TypeOK
<1>4. \A t \in Tables : t # u => loaded'[t] = loaded[t]
  BY <1>1 DEF IInv, TypeOK
<1>5. loaded'[u] = store[u]
  BY <1>1 DEF IInv, TypeOK
<1>6. UpToDate'
  BY <1>1, <1>3, <1>4, <1>5 DEF IInv, UpToDate, Announced, actorVars
<1>7. NotAhead'
  BY <1>1, <1>3, <1>4, <1>5 DEF IInv, TypeOK, NotAhead, actorVars
<1> QED
  BY <1>2, <1>6, <1>7 DEF IInv

LEMMA ReloadFailsIInv == IInv /\ ReloadFails => IInv'
<1> SUFFICES ASSUME IInv, ReloadFails PROVE IInv'
  OBVIOUS
<1>1. TypeOK'
  BY DEF IInv, TypeOK, ReloadFails, actorVars
<1>2. Announced' /\ \A t \in Tables : ~Done(t)'
  BY DEF ReloadFails, Announced, Done
<1> QED
  BY <1>1, <1>2 DEF IInv, UpToDate, NotAhead, ReloadFails, actorVars

LEMMA InstallIInv == IInv /\ Install => IInv'
<1> SUFFICES ASSUME IInv, Install PROVE IInv'
  OBVIOUS
<1>1. TypeOK'
  BY DEF IInv, TypeOK, Install, Publish, actorVars
<1>2. \A t \in Tables : Done(t)
  BY PositionFacts DEF Done, Install
<1>3. worker' = "idle" /\ snapshot' = loaded /\ store' = store /\ Announced' = Announced
  BY DEF Install, Publish, actorVars, Announced
<1>4. UpToDate'
  BY <1>2, <1>3 DEF IInv, UpToDate, Install
<1>5. NotAhead'
  BY <1>2, <1>3 DEF IInv, NotAhead, Done
<1> QED
  BY <1>1, <1>4, <1>5 DEF IInv

LEMMA StopIInv == IInv /\ Stop => IInv'
<1> SUFFICES ASSUME IInv, Stop PROVE IInv'
  OBVIOUS
<1>1. TypeOK'
  BY DEF IInv, TypeOK, Stop, actorVars
<1> QED
  BY <1>1 DEF IInv, UpToDate, NotAhead, Done, Stop, actorVars

(***************************************************************************)
(* IInv is inductive.                                                      *)
(***************************************************************************)
LEMMA NextIInv == IInv /\ [Next]_vars => IInv'
<1> SUFFICES ASSUME IInv, [Next]_vars PROVE IInv'
  OBVIOUS
<1>1. CASE UNCHANGED vars
  BY <1>1 DEF IInv, TypeOK, UpToDate, NotAhead, Announced, Done, vars
<1>2. ASSUME NEW a \in Actors, Proceed(a) PROVE IInv'
  BY <1>2, CommitIInv, GiveUpIInv, NotifyIInv, QuietIInv DEF Proceed
<1>3. CASE Work
  BY <1>3, ReloadBeginIInv, LoadTableIInv, InstallIInv DEF Work
<1> QED
  BY <1>1, <1>2, <1>3, QuietIInv, ReloadFailsIInv, StopIInv DEF Next

(***************************************************************************)
(* IInv, and with it the type invariant, holds in every reachable state.   *)
(***************************************************************************)
THEOREM Invariance == Spec => []IInv
BY InitIInv, NextIInv, PTL DEF Spec

(***************************************************************************)
(* No change is lost between the writers and the worker, however many      *)
(* writers there are and however their steps interleave with the four      *)
(* queries of a reload.                                                    *)
(***************************************************************************)
THEOREM NoChangeLost == Spec => []QuiescentFresh
<1>1. IInv => QuiescentFresh
  BY DEF IInv, TypeOK, UpToDate, QuiescentFresh
<1> QED
  BY Invariance, <1>1, PTL

(***************************************************************************)
(* The catalog implements EventualCopy: what a reload publishes was in the *)
(* database, and no table of the snapshot goes back in time.               *)
(***************************************************************************)
THEOREM Refinement == Spec => ImplementsEventualCopy
<1>1. Init => Copy!Init
  BY DEF Init, Copy!Init, Copy!Versions
<1>2. IInv /\ [Next]_vars => [Copy!Next]_<<store, snapshot>>
  <2> SUFFICES ASSUME IInv, [Next]_vars, IInv'
               PROVE  [Copy!Next]_<<store, snapshot>>
    BY NextIInv
  <2>1. TypeOK /\ TypeOK'
    BY DEF IInv
  <2>2. ASSUME NEW a \in Actors, Commit(a) PROVE Copy!Write
    BY <2>1, <2>2, CommitFacts DEF Copy!Write, Copy!Versions, Commit, workerVars
  <2>3. CASE Install
    <3>1. \A t \in Tables : Done(t)
      BY <2>3, PositionFacts DEF Done, Install
    <3>2. \A t \in Tables : snapshot[t] <= loaded[t] /\ loaded[t] <= store[t]
      BY <3>1 DEF IInv, NotAhead
    <3> QED
      BY <2>1, <2>3, <3>2
      DEF Copy!Next, Copy!Refresh, Copy!Versions, Install, Publish, actorVars, TypeOK
  <2>4. CASE UNCHANGED <<store, snapshot>>
    BY <2>4
  <2>5. ASSUME NEW a \in Actors, Proceed(a) PROVE [Copy!Next]_<<store, snapshot>>
    BY <2>2, <2>4, <2>5
    DEF Proceed, GiveUp, ProbeWriteFails, Notify, Finish, workerVars, Copy!Next
  <2>6. CASE Work
    BY <2>3, <2>4, <2>6 DEF Work, ReloadBegin, LoadTable, actorVars
  <2> QED
    BY <2>4, <2>5, <2>6
    DEF Next, vars, StartRequest, StartProbe, ReloadFails, Stop, workerVars, actorVars
<1> QED
  BY <1>1, <1>2, Invariance, PTL DEF Spec, ImplementsEventualCopy, Copy!Spec
=============================================================================
