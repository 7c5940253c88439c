--------------------------- MODULE CircuitBreaker ---------------------------
(***************************************************************************)
(* One provider's circuit breaker (internal/proxy/circuit.go) under any    *)
(* sequence of the calls the router makes on it: Configure and Allow from  *)
(* Route, Configure and RecordSuccess/RecordFailure from the reports of    *)
(* request handlers and of the health checker.  The mutex makes each call  *)
(* one step; the calls of different goroutines interleave in every order,  *)
(* and any of them may come late, when the breaker is already in a         *)
(* different state.                                                        *)
(*                                                                         *)
(* failed, succeeded, serial, narrowest, trippedAt and recoveredAt are     *)
(* history: the program does not keep them, the properties refer to them.  *)
(***************************************************************************)
EXTENDS Breaker

CONSTANTS
    DefaultThreshold, DefaultWindow, DefaultCooldown, \* NewCircuitBreaker's 0.5, 60s, 30s
    Thresholds, Durations,                            \* arguments given to Configure
    MaxTime, MaxReports                               \* bounds of the model

ASSUME BreakerConstants ==
    /\ DefaultThreshold \in 1..100
    /\ DefaultWindow \in Nat \ {0}
    /\ DefaultCooldown \in Nat \ {0}
    /\ Thresholds \subseteq Int
    /\ Durations \subseteq Int
    /\ MaxTime \in Nat
    /\ MaxReports \in Nat

VARIABLES
    cb,          \* the breaker
    now,         \* the clock
    failed,      \* every failure ever reported
    succeeded,   \* every success ever reported
    serial,      \* number of reports so far
    narrowest,   \* smallest window configured so far
    trippedAt,   \* when the breaker last went to Open
    recoveredAt  \* serial number of the report that last closed the breaker

breakerVars == <<cb, now, failed, succeeded, serial, narrowest, trippedAt, recoveredAt>>

BreakerTypeOK ==
    /\ cb \in CircuitBreakerType
    /\ now \in Nat
    /\ failed \in SUBSET Outcome
    /\ succeeded \in SUBSET Outcome
    /\ serial \in Nat
    /\ narrowest \in Nat \ {0}
    /\ trippedAt \in Nat
    /\ recoveredAt \in Nat

BreakerInit ==
    /\ cb = NewCircuitBreaker(0, DefaultThreshold, DefaultWindow, DefaultCooldown)
    /\ now = 0
    /\ failed = {}
    /\ succeeded = {}
    /\ serial = 0
    /\ narrowest = DefaultWindow
    /\ trippedAt = 0
    /\ recoveredAt = 0
-----------------------------------------------------------------------------
Tick ==
    /\ now < MaxTime
    /\ now' = now + 1
    /\ UNCHANGED <<cb, failed, succeeded, serial, narrowest, trippedAt, recoveredAt>>

Configure(threshold, window, cooldown) ==
    /\ cb' = ConfigureBreaker(cb, threshold, window, cooldown)
    /\ narrowest' = IF cb'.windowSize < narrowest THEN cb'.windowSize ELSE narrowest
    /\ UNCHANGED <<now, failed, succeeded, serial, trippedAt, recoveredAt>>

Ask ==
    /\ cb' = AfterAllow(cb, now)
    /\ UNCHANGED <<now, failed, succeeded, serial, narrowest, trippedAt, recoveredAt>>

ReportSuccess ==
    /\ serial < MaxReports
    /\ cb' = RecordSuccess(cb, now, serial)
    /\ serial' = serial + 1
    /\ succeeded' = succeeded \cup {[id |-> serial, at |-> now]}
    /\ recoveredAt' = IF cb.state # "Closed" /\ cb'.state = "Closed" THEN serial
                                                                    ELSE recoveredAt
    /\ UNCHANGED <<now, failed, narrowest, trippedAt>>

ReportFailure ==
    /\ serial < MaxReports
    /\ cb' = RecordFailure(cb, now, serial)
    /\ serial' = serial + 1
    /\ failed' = failed \cup {[id |-> serial, at |-> now]}
    /\ trippedAt' = IF cb.state # "Open" /\ cb'.state = "Open" THEN now ELSE trippedAt
    /\ UNCHANGED <<now, succeeded, narrowest, recoveredAt>>

BreakerNext ==
    \/ Tick
    \/ \E t \in Thresholds, w \in Durations, c \in Durations : Configure(t, w, c)
    \/ Ask
    \/ ReportSuccess
    \/ ReportFailure

BreakerSpec == BreakerInit /\ [][BreakerNext]_breakerVars

\* Time passes, and requests for the provider keep arriving.
BreakerFairSpec == BreakerSpec /\ WF_breakerVars(Tick) /\ WF_breakerVars(Ask)
-----------------------------------------------------------------------------
AboveThreshold(f, s) == 100 * f > cb.errorThreshold * (f + s)

(***************************************************************************)
(* A breaker trips from Closed only on evidence: counting every failure    *)
(* ever reported inside the window, against every success reported inside  *)
(* the narrowest window the breaker has been configured with, the error    *)
(* rate is above the threshold.  Pruning, the clearing of failures on      *)
(* recovery and reconfiguration never make up a trip; while the window is  *)
(* not reconfigured this is the true error rate of the sliding window.     *)
(* (RecordFailure, prune.)                                                 *)
(***************************************************************************)
TripJustified ==
    [][ cb.state = "Closed" /\ cb'.state = "Open" =>
          AboveThreshold(Cardinality(Within(failed', now, cb.windowSize)),
                         Cardinality(Within(succeeded, now, narrowest))) ]_breakerVars

(***************************************************************************)
(* An Open breaker is left only for HalfOpen, and only once the cooldown   *)
(* has passed since the failure that opened it, whatever late results are  *)
(* reported meanwhile: a late success never closes it.  (Allow,            *)
(* RecordSuccess.)                                                         *)
(***************************************************************************)
CooldownHeld ==
    [][ cb.state = "Open" /\ cb'.state # "Open" =>
          /\ cb'.state = "HalfOpen"
          /\ now - trippedAt >= cb.cooldownPeriod ]_breakerVars

(***************************************************************************)
(* Nor is the cooldown stretched: failures reported late, while the        *)
(* breaker is Open, do not restart it, and the next request after it is    *)
(* admitted.  (Allow, RecordFailure's switch without a case for Open.)     *)
(***************************************************************************)
OpenNoLongerThanCooldown ==
    cb.state = "Open" /\ now - trippedAt >= cb.cooldownPeriod => Allow(cb, now)

(***************************************************************************)
(* A recovered breaker starts from a clean slate: none of the failures     *)
(* counted by a Closed breaker was reported before the success that closed *)
(* it, so those cannot trip it again.  (RecordSuccess.)                    *)
(***************************************************************************)
CleanSlate ==
    cb.state = "Closed" => \A o \in cb.failures : o.id >= recoveredAt

(***************************************************************************)
(* No provider is shut out for good: an Open breaker goes to HalfOpen once *)
(* the cooldown passes and a request asks.  Stated for breakers that open  *)
(* early enough for the longest cooldown to pass before MaxTime.           *)
(***************************************************************************)
LongestCooldown ==
    CHOOSE d \in Durations \cup {DefaultCooldown} :
        \A e \in Durations \cup {DefaultCooldown} : e <= d

EventuallyProbed ==
    (cb.state = "Open" /\ trippedAt + LongestCooldown <= MaxTime)
        ~> cb.state = "HalfOpen"
-----------------------------------------------------------------------------
(***************************************************************************)
(* The inductive invariant behind the properties above.                    *)
(***************************************************************************)
HistoryKept ==
    /\ cb.failures \subseteq failed
    /\ Within(succeeded, now, narrowest) \subseteq cb.successes
    /\ narrowest <= cb.windowSize
    /\ IsFiniteSet(failed) /\ IsFiniteSet(succeeded)
    /\ cb.successes \subseteq succeeded

BreakerInv ==
    /\ BreakerTypeOK
    /\ HistoryKept
    /\ cb.state = "Open" => cb.lastStateChange = trippedAt
    /\ recoveredAt <= serial
    /\ CleanSlate
=============================================================================
