------------------------------- MODULE Breaker -------------------------------
(***************************************************************************)
(* The circuit breaker of internal/proxy/circuit.go as operators on a      *)
(* record: what each method makes of the breaker, given the time.  Every   *)
(* method runs under the breaker's mutex, so each is one step of whoever   *)
(* composes this module.                                                   *)
(*                                                                         *)
(* Time is counted in ticks.  The slices of timestamps are sets of         *)
(* outcomes [id, at]; the id keeps two outcomes of one tick apart.  Only   *)
(* the sizes of the slices and the age of their elements matter to the     *)
(* code.  The error threshold, a float64 in (0,1], is a percentage.        *)
(***************************************************************************)
EXTENDS Integers, FiniteSets

States  == {"Closed", "Open", "HalfOpen"}
Outcome == [id : Nat, at : Nat]
CircuitBreakerType ==
    [state : States, failures : SUBSET Outcome, successes : SUBSET Outcome,
     lastStateChange : Nat, errorThreshold : 1..100,
     windowSize : Nat \ {0}, cooldownPeriod : Nat \ {0}]

NewCircuitBreaker(now, threshold, window, cooldown) ==
    [state |-> "Closed", failures |-> {}, successes |-> {},
     lastStateChange |-> now, errorThreshold |-> threshold,
     windowSize |-> window, cooldownPeriod |-> cooldown]

Within(outcomes, now, window) == {o \in outcomes : o.at > now - window}
-----------------------------------------------------------------------------
(***************************************************************************)
(* Wrong variants of the definitions below, each a plausible slip in the   *)
(* Go code.  They are used only to see that the properties notice.         *)
(***************************************************************************)
PruneSuccessesOnly(cb, now) ==
    [cb EXCEPT !.successes = Within(@, now, cb.windowSize)]

CooldownIgnored(cb, now) == TRUE

AllowLeavesOpen(cb, now) == cb

CloseKeepsFailures(cb, now) ==
    [cb EXCEPT !.state = "Closed", !.lastStateChange = now]

RateAtLeast(f, s, threshold) == f + s > 0 /\ 100 * f >= threshold * (f + s)

TripsUnlessClosed(cb) == cb.state # "Closed" \/ cb.successes = {}
-----------------------------------------------------------------------------
\* Each setting is taken only when it is valid; the others keep their value.
ConfigureBreaker(cb, threshold, window, cooldown) ==
    [cb EXCEPT !.errorThreshold = IF threshold \in 1..100 THEN threshold ELSE @,
               !.windowSize     = IF window > 0 THEN window ELSE @,
               !.cooldownPeriod = IF cooldown > 0 THEN cooldown ELSE @]

Prune(cb, now) ==
    [cb EXCEPT !.failures  = Within(@, now, cb.windowSize),
               !.successes = Within(@, now, cb.windowSize)]

CooledDown(cb, now) == now - cb.lastStateChange >= cb.cooldownPeriod

\* The result of Allow, and the breaker it leaves behind.
Allow(cb, now) == cb.state # "Open" \/ CooledDown(cb, now)

AfterAllow(cb, now) ==
    IF cb.state = "Open" /\ CooledDown(cb, now)
    THEN [cb EXCEPT !.state = "HalfOpen", !.lastStateChange = now]
    ELSE cb

CloseBreaker(cb, now) ==
    [cb EXCEPT !.state = "Closed", !.failures = {}, !.lastStateChange = now]

RecordSuccess(cb, now, id) ==
    LET kept == [Prune(cb, now) EXCEPT !.successes = @ \cup {[id |-> id, at |-> now]}]
    IN  IF cb.state = "HalfOpen" THEN CloseBreaker(kept, now) ELSE kept

RateExceeds(f, s, threshold) == f + s > 0 /\ 100 * f > threshold * (f + s)

OpenBreaker(cb, now) == [cb EXCEPT !.state = "Open", !.lastStateChange = now]

Trips(cb) ==
    \/ cb.state = "HalfOpen"
    \/ /\ cb.state = "Closed"
       /\ RateExceeds(Cardinality(cb.failures), Cardinality(cb.successes),
                      cb.errorThreshold)

RecordFailure(cb, now, id) ==
    LET kept == [Prune(cb, now) EXCEPT !.failures = @ \cup {[id |-> id, at |-> now]}]
    IN  IF Trips(kept) THEN OpenBreaker(kept, now) ELSE kept
=============================================================================
