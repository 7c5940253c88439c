------------------------- MODULE MCCircuitBreaker ---------------------------
(***************************************************************************)
(* Values of the constants of CircuitBreaker for model checking.  The      *)
(* arguments of Configure include ones the code must ignore (0).           *)
(***************************************************************************)
EXTENDS CircuitBreaker

MCThresholds == {0, 30}
MCDurations  == {0, 1, 3}
=============================================================================
