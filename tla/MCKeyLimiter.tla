---------------------------- MODULE MCKeyLimiter ----------------------------
(***************************************************************************)
(* KeyLimiter for model checking.                                          *)
(***************************************************************************)
EXTENDS KeyLimiter, TLC

Symmetry == Permutations(Calls)
=============================================================================
