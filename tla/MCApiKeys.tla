----------------------------- MODULE MCApiKeys ------------------------------
(***************************************************************************)
(* ApiKeys for model checking.                                             *)
(***************************************************************************)
EXTENDS ApiKeys, TLC

Symmetry == Permutations(Admins) \cup Permutations(Ids) \cup Permutations(Names)
=============================================================================
