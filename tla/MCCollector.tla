---------------------------- MODULE MCCollector -----------------------------
(***************************************************************************)
(* Collector for model checking: two plain requests and two streams, with  *)
(* one and two recorded chunks.                                            *)
(***************************************************************************)
EXTENDS Collector

CONSTANTS plain, other, short, long
MCRequests == {plain, other, short, long}
MCChunks == [r \in MCRequests |-> CASE r = short -> 1 [] r = long -> 2 [] OTHER -> 0]
=============================================================================
