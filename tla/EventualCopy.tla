---------------------------- MODULE EventualCopy ----------------------------
(***************************************************************************)
(* What an in-memory copy of database content promises: every item of the  *)
(* copy is a version the source really had, and it never goes back to an   *)
(* older one.  Items are copied independently, so a copy may mix versions. *)
(***************************************************************************)
EXTENDS Naturals

CONSTANT Items
VARIABLES source, copy      \* version of each item

Versions == [Items -> Nat]

Init == source \in Versions /\ copy = source

Write ==
    /\ source' \in Versions
    /\ \A i \in Items : source'[i] >= source[i]
    /\ UNCHANGED copy

Refresh ==
    /\ copy' \in Versions
    /\ \A i \in Items : copy[i] <= copy'[i] /\ copy'[i] <= source[i]
    /\ UNCHANGED source

Next == Write \/ Refresh

Spec == Init /\ [][Next]_<<source, copy>>
=============================================================================
