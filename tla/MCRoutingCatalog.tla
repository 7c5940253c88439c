------------------------- MODULE MCRoutingCatalog ---------------------------
(***************************************************************************)
(* RoutingCatalog for model checking: one handler of each shape (what it   *)
(* writes, whether it reads back, whether its write always changes a row), *)
(* next to a request that deletes a provider and a health check that       *)
(* changes its mind.                                                       *)
(***************************************************************************)
EXTENDS RoutingCatalog

CONSTANTS r1, r2

OneOpPerShape == {"createProvider", "deleteAlias", "updateProviderModel",
                  "addProviderModel", "confirm"}

AnyNextToDelete == [r \in {r1, r2} |-> IF r = r1 THEN OneOpPerShape
                                               ELSE {"deleteProvider"}]
=============================================================================
