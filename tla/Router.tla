------------------------------- MODULE Router -------------------------------
(***************************************************************************)
(* Choosing a provider (internal/proxy/router.go), as operators on sets of *)
(* candidates.  The lookup of the candidates and the two filters ask about *)
(* one candidate at a time, and are steps of the module that has snapshot  *)
(* and breakers; the rest of Route is below.  (TopGroupAscending is wrong  *)
(* on purpose.)                                                            *)
(***************************************************************************)
EXTENDS RoutingSnapshot

TopGroupAscending(candidates) ==
    {c \in candidates : \A d \in candidates : d.priority >= c.priority}

TopGroup(candidates) ==
    {c \in candidates : \A d \in candidates : d.priority <= c.priority}

\* The candidates the weighted random choice can return.  The set is empty
\* when the router answers ErrNoAvailableProvider.
SelectWeightedPriority(candidates) ==
    {c \in TopGroup(candidates) : c.weight > 0}
=============================================================================
