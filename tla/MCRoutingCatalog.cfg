SPECIFICATION FairSpec
CONSTANTS
    r1 = r1
    r2 = r2
    Requests = {r1, r2}
    AdminOps <- AnyNextToDelete
    Probes = {p1}
    MaxFlips = 1
    MaxReloadFailures = 1
INVARIANTS
    IInv
    QuiescentFresh
PROPERTIES
    ImplementsEventualCopy
    EventuallyFresh
CHECK_DEADLOCK FALSE
