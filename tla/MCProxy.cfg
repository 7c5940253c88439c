SPECIFICATION FairSpec
CONSTANTS
    r1 = r1
    r2 = r2
    Requests = {r1, r2}
    p1 = p1
    p2 = p2
    Providers = {p1, p2}
    Names = {"m", "n"}
    RequestedModel = "m"
    EndpointPath = "chat"
    Threshold = 50
    Window = 2
    Cooldown = 1
    MaxProxyAttempts = 3
    Scenarios <- AllScenarios
    MaxTime = 1
INVARIANTS
    TypeOK
    Settled
    OnlySeveredStreamsTrip
PROPERTIES
    OpenKeepsAway
    NoFailoverOnceAnswered
    SentWhereRoutable
    
    EveryRequestEnds
CHECK_DEADLOCK FALSE
