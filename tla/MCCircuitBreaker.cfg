SPECIFICATION BreakerFairSpec
CONSTANTS
    DefaultThreshold = 50
    DefaultWindow = 2
    DefaultCooldown = 2
    Thresholds <- MCThresholds
    Durations <- MCDurations
    MaxTime = 5
    MaxReports = 4
INVARIANTS
    OpenNoLongerThanCooldown
    CleanSlate
PROPERTIES
    TripJustified
    CooldownHeld
    EventuallyProbed
