\* Pages of two rows, hours of two ticks, days of two hours.
SPECIFICATION FairSpec
CONSTANTS
    Logs <- AllLogs
    At <- Made
    Attr <- Attributes
    Names = {"a", "b"}
    Latency <- Took
    Nothing = Nothing
    Failed = {"slow", "new"}
    Earlier = {"old", "mid", "new"}
    Hour = 2
    HoursPerDay = 2
    Retention = 7
    Page = 2
    Start = 7
    End = 11
    MaxErrors = 1
INVARIANTS NoneMissed SurplusBounded ReadersAgree
PROPERTY BackfillEnds
CHECK_DEADLOCK FALSE
