\* Two saves, one log row, one failing statement and one restart anywhere.
SPECIFICATION FairSpec
CONSTANTS
    Saves = {s1, s2}
    Keys = {"http_idle_conn_timeout_seconds", "streaming_log_body_retention_days"}
    Values <- Allowed
    Default <- Defaults
    IdleKey = "http_idle_conn_timeout_seconds"
    RetentionKeys <- InOrder
    Stored <- AtStart
    Bodies <- SomeBodies
    Rows = {r1}
    Old = 3
    MaxFailures = 1
    MaxRestarts = 1
INVARIANTS StaleForACause IdleFollowsStore
PROPERTIES ClearedInTime EventuallyCleared
