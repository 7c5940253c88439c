SPECIFICATION Spec
CONSTANTS
    plain = plain
    other = other
    short = short
    long = long
    Requests <- MCRequests
    Chunks <- MCChunks
    BufferSize = 4
    MaxWriteErrors = 0
INVARIANTS
    EveryRequestLogged
CHECK_DEADLOCK FALSE
