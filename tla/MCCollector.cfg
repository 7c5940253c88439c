SPECIFICATION FairSpec
CONSTANTS
    plain = plain
    other = other
    short = short
    long = long
    Requests <- MCRequests
    Chunks <- MCChunks
    BufferSize = 2
    MaxWriteErrors = 2
INVARIANTS
    Conserved
    RowsInOrder
    StoreOutlivesWorker
    PanicOnlyAfterTimeout
PROPERTIES
    SignalEndsProcess
CHECK_DEADLOCK FALSE
