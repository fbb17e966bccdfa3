\* One socket, one request.
CONSTANTS
    Conns = {c1}
    NoConn = NoConn
    Paths = {index}
    NoEntry = NoEntry
    MaxRequests = 1
    MaxDepth = 1
    CarefulClose = TRUE
SPECIFICATION FPSpec
INVARIANT AbortedResultIsCached
CHECK_DEADLOCK FALSE
