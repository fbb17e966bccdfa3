\* Two sockets, two requests for two files or for route handlers, three nested calls;
\* no symmetry, under fairness.
CONSTANTS
    Conns = {c1, c2}
    NoConn = NoConn
    Paths = {index, about}
    NoEntry = NoEntry
    MaxRequests = 2
    MaxDepth = 3
    CarefulClose = TRUE
SPECIFICATION FPFairSpec
INVARIANTS
    FPTypeOK
    EntryLeadsToItsRequest
    SomebodyCanAnswer
PROPERTIES
    AnsweredFromCache
    ParkedIsResolved
    FileImplementsLifecycle
\* The process may terminate, and MaxRequests and MaxDepth stop the rest.
CHECK_DEADLOCK FALSE
