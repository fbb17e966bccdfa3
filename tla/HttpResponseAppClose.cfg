\* The smallest instance: one socket, one request. protocol.close() may be called
\* while a response has no abort handler.
CONSTANTS
    Conns = {c1}
    NoConn = NoConn
    MaxRequests = 1
    MaxDepth = 2
    CarefulClose = FALSE
SPECIFICATION Spec
INVARIANT ValidUntilAbortedOrEnded
\* The process may terminate, and MaxRequests and MaxDepth stop the rest.
CHECK_DEADLOCK FALSE
