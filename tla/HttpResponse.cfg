\* Two sockets, three requests, three nested calls into JavaScript.
CONSTANTS
    Conns = {c1, c2}
    NoConn = NoConn
    MaxRequests = 3
    MaxDepth = 3
    CarefulClose = TRUE
SPECIFICATION Spec
SYMMETRY SocketSymmetry
INVARIANTS
    TypeOK
    ObjectLeadsToItsRequest
    ValidUntilAbortedOrEnded
    PendingIsGuarded
    AbortReported
    RequestObjectOnStack
PROPERTIES
    ImplementsLifecycle
    PointerTakenOnlyBySettling
\* The process may terminate, and MaxRequests and MaxDepth stop the rest.
CHECK_DEADLOCK FALSE
