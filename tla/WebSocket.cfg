\* Two addresses, three WebSockets, one topic, six nested calls; no symmetry, under
\* fairness.
CONSTANTS
    Conns = {c1, c2}
    NoConn = NoConn
    Topics = {news}
    MaxSockets = 3
    MaxDepth = 6
SPECIFICATION FairSpec
INVARIANTS
    TypeOK
    ObjectLeadsToItsSocket
    ValidWhileOpen
    GivenUpIsBeingClosed
    CloseIsReported
PROPERTIES
    NothingAfterClose
    ImplementsSocketLifecycle
