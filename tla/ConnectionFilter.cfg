\* The smallest instance: one address, two connections.
CONSTANTS
    Conns = {c1}
    NoConn = NoConn
    MaxConnections = 2
SPECIFICATION Spec
INVARIANT FilterObjectsAreValid
\* MaxConnections stops the rest.
CHECK_DEADLOCK FALSE
