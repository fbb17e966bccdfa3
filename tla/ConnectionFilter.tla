--------------------------- MODULE ConnectionFilter ---------------------------
(***************************************************************************)
(* The function given to protocol.filter: it is called as a socket         *)
(* connects and as it disconnects, each time with a new response object    *)
(* that leads to the socket.  JavaScript keeps the objects and only reads  *)
(* through them; requests on the socket have objects of their own, which   *)
(* are HttpResponse's.                                                     *)
(***************************************************************************)
EXTENDS Naturals

CONSTANTS
    Conns,          \* addresses of native sockets
    NoConn,         \* no socket
    MaxConnections  \* bound: connections in a behaviour

Connections  == 1 .. MaxConnections
NoConnection == 0

VARIABLES
    connection,     \* the connection at each address
    connected,      \* number of connections so far
    filterObjects,  \* response objects, with the address in their internal field
                    \* and the connection they were made for
    filtering,      \* the socket whose filter is on the stack
    leaving         \* whether that socket disconnects

vars == <<connection, connected, filterObjects, filtering, leaving>>

Init ==
    /\ connection = [c \in Conns |-> NoConnection]
    /\ connected = 0
    /\ filterObjects = {}
    /\ filtering = NoConn
    /\ leaving = FALSE

(* The function that is given to the library: it makes the object and calls   *)
(* JavaScript.                                                                *)
Filter(c, k, leaves) ==
    /\ filtering = NoConn
    /\ filterObjects' = filterObjects \union {[address |-> c, connection |-> k]}
    /\ filtering' = c
    /\ leaving' = leaves

(* An address may have served an earlier connection. *)
Connects(c) ==
    /\ connection[c] = NoConnection
    /\ connected < MaxConnections
    /\ connected' = connected + 1
    /\ connection' = [connection EXCEPT ![c] = connected + 1]
    /\ Filter(c, connected + 1, FALSE)

Disconnects(c) ==
    /\ connection[c] # NoConnection
    /\ Filter(c, connection[c], TRUE)
    /\ UNCHANGED <<connection, connected>>

(* Back from JavaScript nothing happens to the object; the library frees a      *)
(* socket that disconnects.                                                    *)
FilterReturns ==
    /\ filtering # NoConn
    /\ filtering' = NoConn
    /\ leaving' = FALSE
    /\ connection' = IF leaving THEN [connection EXCEPT ![filtering] = NoConnection]
                     ELSE connection
    /\ UNCHANGED <<connected, filterObjects>>

Next ==
    \/ \E c \in Conns : Connects(c) \/ Disconnects(c)
    \/ FilterReturns

Spec == Init /\ [][Next]_vars

\* docs/index.d.ts:111 "An HttpResponse is valid until either onAborted callback or
\* any of the .end/.tryEnd calls succeed": the object of a filter, which sees neither,
\* leads to the connection it was made for.  (uWS_Proto_filter)
FilterObjectsAreValid ==
    \A o \in filterObjects : connection[o.address] = o.connection
===============================================================================
