--------------------------- MODULE RequestLifecycle ---------------------------
(***************************************************************************)
(* What the wrapper promises about a request, whoever answers it: a        *)
(* request that arrived is settled at most once, in one way; at most one   *)
(* request at a time waits on a connection; and a handle (a JavaScript     *)
(* response object whose pointer is not null) exists exactly as long as    *)
(* the request waits, so that no call made through it can reach another    *)
(* request of the same connection.                                         *)
(***************************************************************************)
EXTENDS Naturals

CONSTANTS
    Conns,      \* connections (addresses of native sockets)
    Requests,   \* identities of requests
    MayAbandon  \* whether a holder may give its handle up with nothing settled

NoRequest == 0  \* not a member of Requests

VARIABLES
    current,    \* the request that waits on each connection
    phase,      \* how far each request has come
    handles     \* the requests somebody still holds a handle on

vars == <<current, phase, handles>>

\* How the holder of the handle may settle a request.
BySettling == {"answered", "upgraded", "closed"}

Init ==
    /\ current = [c \in Conns |-> NoRequest]
    /\ phase   = [r \in Requests |-> "none"]
    /\ handles = {}

Arrive(c, r) ==
    /\ current[c] = NoRequest
    /\ phase[r] = "none"
    /\ current' = [current EXCEPT ![c] = r]
    /\ phase'   = [phase EXCEPT ![r] = "waiting"]
    /\ handles' = handles \union {r}

(* A request that is answered as it arrives; nobody ever holds a handle. *)
AnswerAtOnce(c, r) ==
    /\ current[c] = NoRequest
    /\ phase[r] = "none"
    /\ phase' = [phase EXCEPT ![r] = "answered"]
    /\ UNCHANGED <<current, handles>>

(* The holder settles the request: the handle is gone afterwards. *)
Settle(c, how) ==
    /\ current[c] \in handles
    /\ current' = [current EXCEPT ![c] = NoRequest]
    /\ phase'   = [phase EXCEPT ![current[c]] = how]
    /\ handles' = handles \ {current[c]}

(* The connection goes away: the handle is taken from its holder. *)
Abort(c) ==
    /\ current[c] # NoRequest
    /\ current' = [current EXCEPT ![c] = NoRequest]
    /\ phase'   = [phase EXCEPT ![current[c]] = "aborted"]
    /\ handles' = handles \ {current[c]}

(* The holder gives the handle up; only the end of the connection is left. *)
Abandon(r) ==
    /\ MayAbandon
    /\ r \in handles
    /\ handles' = handles \ {r}
    /\ UNCHANGED <<current, phase>>

Next ==
    \/ \E c \in Conns :
        \/ \E r \in Requests : Arrive(c, r) \/ AnswerAtOnce(c, r)
        \/ \E how \in BySettling : Settle(c, how)
        \/ Abort(c)
    \/ \E r \in Requests : Abandon(r)

Spec == Init /\ [][Next]_vars
===============================================================================
