---------------------------- MODULE HttpConnection ----------------------------
(***************************************************************************)
(* The native side the wrapper talks to: sockets that carry one HTTP       *)
(* exchange after the other (keep-alive), and the one event loop thread    *)
(* that calls into JavaScript.                                             *)
(*                                                                         *)
(* A native uWS::HttpResponse IS its socket: the wrapper keeps the socket  *)
(* pointer in the JavaScript object, and the next request of the same      *)
(* connection has the same pointer.  A member of Conns is such an address; *)
(* a closed one can be taken by a later connection.  All of them belong to *)
(* one protocol.                                                           *)
(*                                                                         *)
(* The library itself (uWebSockets) is not in the repository: what it does *)
(* here is what the wrapper and its type declarations say of it.           *)
(***************************************************************************)
EXTENDS Naturals

CONSTANTS
    Conns,        \* addresses of native sockets
    NoConn,       \* a null pointer
    MaxRequests,  \* bound: requests that arrive in a behaviour
    MaxDepth      \* bound: nested calls from native code into JavaScript

ASSUME ConnsAssumption    == NoConn \notin Conns
ASSUME RequestsAssumption == MaxRequests \in Nat
ASSUME DepthAssumption    == MaxDepth \in Nat \ {0}

Requests  == 1 .. MaxRequests
NoRequest == 0

(* What the abort handler installed on a socket does: a JavaScript handler   *)
(* nulls the response object it captured and calls the user's function, the  *)
(* handler of a file process erases the table entry whose id it captured.    *)
NoHandler        == [kind |-> "none",  of |-> NoRequest]
JsHandler(r)     == [kind |-> "js",    of |-> r]
EraseHandler(id) == [kind |-> "erase", of |-> id]

VARIABLES
    sock,                \* state of the socket at each address
    pending,             \* request whose response is pending on each socket
    arrived,             \* number of requests that have arrived
    onAborted,           \* abort handler installed on each socket
    outcome,             \* how each request ended (history)
    handling,            \* request whose route handler is on the stack
    insideCorkCallback,  \* calls from native code into JavaScript on the stack
    closing,             \* sockets the innermost protocol.close() has yet to close
    closeDepth,          \* insideCorkCallback when that protocol.close() began
    terminated           \* the library has terminated the process

connVars == <<sock, pending, arrived, onAborted, outcome, handling,
              insideCorkCallback, closing, closeDepth, terminated>>

SockStates == {"closed", "open", "websocket"}
Outcomes   == {"none", "waiting", "answered", "upgraded", "closed", "aborted"}
Handlers   == [kind : {"none", "js", "erase"}, of : Requests \union {NoRequest}]

ConnTypeOK ==
    /\ sock \in [Conns -> SockStates]
    /\ pending \in [Conns -> Requests \union {NoRequest}]
    /\ arrived \in 0 .. MaxRequests
    /\ onAborted \in [Conns -> Handlers]
    /\ outcome \in [Requests -> Outcomes]
    /\ handling \in Requests \union {NoRequest}
    /\ insideCorkCallback \in Nat
    /\ closing \in SUBSET Conns
    /\ closeDepth \in Nat
    /\ terminated \in BOOLEAN

ConnInit ==
    /\ sock    = [c \in Conns |-> "closed"]
    /\ pending = [c \in Conns |-> NoRequest]
    /\ arrived = 0
    /\ onAborted = [c \in Conns |-> NoHandler]
    /\ outcome = [r \in Requests |-> "none"]
    /\ handling = NoRequest
    /\ insideCorkCallback = 0
    /\ closing = {}
    /\ closeDepth = 0
    /\ terminated = FALSE

-------------------------------------------------------------------------------
(* JavaScript runs on the loop's thread: the loop dispatches an event only  *)
(* when no call into JavaScript is on the stack, and JavaScript makes a call *)
(* only when no native code it called is still running above it.            *)

LoopMayDispatch ==
    /\ ~terminated
    /\ insideCorkCallback = 0
    /\ closing = {}

JsMayCall ==
    /\ ~terminated
    /\ closing = {} \/ insideCorkCallback > closeDepth

(* CallJS: the counter is up while the JavaScript function runs. *)
CallJS ==
    /\ insideCorkCallback < MaxDepth
    /\ insideCorkCallback' = insideCorkCallback + 1

(* A call of the library into JavaScript, or none. *)
CallJSIf(called) == IF called THEN CallJS ELSE UNCHANGED insideCorkCallback

(* The request pending on c, if there is one, ended in this way. *)
Settled(c, how) ==
    [r \in Requests |-> IF r = pending[c] THEN how ELSE outcome[r]]

(* The library forgets the abort handler of a response that is settled. *)
ForgetAbortHandler(c) == onAborted' = [onAborted EXCEPT ![c] = NoHandler]

(* The response pending on c is complete.  The library then closes a        *)
(* connection the caller or the client wanted closed.                       *)
RespondOn(c, closes) ==
    /\ ForgetAbortHandler(c)
    /\ sock'    = [sock EXCEPT ![c] = IF closes THEN "closed" ELSE @]
    /\ pending' = [pending EXCEPT ![c] = NoRequest]
    /\ outcome' = Settled(c, "answered")

(* The socket at c is closed: a response that was pending there is over. *)
CloseOn(c, how) ==
    /\ ForgetAbortHandler(c)
    /\ sock'    = [sock EXCEPT ![c] = "closed"]
    /\ pending' = [pending EXCEPT ![c] = NoRequest]
    /\ outcome' = Settled(c, how)

(* The parser has a complete request header on an idle connection; the next *)
(* request of a connection is not emitted before the last one is settled.    *)
RequestOn(c) ==
    /\ LoopMayDispatch
    /\ sock[c] = "open"
    /\ pending[c] = NoRequest
    /\ arrived < MaxRequests
    /\ arrived'  = arrived + 1
    /\ pending'  = [pending EXCEPT ![c] = arrived + 1]
    /\ outcome'  = [outcome EXCEPT ![arrived + 1] = "waiting"]
    /\ handling' = arrived + 1
    /\ UNCHANGED <<sock, closing, closeDepth, terminated>>
===============================================================================
