----------------------------- MODULE HttpResponse -----------------------------
(***************************************************************************)
(* The JavaScript response and request objects (HttpResponseWrapper.h,     *)
(* HttpRequestWrapper.h) from the route handler that receives them         *)
(* (AppWrapper.h) to the call or the event that takes their pointer away.  *)
(*                                                                         *)
(* Calls that only move bytes (status, headers, getters, pause) change     *)
(* nothing here; a call on an object whose pointer is null throws and      *)
(* changes nothing, so every action below starts from a live pointer.      *)
(***************************************************************************)
EXTENDS HttpConnection

CONSTANT
    CarefulClose  \* TRUE: protocol.close() is called only while every pending
                  \* response has an abort handler

ASSUME CarefulCloseAssumption == CarefulClose \in BOOLEAN

VARIABLES
    resObject,    \* internal field of each request's response object
    reqObject,    \* requests whose request object has a pointer
    onWritable,   \* sockets whose response has a writable handler
    backpressure, \* sockets that hold bytes the kernel did not take
    aborts        \* how often each request's abort callback was called (history)

objVars == <<resObject, reqObject, onWritable, backpressure, aborts>>
vars    == <<connVars, objVars>>

ObjTypeOK ==
    /\ resObject \in [Requests -> Conns \union {NoConn}]
    /\ reqObject \in SUBSET Requests
    /\ onWritable \in SUBSET Conns
    /\ backpressure \in SUBSET Conns
    /\ aborts \in [Requests -> Nat]

\* Every variable has its type.
TypeOK == ConnTypeOK /\ ObjTypeOK

ObjInit ==
    /\ resObject = [r \in Requests |-> NoConn]
    /\ reqObject = {}
    /\ onWritable = {}
    /\ backpressure = {}
    /\ aborts = [r \in Requests |-> 0]

Init == ConnInit /\ ObjInit

-------------------------------------------------------------------------------
(* What the calls are made of.  A definition whose name ends in an           *)
(* underscore and a word is a mistake, put in the place of the definition of *)
(* the same name to see which property notices it.                           *)

(* getHttpResponse: the pointer is not null, else the call throws. *)
getHttpResponse(r) ==
    /\ JsMayCall
    /\ resObject[r] # NoConn

invalidateResObject_forgotten(r) == resObject[r] # NoConn /\ UNCHANGED resObject

(* invalidateResObject: the object loses its pointer. *)
invalidateResObject(r) == resObject' = [resObject EXCEPT ![r] = NoConn]

(* The library forgets the writable handler of a response that is settled. *)
ForgetWritable(c) ==
    /\ onWritable'   = onWritable \ {c}
    /\ backpressure' = backpressure \ {c}

RunAbortHandler_silent(c, also) ==
    /\ resObject' = [r \in Requests |->
            IF onAborted[c] = JsHandler(r) \/ r \in also THEN NoConn ELSE resObject[r]]
    /\ CallJSIf(onAborted[c].kind = "js" \/ sock[c] = "websocket")
    /\ ForgetWritable(c)
    /\ UNCHANGED aborts

RunAbortHandler_leavesPointer(c, also) ==
    /\ resObject' = [r \in Requests |-> IF r \in also THEN NoConn ELSE resObject[r]]
    /\ aborts' = [r \in Requests |->
            IF onAborted[c] = JsHandler(r) THEN aborts[r] + 1 ELSE aborts[r]]
    /\ CallJSIf(onAborted[c].kind = "js" \/ sock[c] = "websocket")
    /\ ForgetWritable(c)

(* The abort handler installed on c runs as the socket closes: it nulls the *)
(* object it captured (as well as those in "also") and calls JavaScript.    *)
(* A websocket has a close handler instead.                                 *)
RunAbortHandler(c, also) ==
    /\ resObject' = [r \in Requests |->
            IF onAborted[c] = JsHandler(r) \/ r \in also THEN NoConn ELSE resObject[r]]
    /\ aborts' = [r \in Requests |->
            IF onAborted[c] = JsHandler(r) THEN aborts[r] + 1 ELSE aborts[r]]
    /\ CallJSIf(onAborted[c].kind = "js" \/ sock[c] = "websocket")
    /\ ForgetWritable(c)

stackUnchanged == UNCHANGED <<handling, closing, closeDepth, terminated>>

-------------------------------------------------------------------------------
(* Sockets and route handlers. *)

(* A client connects; the address may have served an earlier connection. *)
Connect(c) ==
    /\ LoopMayDispatch
    /\ sock[c] = "closed"
    /\ sock' = [sock EXCEPT ![c] = "open"]
    /\ UNCHANGED <<pending, arrived, onAborted, outcome, insideCorkCallback,
                   objVars>>
    /\ stackUnchanged

(* A request reaches a route handler: it gets a fresh response and a fresh  *)
(* request object, and JavaScript runs.                                     *)
RouteHandler(c) ==
    /\ RequestOn(c)
    /\ resObject' = [resObject EXCEPT ![arrived + 1] = c]
    /\ reqObject' = reqObject \union {arrived + 1}
    /\ CallJS
    /\ UNCHANGED <<onAborted, onWritable, backpressure, aborts>>

(* A route with an object instead of a function, while no onObject callback  *)
(* is set: the response is ended at once and JavaScript sees nothing of it.   *)
AnswerAtOnce(c) ==
    /\ LoopMayDispatch
    /\ sock[c] = "open"
    /\ pending[c] = NoRequest
    /\ arrived < MaxRequests
    /\ arrived' = arrived + 1
    /\ outcome' = [outcome EXCEPT ![arrived + 1] = "answered"]
    /\ UNCHANGED <<sock, pending, onAborted, insideCorkCallback, objVars>>
    /\ stackUnchanged

HandlerReturn_keepsRequest ==
    /\ JsMayCall
    /\ handling # NoRequest
    /\ insideCorkCallback = 1
    /\ insideCorkCallback' = 0
    /\ handling' = NoRequest
    /\ terminated' = \E c \in Conns :
            pending[c] = handling /\ onAborted[c] = NoHandler
    /\ UNCHANGED <<sock, pending, arrived, onAborted, outcome, closing, closeDepth,
                   objVars>>

(* The handler returns: the request object loses its pointer.  The library  *)
(* terminates the process over a response that is neither complete nor      *)
(* guarded by an abort handler.                                             *)
HandlerReturn ==
    /\ JsMayCall
    /\ handling # NoRequest
    /\ insideCorkCallback = 1
    /\ insideCorkCallback' = 0
    /\ reqObject' = reqObject \ {handling}
    /\ handling' = NoRequest
    /\ terminated' = \E c \in Conns :
            pending[c] = handling /\ onAborted[c] = NoHandler
    /\ UNCHANGED <<sock, pending, arrived, onAborted, outcome, closing,
                   closeDepth, resObject, onWritable, backpressure, aborts>>

CallbackReturn_unpaired ==
    /\ JsMayCall
    /\ insideCorkCallback' = insideCorkCallback - 1
    /\ UNCHANGED <<sock, pending, arrived, onAborted, outcome, objVars>>
    /\ stackUnchanged

(* Any other JavaScript function the wrapper called returns. *)
CallbackReturn ==
    /\ JsMayCall
    /\ insideCorkCallback > (IF handling = NoRequest THEN 0 ELSE 1)
    /\ insideCorkCallback' = insideCorkCallback - 1
    /\ UNCHANGED <<sock, pending, arrived, onAborted, outcome, objVars>>
    /\ stackUnchanged

(* The client disconnects, times out or sends a second request too early. *)
Disconnect(c) ==
    /\ LoopMayDispatch
    /\ sock[c] = "open"
    /\ CloseOn(c, "aborted")
    /\ RunAbortHandler(c, {})
    /\ UNCHANGED <<arrived, reqObject>>
    /\ stackUnchanged

(* The kernel takes the bytes a response was waiting with. *)
Writable(c) ==
    /\ LoopMayDispatch
    /\ c \in backpressure
    /\ backpressure' = backpressure \ {c}
    /\ CallJSIf(c \in onWritable)
    /\ UNCHANGED <<sock, pending, arrived, onAborted, outcome, resObject,
                   reqObject, onWritable, aborts>>
    /\ stackUnchanged

(* A websocket, which HttpResponse has nothing more to do with, closes. *)
WebSocketClose(c) ==
    /\ LoopMayDispatch
    /\ sock[c] = "websocket"
    /\ sock' = [sock EXCEPT ![c] = "closed"]
    /\ CallJS
    /\ UNCHANGED <<pending, arrived, onAborted, outcome, objVars>>
    /\ stackUnchanged

-------------------------------------------------------------------------------
(* Calls of JavaScript on a response object. *)

(* The call takes the object's pointer away and completes the response the  *)
(* pointer leads to.                                                        *)
InvalidateAndRespond(r, closes) ==
    LET c == resObject[r] IN
    /\ getHttpResponse(r)
    /\ invalidateResObject(r)
    /\ RespondOn(c, closes)
    /\ ForgetWritable(c)
    /\ UNCHANGED <<arrived, insideCorkCallback, reqObject, aborts>>
    /\ stackUnchanged

ResEnd(r, closes)            == InvalidateAndRespond(r, closes)
ResEndWithoutBody(r, closes) == InvalidateAndRespond(r, closes)
ResStreamFile(r, closes)     == InvalidateAndRespond(r, closes)
ResSendErrorPage(r, closes)  == InvalidateAndRespond(r, closes)
ResSendJSONError(r, closes)  == InvalidateAndRespond(r, closes)

(* The last chunk of the body was taken: the response is complete. *)
ResTryEndDone(r, closes) == InvalidateAndRespond(r, closes)

ResTryEndPartly_invalidates(r) ==
    /\ getHttpResponse(r)
    /\ invalidateResObject(r)
    /\ backpressure' = backpressure \union {resObject[r]}
    /\ UNCHANGED <<connVars, reqObject, onWritable, aborts>>

(* Part of the chunk was taken: the object stays valid for another try. *)
ResTryEndPartly(r) ==
    /\ getHttpResponse(r)
    /\ backpressure' = backpressure \union {resObject[r]}
    /\ UNCHANGED <<connVars, resObject, reqObject, onWritable, aborts>>

(* write reports FALSE when the kernel did not take everything. *)
ResWriteBackpressure(r) ==
    /\ getHttpResponse(r)
    /\ backpressure' = backpressure \union {resObject[r]}
    /\ UNCHANGED <<connVars, resObject, reqObject, onWritable, aborts>>

ResOnWritable(r) ==
    /\ getHttpResponse(r)
    /\ onWritable' = onWritable \union {resObject[r]}
    /\ UNCHANGED <<connVars, resObject, reqObject, backpressure, aborts>>

(* The handler captures the object the method was called on, and replaces    *)
(* the one installed before.                                                 *)
ResOnAborted(r) ==
    /\ getHttpResponse(r)
    /\ onAborted' = [onAborted EXCEPT ![resObject[r]] = JsHandler(r)]
    /\ UNCHANGED <<sock, pending, arrived, outcome, insideCorkCallback, objVars>>
    /\ stackUnchanged

(* JavaScript corks the response: the counter is raised by hand. *)
ResCork(r) ==
    /\ getHttpResponse(r)
    /\ CallJS
    /\ UNCHANGED <<sock, pending, arrived, onAborted, outcome, objVars>>
    /\ stackUnchanged

(* close takes the pointer away first, because the abort handler runs before *)
(* it returns.                                                               *)
ResClose(r) ==
    LET c == resObject[r] IN
    /\ getHttpResponse(r)
    /\ CloseOn(c, "closed")
    /\ RunAbortHandler(c, {r})
    /\ UNCHANGED <<arrived, reqObject>>
    /\ stackUnchanged

(* upgrade turns the socket into a websocket and calls its open handler. *)
ResUpgrade(r) ==
    LET c == resObject[r] IN
    /\ getHttpResponse(r)
    /\ invalidateResObject(r)
    /\ sock'    = [sock EXCEPT ![c] = "websocket"]
    /\ pending' = [pending EXCEPT ![c] = NoRequest]
    /\ outcome' = Settled(c, "upgraded")
    /\ ForgetAbortHandler(c)
    /\ ForgetWritable(c)
    /\ CallJS
    /\ UNCHANGED <<arrived, reqObject, aborts>>
    /\ stackUnchanged

-------------------------------------------------------------------------------
(* protocol.close(): closes every socket, one after the other; the abort      *)
(* handler of each runs JavaScript before the next is closed.  That may call  *)
(* protocol.close() again, which closes all that are left: the close it       *)
(* interrupted then finds none.                                               *)

AppClose ==
    /\ JsMayCall
    /\ insideCorkCallback < MaxDepth
    /\ CarefulClose => \A c \in Conns :
            pending[c] # NoRequest => onAborted[c] # NoHandler
    /\ closing' = {c \in Conns : sock[c] # "closed"}
    /\ closeDepth' = insideCorkCallback
    /\ UNCHANGED <<sock, pending, arrived, onAborted, outcome, handling,
                   insideCorkCallback, terminated, objVars>>

AppCloseSocket(c) ==
    /\ ~terminated
    /\ c \in closing
    /\ insideCorkCallback = closeDepth
    /\ closing' = closing \ {c}
    /\ CloseOn(c, "aborted")
    /\ RunAbortHandler(c, {})
    /\ UNCHANGED <<arrived, handling, closeDepth, terminated, reqObject>>

-------------------------------------------------------------------------------
(* Steps that close no socket under a pending response. *)
QuietStep ==
    \/ \E c \in Conns :
        \/ Connect(c)
        \/ RouteHandler(c)
        \/ AnswerAtOnce(c)
        \/ Writable(c)
        \/ WebSocketClose(c)
    \/ \E r \in Requests :
        \/ \E closes \in BOOLEAN :
            \/ ResEnd(r, closes)
            \/ ResEndWithoutBody(r, closes)
            \/ ResStreamFile(r, closes)
            \/ ResSendErrorPage(r, closes)
            \/ ResSendJSONError(r, closes)
            \/ ResTryEndDone(r, closes)
        \/ ResTryEndPartly(r)
        \/ ResWriteBackpressure(r)
        \/ ResOnWritable(r)
        \/ ResOnAborted(r)
        \/ ResCork(r)
        \/ ResUpgrade(r)
    \/ HandlerReturn
    \/ CallbackReturn
    \/ AppClose

Next ==
    \/ QuietStep
    \/ \E c \in Conns : Disconnect(c)
    \/ \E r \in Requests : ResClose(r)
    \/ \E c \in Conns : AppCloseSocket(c)

Spec == Init /\ [][Next]_vars

-------------------------------------------------------------------------------
(* What must hold. *)

\* A response object whose pointer is not null leads to the very request it was
\* made for, still pending on an open HTTP socket: never to a later request of
\* the same keep-alive connection, to a websocket or to a closed socket.
\* (invalidateResObject and the onAborted lambda, HttpResponseWrapper.h)
ObjectLeadsToItsRequest ==
    \A r \in Requests : resObject[r] # NoConn =>
        /\ pending[resObject[r]] = r
        /\ sock[resObject[r]] = "open"

\* Once its handler has returned, a response that is still pending has an abort
\* handler, and that handler will null the response's own object and no other:
\* a later disconnect cannot go unnoticed.  (res_onAborted)
PendingIsGuarded ==
    ~terminated =>
        \A c \in Conns : pending[c] \notin {NoRequest, handling} =>
            /\ onAborted[c] = JsHandler(pending[c])
            /\ resObject[pending[c]] = c

\* JavaScript learns of an aborted response exactly once, never of one that was
\* answered or upgraded; a response it closes itself is reported at most once.
\* (res_onAborted, res_close)
AbortReported ==
    \A r \in Requests :
        /\ outcome[r] = "aborted" => aborts[r] = 1
        /\ outcome[r] = "closed"  => aborts[r] \in {0, 1}
        /\ outcome[r] \notin {"aborted", "closed"} => aborts[r] = 0

\* A request object keeps its pointer only while the very handler it was passed
\* to is on the stack, at most one at a time: the native request it leads to is
\* on that handler's stack frame.  (AppWrapper.h, the route lambdas)
RequestObjectOnStack ==
    /\ reqObject = IF handling = NoRequest THEN {} ELSE {handling}
    /\ reqObject # {} => insideCorkCallback > 0

\* A step that takes a response object's pointer away settles that request, and
\* no step gives a pointer back: JavaScript is never cut off from a response
\* that still waits, and never gets a second chance at one.
PointerTakenOnlyBySettling ==
    [][\A r \in Requests :
        /\ resObject[r] # NoConn /\ resObject'[r] = NoConn =>
               outcome'[r] \in {"answered", "upgraded", "closed", "aborted"}
        /\ resObject[r] = NoConn /\ resObject'[r] # NoConn => r = arrived']_vars

\* docs/index.d.ts:111 "An HttpResponse is valid until either onAborted callback or
\* any of the .end/.tryEnd calls succeed": a response JavaScript neither settled
\* nor heard the end of can still be used.  (uWS_Proto_close)
ValidUntilAbortedOrEnded ==
    \A r \in 1 .. arrived :
        outcome[r] \in {"waiting", "aborted"} /\ aborts[r] = 0 =>
            \E c \in Conns : resObject[r] = c /\ pending[c] = r

(* The parts of the inductive invariant behind ObjectLeadsToItsRequest. *)

\* Nothing but a pending response has an abort handler, and the handler of a
\* response that has an object nulls that object.
HandlerFollowsObject ==
    /\ \A c \in Conns : pending[c] = NoRequest => onAborted[c] = NoHandler
    /\ \A r \in Requests : resObject[r] # NoConn =>
           onAborted[resObject[r]] \in {NoHandler, JsHandler(r)}

\* Outside of its route handler a response object is guarded by an abort handler,
\* and every one is while a protocol closes its sockets.
ObjectIsGuarded ==
    \A r \in Requests :
        /\ resObject[r] # NoConn
        /\ (~terminated /\ r # handling) \/ closing # {}
        => onAborted[resObject[r]] = JsHandler(r)

\* A route handler on the stack is counted.
HandlerIsCounted == handling # NoRequest => insideCorkCallback > 0

ObjectInv ==
    /\ ObjectLeadsToItsRequest
    /\ HandlerFollowsObject
    /\ ObjectIsGuarded
    /\ HandlerIsCounted

\* With no other requests than those of the route handlers, a pending response
\* has its object.
PendingHasObject ==
    \A c \in Conns : pending[c] # NoRequest =>
        /\ resObject[pending[c]] = c
        /\ outcome[pending[c]] = "waiting"

NotYetArrived == \A r \in Requests : r > arrived => outcome[r] = "none"

LifecycleInv ==
    /\ PendingHasObject
    /\ NotYetArrived
    /\ AbortReported

(* The detailed specification keeps the promise of RequestLifecycle. *)
Lifecycle ==
    INSTANCE RequestLifecycle WITH
        current <- pending,
        phase   <- outcome,
        MayAbandon <- FALSE,
        handles <- {r \in Requests : resObject[r] # NoConn}

\* Every behaviour of the wrapper is one of RequestLifecycle.
ImplementsLifecycle == Lifecycle!Spec
===============================================================================
