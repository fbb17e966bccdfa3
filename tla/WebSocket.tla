------------------------------- MODULE WebSocket -------------------------------
(***************************************************************************)
(* WebSocket objects (WebSocketWrapper.h) and the handlers of a protocol's *)
(* ws route (uWS_Proto_ws in AppWrapper.h).                                *)
(*                                                                         *)
(* An object keeps the raw pointer of its native socket; the socket keeps  *)
(* its object alive and hands it to every handler.  JavaScript may close   *)
(* any socket inside of any handler, and the close handler then runs       *)
(* before the call returns: so who is running whom is kept as a stack.     *)
(***************************************************************************)
EXTENDS Naturals, Sequences

CONSTANTS
    Conns,       \* addresses of native sockets
    NoConn,      \* a null pointer
    Topics,      \* topics of publish and subscribe
    MaxSockets,  \* bound: WebSockets that open in a behaviour
    MaxDepth     \* bound: length of the stack

ASSUME ConnsAssumption   == NoConn \notin Conns
ASSUME SocketsAssumption == MaxSockets \in Nat
ASSUME DepthAssumption   == MaxDepth \in Nat

WebSockets  == 1 .. MaxSockets
NoWebSocket == 0

VARIABLES
    wsObject,     \* internal field of each WebSocket object
    socketPf,     \* the object each native socket holds
    phase,        \* how far the native socket at each address has come
    topics,       \* what each native socket is subscribed to
    opened,       \* number of WebSockets that have opened
    closeEvents,  \* close events reported for each object (history)
    stack         \* native calls and JavaScript functions that are running

vars == <<wsObject, socketPf, phase, topics, opened, closeEvents, stack>>

(* A JavaScript function called with (or corked by) an object; a native      *)
(* socket being closed, with the object it holds; and a protocol.close(),    *)
(* with the sockets it has yet to close.                                     *)
JsFrame(w)       == [kind |-> "js",       ws |-> w,           conns |-> {}]
CloseFrame(c)    == [kind |-> "close",    ws |-> socketPf[c], conns |-> {c}]
CloseAllFrame(S) == [kind |-> "closeAll", ws |-> NoWebSocket, conns |-> S]

Frames == [kind : {"js", "close", "closeAll"}, ws : WebSockets \union {NoWebSocket},
           conns : SUBSET Conns]

\* Every variable has its type; no close is reported twice.
TypeOK ==
    /\ wsObject \in [WebSockets -> Conns \union {NoConn}]
    /\ socketPf \in [Conns -> WebSockets \union {NoWebSocket}]
    /\ phase \in [Conns -> {"none", "open", "closing", "reported"}]
    /\ topics \in [Conns -> SUBSET Topics]
    /\ opened \in 0 .. MaxSockets
    /\ closeEvents \in [WebSockets -> {0, 1}]
    /\ stack \in Seq(Frames)

Init ==
    /\ wsObject    = [w \in WebSockets |-> NoConn]
    /\ socketPf    = [c \in Conns |-> NoWebSocket]
    /\ phase       = [c \in Conns |-> "none"]
    /\ topics      = [c \in Conns |-> {}]
    /\ opened      = 0
    /\ closeEvents = [w \in WebSockets |-> 0]
    /\ stack       = <<>>

-------------------------------------------------------------------------------
(* The one thread.  The loop dispatches when nothing runs; so does a promise *)
(* or a timer.                                                               *)
Top == stack[Len(stack)]

LoopMayDispatch == stack = <<>>
Runs(kind)      == stack # <<>> /\ Top.kind = kind
JsRuns          == stack = <<>> \/ Runs("js")

Push(f) == stack' = Append(stack, f)
Pop     == stack' = SubSeq(stack, 1, Len(stack) - 1)
Room(n) == Len(stack) + n <= MaxDepth

(* A handler is called if JavaScript has set one. *)
CallJSIf(called, w) ==
    IF called THEN Room(1) /\ Push(JsFrame(w)) ELSE UNCHANGED stack

getWebSocket(w) == JsRuns /\ wsObject[w] # NoConn

invalidateWsObject(w) == wsObject' = [wsObject EXCEPT ![w] = NoConn]

(* The library closes the socket at c, if it is not being closed already: it *)
(* ends its subscriptions, reports them, and then reports the close.         *)
StartClosing(c) ==
    IF phase[c] = "open"
    THEN /\ Room(2)
         /\ phase' = [phase EXCEPT ![c] = "closing"]
         /\ Push(CloseFrame(c))
    ELSE UNCHANGED <<phase, stack>>

-------------------------------------------------------------------------------
(* Handlers. *)

Opens(c) ==
    LET w == opened + 1 IN
    /\ JsRuns
    /\ phase[c] = "none"
    /\ opened < MaxSockets
    /\ opened' = w
    /\ phase' = [phase EXCEPT ![c] = "open"]
    /\ wsObject' = [wsObject EXCEPT ![w] = c]
    /\ \E called \in BOOLEAN : CallJSIf(called, w)
    /\ UNCHANGED <<topics, closeEvents>>

(* A definition whose name ends in an underscore and a word is a mistake. *)
OpenHandler_notKept(c) ==
    /\ Opens(c)
    /\ UNCHANGED socketPf

(* The library has upgraded a request, by itself or because JavaScript has    *)
(* called res.upgrade: the socket holds a new object from now on.  The        *)
(* properties of the user data are copied into it before; if they are         *)
(* getters, they are taken to leave sockets alone.                            *)
OpenHandler(c) ==
    /\ Opens(c)
    /\ socketPf' = [socketPf EXCEPT ![c] = opened + 1]

(* Message, drain, ping and pong: the handler is given the socket's object. *)
EventHandler(c) ==
    /\ LoopMayDispatch
    /\ phase[c] = "open"
    /\ CallJSIf(TRUE, socketPf[c])
    /\ UNCHANGED <<wsObject, socketPf, phase, topics, opened, closeEvents>>

DroppedHandler_late(c) ==
    /\ JsRuns
    /\ phase[c] # "none"
    /\ CallJSIf(TRUE, socketPf[c])
    /\ UNCHANGED <<wsObject, socketPf, phase, topics, opened, closeEvents>>

(* A message that JavaScript sends or publishes is dropped on its way to c. *)
DroppedHandler(c) ==
    /\ JsRuns
    /\ phase[c] = "open"
    /\ CallJSIf(TRUE, socketPf[c])
    /\ UNCHANGED <<wsObject, socketPf, phase, topics, opened, closeEvents>>

(* The subscriptions of a socket that is being closed end one by one. *)
SubscriptionHandler(c) ==
    /\ Runs("close") /\ Top.conns = {c}
    /\ phase[c] = "closing"
    /\ \E topic \in topics[c] : topics' = [topics EXCEPT ![c] = @ \ {topic}]
    /\ \E called \in BOOLEAN : CallJSIf(called, socketPf[c])
    /\ UNCHANGED <<wsObject, socketPf, phase, opened, closeEvents>>

Reports(c) ==
    /\ Runs("close") /\ Top.conns = {c}
    /\ phase[c] = "closing"
    /\ topics[c] = {}
    /\ \E called \in BOOLEAN : CallJSIf(called, socketPf[c])
    /\ UNCHANGED <<socketPf, topics, opened>>

isReported(c)  == phase' = [phase EXCEPT ![c] = "reported"]
countsEvent(c) == closeEvents' = [closeEvents EXCEPT ![socketPf[c]] = @ + 1]

CloseHandler_keepsPointer(c) ==
    /\ Reports(c) /\ isReported(c) /\ countsEvent(c)
    /\ UNCHANGED wsObject

CloseHandler_silent(c) ==
    /\ Reports(c) /\ isReported(c)
    /\ invalidateWsObject(socketPf[c])
    /\ UNCHANGED closeEvents

CloseHandler_again(c) ==
    /\ Reports(c) /\ countsEvent(c)
    /\ invalidateWsObject(socketPf[c])
    /\ UNCHANGED phase

(* The object is invalid before its close handler runs. *)
CloseHandler(c) ==
    /\ Reports(c) /\ isReported(c) /\ countsEvent(c)
    /\ invalidateWsObject(socketPf[c])

(* Its rest, when JavaScript has returned. *)
CloseHandlerEnds(c) ==
    /\ Runs("close") /\ Top.conns = {c}
    /\ phase[c] = "reported"
    /\ socketPf' = [socketPf EXCEPT ![c] = NoWebSocket]
    /\ phase' = [phase EXCEPT ![c] = "none"]
    /\ Pop
    /\ UNCHANGED <<wsObject, topics, opened, closeEvents>>

(* The client goes away, or the socket times out. *)
Disconnect(c) ==
    /\ LoopMayDispatch
    /\ phase[c] = "open"
    /\ StartClosing(c)
    /\ UNCHANGED <<wsObject, socketPf, topics, opened, closeEvents>>

-------------------------------------------------------------------------------
(* Calls of JavaScript on a WebSocket object; the ones that only send or read *)
(* are left out.                                                              *)

Subscribe(w) ==
    LET c == wsObject[w] IN
    /\ getWebSocket(w)
    /\ phase[c] = "open"
    /\ \E topic \in Topics \ topics[c] :
            topics' = [topics EXCEPT ![c] = @ \union {topic}]
    /\ \E called \in BOOLEAN : CallJSIf(called, w)
    /\ UNCHANGED <<wsObject, socketPf, phase, opened, closeEvents>>

Unsubscribe(w) ==
    LET c == wsObject[w] IN
    /\ getWebSocket(w)
    /\ phase[c] = "open"
    /\ \E topic \in topics[c] : topics' = [topics EXCEPT ![c] = @ \ {topic}]
    /\ \E called \in BOOLEAN : CallJSIf(called, w)
    /\ UNCHANGED <<wsObject, socketPf, phase, opened, closeEvents>>

Cork(w) ==
    /\ getWebSocket(w)
    /\ CallJSIf(TRUE, w)
    /\ UNCHANGED <<wsObject, socketPf, phase, topics, opened, closeEvents>>

WsClose_onlyInvalidates(w) ==
    /\ getWebSocket(w)
    /\ invalidateWsObject(w)
    /\ UNCHANGED <<socketPf, phase, topics, opened, closeEvents, stack>>

(* The pointer is gone before the close handler runs, inside of this call. *)
WsClose(w) ==
    /\ getWebSocket(w)
    /\ invalidateWsObject(w)
    /\ StartClosing(wsObject[w])
    /\ UNCHANGED <<socketPf, topics, opened, closeEvents>>

(* After a close message; the library reports the close at once as well. *)
WsEnd(w) ==
    /\ getWebSocket(w)
    /\ invalidateWsObject(w)
    /\ StartClosing(wsObject[w])
    /\ UNCHANGED <<socketPf, topics, opened, closeEvents>>

(* protocol.close() closes one socket after the other. *)
ProtoClose ==
    /\ JsRuns
    /\ Room(3)
    /\ Push(CloseAllFrame({c \in Conns : phase[c] = "open"}))
    /\ UNCHANGED <<wsObject, socketPf, phase, topics, opened, closeEvents>>

ProtoCloseSocket(c) ==
    LET rest == CloseAllFrame(Top.conns \ {c})
        below == SubSeq(stack, 1, Len(stack) - 1) IN
    /\ Runs("closeAll")
    /\ c \in Top.conns
    /\ IF phase[c] = "open"
       THEN /\ phase' = [phase EXCEPT ![c] = "closing"]
            /\ stack' = Append(Append(below, rest), CloseFrame(c))
       ELSE /\ stack' = Append(below, rest)
            /\ UNCHANGED phase
    /\ UNCHANGED <<wsObject, socketPf, topics, opened, closeEvents>>

ProtoCloseEnds ==
    /\ Runs("closeAll")
    /\ Top.conns = {}
    /\ Pop
    /\ UNCHANGED <<wsObject, socketPf, phase, topics, opened, closeEvents>>

(* The JavaScript function on top returns. *)
Return ==
    /\ Runs("js")
    /\ Pop
    /\ UNCHANGED <<wsObject, socketPf, phase, topics, opened, closeEvents>>

Native ==
    \/ \E c \in Conns :
        SubscriptionHandler(c) \/ CloseHandler(c) \/ CloseHandlerEnds(c) \/ ProtoCloseSocket(c)
    \/ ProtoCloseEnds

Next ==
    \/ \E c \in Conns :
        OpenHandler(c) \/ EventHandler(c) \/ DroppedHandler(c) \/ Disconnect(c)
    \/ \E w \in WebSockets :
        Subscribe(w) \/ Unsubscribe(w) \/ Cork(w) \/ WsClose(w) \/ WsEnd(w)
    \/ ProtoClose
    \/ Native
    \/ Return

(* Native code goes on, and a JavaScript function returns after finitely many *)
(* calls: the one at each depth, however often others are above it.           *)
Fairness ==
    /\ WF_vars(Native)
    /\ \A depth \in 1 .. MaxDepth : SF_vars(Len(stack) = depth /\ Return)

Spec     == Init /\ [][Next]_vars
FairSpec == Spec /\ Fairness

-------------------------------------------------------------------------------
(* What must hold. *)

\* The pointer of a WebSocket object leads to the socket that holds this object,
\* and to no socket whose close event has been reported, nor to a later one at the
\* same address.  (invalidateWsObject; open and close in uWS_Proto_ws)
ObjectLeadsToItsSocket ==
    \A w \in WebSockets : wsObject[w] # NoConn =>
        /\ socketPf[wsObject[w]] = w
        /\ phase[wsObject[w]] \in {"open", "closing"}

\* A WebSocket is valid from open to close event: a socket nobody has begun to
\* close holds an object that leads to it, so that every handler is given a valid
\* one.
ValidWhileOpen ==
    \A c \in Conns : phase[c] = "open" =>
        /\ socketPf[c] # NoWebSocket
        /\ wsObject[socketPf[c]] = c

\* What JavaScript has closed, and the library has not reported closed yet, is
\* being closed by a call that is still running: close and end "immediately call
\* the close handler", also if they are called inside of another handler.
GivenUpIsBeingClosed ==
    \A w \in 1 .. opened : wsObject[w] = NoConn /\ closeEvents[w] = 0 =>
        \E i \in 1 .. Len(stack) : stack[i].kind = "close" /\ stack[i].ws = w

\* An object has had its close event exactly if no socket holds it any more, but
\* for one whose close handler is just running: no socket goes away unreported.
CloseIsReported ==
    \A w \in 1 .. opened :
        closeEvents[w] = 1
            <=> \A c \in Conns : socketPf[c] = w => phase[c] = "reported"

\* After the close event of an object no handler is called with it.
NothingAfterClose ==
    [][\A w \in 1 .. opened :
        (closeEvents[w] > 0 /\ Len(stack') > Len(stack))
            => stack'[Len(stack')] # JsFrame(w)]_vars

(* How far an object has come. *)
life ==
    [w \in WebSockets |->
        IF w > opened THEN "none"
        ELSE IF closeEvents[w] > 0 THEN "closed"
        ELSE IF wsObject[w] = NoConn THEN "givenUp"
        ELSE "valid"]

Lifecycle == INSTANCE SocketLifecycle

\* WebSocket objects live as SocketLifecycle says: valid from open to close event
\* or to the call that closes them, and what was given up is closed.
ImplementsSocketLifecycle == Lifecycle!Spec
===============================================================================
