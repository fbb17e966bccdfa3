-------------------------- MODULE HttpResponseProofs --------------------------
(***************************************************************************)
(* Proofs about HttpResponse for any sockets, any number of requests and   *)
(* any depth of nested calls.                                              *)
(***************************************************************************)
EXTENDS HttpResponse, TLAPS

-------------------------------------------------------------------------------
(* Type correctness, one lemma for the steps that FileProcessor shares and   *)
(* one for those that close a socket.                                        *)

LEMMA HandlersExist ==
    /\ NoHandler \in Handlers
    /\ \A r \in Requests : JsHandler(r) \in Handlers /\ EraseHandler(r) \in Handlers
BY DEF Handlers, NoHandler, JsHandler, EraseHandler

LEMMA TypeOKRespond ==
    ASSUME TypeOK, NEW r \in Requests, NEW closes \in BOOLEAN,
           InvalidateAndRespond(r, closes)
    PROVE  TypeOK'
BY HandlersExist, ConnsAssumption
   DEF TypeOK, ConnTypeOK, ObjTypeOK, InvalidateAndRespond, getHttpResponse,
       invalidateResObject, RespondOn, ForgetAbortHandler, ForgetWritable,
       Settled, Outcomes, SockStates, stackUnchanged

LEMMA TypeOKQuiet == TypeOK /\ QuietStep => TypeOK'
<1> SUFFICES ASSUME TypeOK, QuietStep PROVE TypeOK'
  OBVIOUS
<1> USE ConnsAssumption, DepthAssumption, RequestsAssumption, HandlersExist
        DEF TypeOK, ConnTypeOK, ObjTypeOK, Outcomes, SockStates
<1>1. ASSUME NEW c \in Conns, Connect(c) PROVE TypeOK'
  BY <1>1 DEF Connect, stackUnchanged, objVars
<1>2. ASSUME NEW c \in Conns, RouteHandler(c) PROVE TypeOK'
  BY <1>2 DEF RouteHandler, RequestOn, CallJS, Requests
<1>3. ASSUME NEW c \in Conns, Writable(c) PROVE TypeOK'
  BY <1>3 DEF Writable, CallJSIf, CallJS, stackUnchanged
<1>4. ASSUME NEW c \in Conns, WebSocketClose(c) PROVE TypeOK'
  BY <1>4 DEF WebSocketClose, CallJS, stackUnchanged, objVars
<1>5. ASSUME NEW r \in Requests, NEW closes \in BOOLEAN,
             InvalidateAndRespond(r, closes)
      PROVE  TypeOK'
  BY <1>5, TypeOKRespond
<1>6. ASSUME NEW r \in Requests,
             ResTryEndPartly(r) \/ ResWriteBackpressure(r) \/ ResOnWritable(r)
      PROVE  TypeOK'
  BY <1>6 DEF ResTryEndPartly, ResWriteBackpressure, ResOnWritable, connVars,
              getHttpResponse
<1>7. ASSUME NEW r \in Requests, ResOnAborted(r) PROVE TypeOK'
  BY <1>7 DEF ResOnAborted, stackUnchanged, objVars, getHttpResponse
<1>8. ASSUME NEW r \in Requests, ResCork(r) PROVE TypeOK'
  BY <1>8 DEF ResCork, CallJS, stackUnchanged, objVars
<1>9. ASSUME NEW r \in Requests, ResUpgrade(r) PROVE TypeOK'
  BY <1>9 DEF ResUpgrade, CallJS, getHttpResponse, invalidateResObject,
              ForgetAbortHandler, ForgetWritable, Settled, stackUnchanged
<1>10. ASSUME HandlerReturn PROVE TypeOK'
  BY <1>10 DEF HandlerReturn
<1>11. ASSUME CallbackReturn PROVE TypeOK'
  BY <1>11 DEF CallbackReturn, stackUnchanged, objVars
<1>12. ASSUME AppClose PROVE TypeOK'
  BY <1>12 DEF AppClose, objVars
<1>13. ASSUME NEW c \in Conns, AnswerAtOnce(c) PROVE TypeOK'
  BY <1>13 DEF AnswerAtOnce, stackUnchanged, objVars, Requests
<1> HIDE DEF TypeOK, ConnTypeOK, ObjTypeOK, Outcomes, SockStates
<1> QED
  BY <1>1, <1>2, <1>3, <1>4, <1>5, <1>6, <1>7, <1>8, <1>9, <1>10, <1>11, <1>12,
     <1>13
     DEF QuietStep, ResEnd, ResEndWithoutBody, ResStreamFile, ResSendErrorPage,
         ResSendJSONError, ResTryEndDone

LEMMA TypeOKClose ==
    ASSUME TypeOK, NEW c \in Conns, NEW also \in SUBSET Requests,
           NEW how \in {"closed", "aborted"},
           CloseOn(c, how), RunAbortHandler(c, also),
           UNCHANGED <<arrived, handling, closeDepth, terminated, reqObject>>,
           closing' \in SUBSET closing
    PROVE  TypeOK'
BY HandlersExist, ConnsAssumption
   DEF TypeOK, ConnTypeOK, ObjTypeOK, CloseOn, RunAbortHandler,
       ForgetAbortHandler, ForgetWritable, Settled, Outcomes, SockStates,
       CallJSIf, CallJS

LEMMA TypeOKNext == TypeOK /\ [Next]_vars => TypeOK'
<1> SUFFICES ASSUME TypeOK, [Next]_vars PROVE TypeOK'
  OBVIOUS
<1>1. CASE QuietStep
  BY <1>1, TypeOKQuiet
<1>2. ASSUME NEW c \in Conns, Disconnect(c) PROVE TypeOK'
  BY <1>2, TypeOKClose DEF Disconnect, stackUnchanged
<1>3. ASSUME NEW r \in Requests, ResClose(r) PROVE TypeOK'
  <2>1. resObject[r] \in Conns
    BY <1>3 DEF ResClose, getHttpResponse, TypeOK, ObjTypeOK
  <2> QED
    BY <1>3, <2>1, TypeOKClose DEF ResClose, stackUnchanged
<1>4. ASSUME NEW c \in Conns, AppCloseSocket(c) PROVE TypeOK'
  BY <1>4, TypeOKClose DEF AppCloseSocket
<1>5. CASE UNCHANGED vars
  BY <1>5 DEF vars, connVars, objVars, TypeOK, ConnTypeOK, ObjTypeOK
<1> QED
  BY <1>1, <1>2, <1>3, <1>4, <1>5 DEF Next

LEMMA TypeOKInit == Init => TypeOK
<1> SUFFICES ASSUME Init PROVE TypeOK
  OBVIOUS
<1>1. ConnTypeOK
  <2>1. arrived \in 0 .. MaxRequests
    BY RequestsAssumption DEF Init, ConnInit
  <2>2. sock \in [Conns -> SockStates] /\ outcome \in [Requests -> Outcomes]
    BY DEF Init, ConnInit, SockStates, Outcomes
  <2>3. onAborted \in [Conns -> Handlers]
    BY HandlersExist DEF Init, ConnInit
  <2> QED
    BY <2>1, <2>2, <2>3 DEF Init, ConnInit, ConnTypeOK, NoRequest
<1>2. ObjTypeOK
  BY DEF Init, ObjInit, ObjTypeOK
<1> QED
  BY <1>1, <1>2 DEF TypeOK

\* Every variable keeps its type, for every value of the constants.
THEOREM TypeCorrect == Spec => []TypeOK
BY TypeOKInit, TypeOKNext, PTL DEF Spec

-------------------------------------------------------------------------------
(* ObjectInv is inductive as long as protocol.close() is called with care.   *)

LEMMA HandlersDiffer ==
    /\ \A r \in Requests : JsHandler(r) # NoHandler /\ EraseHandler(r) # NoHandler
    /\ \A q, r \in Requests : JsHandler(q) # EraseHandler(r)
    /\ \A q, r \in Requests : JsHandler(q) = JsHandler(r) => q = r
    /\ \A q, r \in Requests : EraseHandler(q) = EraseHandler(r) => q = r
BY DEF NoHandler, JsHandler, EraseHandler

LEMMA NoRequestIsNone == NoRequest \notin Requests
BY DEF NoRequest, Requests

(* A step that leaves every pointer and handler alone and ends no handler. *)
LEMMA ObjectInvFrame ==
    ASSUME ObjectInv, UNCHANGED <<pending, onAborted, resObject, handling,
                                  closing, terminated>>,
           \A c \in Conns : sock[c] = "open" => sock'[c] = "open",
           handling # NoRequest => insideCorkCallback' > 0,
           TypeOK
    PROVE  ObjectInv'
BY DEF ObjectInv, ObjectLeadsToItsRequest, HandlerFollowsObject, ObjectIsGuarded,
       HandlerIsCounted, TypeOK, ObjTypeOK

(* The response pending on c is settled, and its object has lost the pointer. *)
LEMMA ObjectInvSettle ==
    ASSUME TypeOK, ObjectInv, NEW c \in Conns,
           pending'   = [pending EXCEPT ![c] = NoRequest],
           onAborted' = [onAborted EXCEPT ![c] = NoHandler],
           \A d \in Conns \ {c} : sock'[d] = sock[d],
           \A r \in Requests : resObject'[r] \in {resObject[r], NoConn},
           \A r \in Requests : resObject'[r] # c,
           handling' = handling, terminated' = terminated,
           closing' \subseteq closing,
           insideCorkCallback' >= insideCorkCallback,
           insideCorkCallback' \in Nat
    PROVE  ObjectInv'
<1> USE HandlersDiffer DEF ObjectInv, TypeOK, ConnTypeOK, ObjTypeOK
<1>1. ObjectLeadsToItsRequest'
  BY DEF ObjectLeadsToItsRequest
<1>2. HandlerFollowsObject'
  BY DEF HandlerFollowsObject
<1>3. ObjectIsGuarded'
  BY DEF ObjectIsGuarded
<1>4. HandlerIsCounted'
  BY DEF HandlerIsCounted
<1> QED
  BY <1>1, <1>2, <1>3, <1>4

LEMMA ObjectInvRespond ==
    ASSUME TypeOK, ObjectInv, NEW r \in Requests, NEW closes \in BOOLEAN,
           InvalidateAndRespond(r, closes)
    PROVE  ObjectInv'
<1> DEFINE c == resObject[r]
<1> USE DEF InvalidateAndRespond, getHttpResponse, invalidateResObject, RespondOn,
            ForgetAbortHandler, stackUnchanged
<1>1. c \in Conns /\ NoConn \notin Conns
  BY ConnsAssumption DEF TypeOK, ObjTypeOK
<1>2. \A q \in Requests : resObject'[q] # c
  BY <1>1 DEF ObjectInv, ObjectLeadsToItsRequest, TypeOK, ObjTypeOK
<1>3. \A q \in Requests : resObject'[q] \in {resObject[q], NoConn}
  BY DEF TypeOK, ObjTypeOK
<1>4. \A d \in Conns \ {c} : sock'[d] = sock[d]
  BY DEF TypeOK, ConnTypeOK
<1>5. /\ pending' = [pending EXCEPT ![c] = NoRequest]
      /\ onAborted' = [onAborted EXCEPT ![c] = NoHandler]
      /\ UNCHANGED <<handling, terminated, closing>>
  OBVIOUS
<1>6. insideCorkCallback' >= insideCorkCallback /\ insideCorkCallback' \in Nat
  BY DEF TypeOK, ConnTypeOK
<1> HIDE DEF c, InvalidateAndRespond
<1> QED
  BY <1>1, <1>2, <1>3, <1>4, <1>5, <1>6, ObjectInvSettle

LEMMA ObjectInvClose ==
    ASSUME TypeOK, ObjectInv, NEW c \in Conns, NEW also \in SUBSET Requests,
           NEW how \in {"closed", "aborted"},
           CloseOn(c, how), RunAbortHandler(c, also),
           \A r \in Requests : resObject[r] = c =>
               onAborted[c] = JsHandler(r) \/ r \in also,
           handling' = handling, terminated' = terminated,
           closing' \subseteq closing
    PROVE  ObjectInv'
<1> USE DEF CloseOn, RunAbortHandler, ForgetAbortHandler
<1>1. \A q \in Requests : resObject'[q] # c
  BY ConnsAssumption DEF TypeOK, ObjTypeOK
<1>2. \A q \in Requests : resObject'[q] \in {resObject[q], NoConn}
  BY DEF TypeOK, ObjTypeOK
<1>3. \A d \in Conns \ {c} : sock'[d] = sock[d]
  BY DEF TypeOK, ConnTypeOK
<1>4. insideCorkCallback' >= insideCorkCallback /\ insideCorkCallback' \in Nat
  BY DEF CallJSIf, CallJS, TypeOK, ConnTypeOK
<1> QED
  BY <1>1, <1>2, <1>3, <1>4, ObjectInvSettle

LEMMA ObjectInvRoute ==
    ASSUME TypeOK, ObjectInv, NEW c \in Conns, RouteHandler(c)
    PROVE  ObjectInv'
<1> USE HandlersDiffer, NoRequestIsNone, ConnsAssumption, RequestsAssumption
        DEF RouteHandler, RequestOn, CallJS, ObjectInv,
            TypeOK, ConnTypeOK, ObjTypeOK, LoopMayDispatch
<1>1. arrived + 1 \in Requests
  BY DEF Requests
<1>2. \A q \in Requests : resObject[q] # c
  BY DEF ObjectLeadsToItsRequest
<1>3. ObjectLeadsToItsRequest'
  BY <1>1, <1>2 DEF ObjectLeadsToItsRequest
<1>4. onAborted[c] = NoHandler
  BY DEF HandlerFollowsObject
<1>5. HandlerFollowsObject'
  BY <1>1, <1>2, <1>4 DEF HandlerFollowsObject
<1>6. handling = NoRequest
  BY DEF HandlerIsCounted
<1>7. ObjectIsGuarded'
  BY <1>1, <1>2, <1>6 DEF ObjectIsGuarded
<1>8. HandlerIsCounted'
  BY DEF HandlerIsCounted
<1> QED
  BY <1>3, <1>5, <1>7, <1>8

LEMMA ObjectInvReturn ==
    ASSUME TypeOK, ObjectInv, HandlerReturn
    PROVE  ObjectInv'
<1> USE NoRequestIsNone
        DEF HandlerReturn, ObjectInv, TypeOK, ConnTypeOK, ObjTypeOK
<1>1. ObjectLeadsToItsRequest' /\ HandlerFollowsObject' /\ HandlerIsCounted'
  BY DEF ObjectLeadsToItsRequest, HandlerFollowsObject, HandlerIsCounted
<1>2. ASSUME NEW r \in Requests, resObject[r] # NoConn, ~terminated', r = handling
      PROVE  onAborted[resObject[r]] = JsHandler(r)
  BY <1>2 DEF ObjectLeadsToItsRequest, HandlerFollowsObject
<1>3. ObjectIsGuarded'
  BY <1>2 DEF ObjectIsGuarded, JsMayCall
<1> QED
  BY <1>1, <1>3

LEMMA ObjectInvQuiet ==
    ASSUME CarefulClose, TypeOK, ObjectInv, QuietStep
    PROVE  ObjectInv'
<1> USE DepthAssumption DEF TypeOK, ConnTypeOK
<1>1. ASSUME NEW c \in Conns, Connect(c) PROVE ObjectInv'
  BY <1>1, ObjectInvFrame
     DEF Connect, stackUnchanged, objVars, ObjectInv, HandlerIsCounted
<1>2. ASSUME NEW c \in Conns, RouteHandler(c) PROVE ObjectInv'
  BY <1>2, ObjectInvRoute
<1>3. ASSUME NEW c \in Conns, Writable(c) PROVE ObjectInv'
  BY <1>3, ObjectInvFrame
     DEF Writable, CallJSIf, CallJS, stackUnchanged, ObjectInv, HandlerIsCounted
<1>4. ASSUME NEW c \in Conns, WebSocketClose(c) PROVE ObjectInv'
  <2>1. \A d \in Conns : sock[d] = "open" => sock'[d] = "open"
    BY <1>4 DEF WebSocketClose
  <2> QED
    BY <1>4, <2>1, ObjectInvFrame
       DEF WebSocketClose, CallJS, stackUnchanged, objVars
<1>5. ASSUME NEW r \in Requests, NEW closes \in BOOLEAN,
             InvalidateAndRespond(r, closes)
      PROVE  ObjectInv'
  BY <1>5, ObjectInvRespond
<1>6. ASSUME NEW r \in Requests,
             ResTryEndPartly(r) \/ ResWriteBackpressure(r) \/ ResOnWritable(r)
      PROVE  ObjectInv'
  BY <1>6, ObjectInvFrame
     DEF ResTryEndPartly, ResWriteBackpressure, ResOnWritable, connVars,
         ObjectInv, HandlerIsCounted
<1>7. ASSUME NEW r \in Requests, ResOnAborted(r) PROVE ObjectInv'
  <2>1. \A q \in Requests : resObject[q] # NoConn /\ resObject[q] = resObject[r] => q = r
    BY DEF ObjectInv, ObjectLeadsToItsRequest
  <2>2. resObject[r] \in Conns /\ pending[resObject[r]] = r
    BY <1>7 DEF ResOnAborted, getHttpResponse, ObjTypeOK, ObjectInv,
                ObjectLeadsToItsRequest
  <2>3. HandlerFollowsObject'
    BY <1>7, <2>1, <2>2, NoRequestIsNone
       DEF ResOnAborted, objVars, ObjectInv, HandlerFollowsObject, ObjTypeOK
  <2>4. ObjectIsGuarded'
    BY <1>7, <2>1, <2>2
       DEF ResOnAborted, objVars, stackUnchanged, ObjectInv, ObjectIsGuarded, ObjTypeOK
  <2> QED
    BY <1>7, <2>3, <2>4
       DEF ResOnAborted, objVars, stackUnchanged, ObjectInv,
           ObjectLeadsToItsRequest, HandlerIsCounted
<1>8. ASSUME NEW r \in Requests, ResCork(r) PROVE ObjectInv'
  BY <1>8, ObjectInvFrame DEF ResCork, CallJS, stackUnchanged, objVars
<1>9. ASSUME NEW r \in Requests, ResUpgrade(r) PROVE ObjectInv'
  <2> DEFINE c == resObject[r]
  <2> USE <1>9 DEF ResUpgrade, getHttpResponse, invalidateResObject,
          ForgetAbortHandler, stackUnchanged, CallJS, ObjTypeOK
  <2>1. c \in Conns /\ NoConn \notin Conns
    BY ConnsAssumption
  <2>2. \A q \in Requests : resObject'[q] # c
    BY <2>1 DEF ObjectInv, ObjectLeadsToItsRequest
  <2>3. \A q \in Requests : resObject'[q] \in {resObject[q], NoConn}
    OBVIOUS
  <2>4. \A d \in Conns \ {c} : sock'[d] = sock[d]
    OBVIOUS
  <2>5. /\ pending' = [pending EXCEPT ![c] = NoRequest]
        /\ onAborted' = [onAborted EXCEPT ![c] = NoHandler]
        /\ UNCHANGED <<handling, terminated, closing>>
        /\ insideCorkCallback' >= insideCorkCallback
        /\ insideCorkCallback' \in Nat
    OBVIOUS
  <2> HIDE <1>9 DEF c, TypeOK, ConnTypeOK, ObjTypeOK
  <2> QED
    BY <2>1, <2>2, <2>3, <2>4, <2>5, ObjectInvSettle
<1>10. ASSUME HandlerReturn PROVE ObjectInv'
  BY <1>10, ObjectInvReturn
<1>11. ASSUME CallbackReturn PROVE ObjectInv'
  BY <1>11, ObjectInvFrame DEF CallbackReturn, stackUnchanged, objVars
<1>12. ASSUME AppClose PROVE ObjectInv'
  <2>1. \A r \in Requests : resObject[r] # NoConn =>
            onAborted[resObject[r]] = JsHandler(r)
    BY <1>12, NoRequestIsNone
       DEF AppClose, ObjectInv, ObjectLeadsToItsRequest, HandlerFollowsObject, ObjTypeOK
  <2> QED
    BY <1>12, <2>1
       DEF AppClose, objVars, ObjectInv, ObjectLeadsToItsRequest,
           HandlerFollowsObject, ObjectIsGuarded, HandlerIsCounted
<1>13. ASSUME NEW c \in Conns, AnswerAtOnce(c) PROVE ObjectInv'
  BY <1>13, ObjectInvFrame
     DEF AnswerAtOnce, stackUnchanged, objVars, ObjectInv, HandlerIsCounted
<1> QED
  BY <1>1, <1>2, <1>3, <1>4, <1>5, <1>6, <1>7, <1>8, <1>9, <1>10, <1>11, <1>12,
     <1>13
     DEF QuietStep, ResEnd, ResEndWithoutBody, ResStreamFile, ResSendErrorPage,
         ResSendJSONError, ResTryEndDone

(* What closing a socket finds: every object on it is guarded. *)

LEMMA DisconnectGuarded ==
    ASSUME TypeOK, ObjectInv, NEW c \in Conns, Disconnect(c),
           NEW r \in Requests, resObject[r] = c
    PROVE  onAborted[c] = JsHandler(r)
<1>1. handling = NoRequest /\ ~terminated
  BY DEF Disconnect, LoopMayDispatch, ObjectInv, HandlerIsCounted
<1> QED
  BY <1>1, ConnsAssumption, NoRequestIsNone DEF ObjectInv, ObjectIsGuarded

LEMMA ResCloseOwn ==
    ASSUME TypeOK, ObjectInv, NEW r \in Requests, ResClose(r)
    PROVE  /\ resObject[r] \in Conns
           /\ \A q \in Requests : resObject[q] = resObject[r] => q = r
BY DEF ResClose, getHttpResponse, TypeOK, ObjTypeOK, ObjectInv,
       ObjectLeadsToItsRequest

LEMMA AppCloseGuarded ==
    ASSUME TypeOK, ObjectInv, NEW c \in Conns, AppCloseSocket(c),
           NEW r \in Requests, resObject[r] = c
    PROVE  onAborted[c] = JsHandler(r)
BY ConnsAssumption DEF AppCloseSocket, ObjectInv, ObjectIsGuarded

LEMMA ObjectInvNext ==
    ASSUME CarefulClose, TypeOK, ObjectInv, [Next]_vars
    PROVE  ObjectInv'
<1>1. CASE QuietStep
  BY <1>1, ObjectInvQuiet
<1>2. ASSUME NEW c \in Conns, Disconnect(c) PROVE ObjectInv'
  <2>1. \A r \in Requests : resObject[r] = c => onAborted[c] = JsHandler(r)
    BY <1>2, DisconnectGuarded
  <2> QED
    BY <1>2, <2>1, ObjectInvClose DEF Disconnect, stackUnchanged
<1>3. ASSUME NEW r \in Requests, ResClose(r) PROVE ObjectInv'
  <2> DEFINE c == resObject[r]
  <2>1. c \in Conns /\ \A q \in Requests : resObject[q] = c => q \in {r}
    BY <1>3, ResCloseOwn
  <2>2. /\ CloseOn(c, "closed") /\ RunAbortHandler(c, {r})
        /\ UNCHANGED <<handling, terminated, closing>>
    BY <1>3 DEF ResClose, stackUnchanged
  <2> HIDE DEF c
  <2> QED
    BY <2>1, <2>2, ObjectInvClose
<1>4. ASSUME NEW c \in Conns, AppCloseSocket(c) PROVE ObjectInv'
  <2>1. \A r \in Requests : resObject[r] = c => onAborted[c] = JsHandler(r)
    BY <1>4, AppCloseGuarded
  <2> QED
    BY <1>4, <2>1, ObjectInvClose DEF AppCloseSocket
<1>5. CASE UNCHANGED vars
  BY <1>5, ObjectInvFrame DEF vars, connVars, objVars, ObjectInv, HandlerIsCounted
<1> QED
  BY <1>1, <1>2, <1>3, <1>4, <1>5 DEF Next

LEMMA ObjectInvInit == Init => ObjectInv
BY DEF Init, ConnInit, ObjInit, ObjectInv, ObjectLeadsToItsRequest,
       HandlerFollowsObject, ObjectIsGuarded, HandlerIsCounted

\* However many sockets and requests there are and however the calls nest, a
\* response object with a pointer leads to its own pending request.
THEOREM ObjectSafety ==
    ASSUME CarefulClose
    PROVE  Spec => []ObjectLeadsToItsRequest
<1>1. ObjectInv => ObjectLeadsToItsRequest
  BY DEF ObjectInv
<1>2. TypeOK /\ ObjectInv /\ [Next]_vars => ObjectInv'
  BY ObjectInvNext
<1> QED
  BY <1>1, <1>2, ObjectInvInit, TypeCorrect, PTL DEF Spec

-------------------------------------------------------------------------------
(* How requests end: LifecycleInv is inductive beside ObjectInv.             *)

LEMMA LifecycleFrame ==
    ASSUME LifecycleInv, UNCHANGED <<pending, outcome, resObject, aborts, arrived>>
    PROVE  LifecycleInv'
BY DEF LifecycleInv, PendingHasObject, NotYetArrived, AbortReported

(* The response pending on c, if any, ends in the way "how". *)
LEMMA LifecycleSettle ==
    ASSUME TypeOK, ObjectInv, LifecycleInv, NEW c \in Conns,
           NEW how \in {"answered", "upgraded", "closed", "aborted"},
           pending' = [pending EXCEPT ![c] = NoRequest],
           outcome' = Settled(c, how),
           arrived' = arrived,
           \A r \in Requests : r # pending[c] =>
               resObject'[r] = resObject[r] /\ aborts'[r] = aborts[r],
           pending[c] # NoRequest =>
               /\ how \in {"answered", "upgraded"} =>
                      aborts'[pending[c]] = aborts[pending[c]]
               /\ how = "closed" =>
                      aborts'[pending[c]] \in aborts[pending[c]] .. aborts[pending[c]] + 1
               /\ how = "aborted" => aborts'[pending[c]] = aborts[pending[c]] + 1
    PROVE  LifecycleInv'
<1> USE NoRequestIsNone DEF LifecycleInv, TypeOK, ConnTypeOK, ObjTypeOK
<1>1. \A d \in Conns : pending[d] # NoRequest /\ pending[d] = pending[c] => d = c
  BY DEF PendingHasObject
<1>2. PendingHasObject'
  BY <1>1 DEF PendingHasObject, Settled
<1>3. NotYetArrived'
  <2>1. pending[c] # NoRequest => ~(pending[c] > arrived)
    BY DEF PendingHasObject, NotYetArrived
  <2> QED
    BY <2>1 DEF NotYetArrived, Settled
<1>4. AbortReported'
  <2> SUFFICES ASSUME NEW r \in Requests
               PROVE  /\ outcome'[r] = "aborted" => aborts'[r] = 1
                      /\ outcome'[r] = "closed"  => aborts'[r] \in {0, 1}
                      /\ outcome'[r] \notin {"aborted", "closed"} => aborts'[r] = 0
    BY DEF AbortReported
  <2>1. CASE r # pending[c]
    BY <2>1 DEF AbortReported, Settled
  <2>2. CASE r = pending[c]
    <3>1. outcome[r] = "waiting" /\ aborts[r] = 0
      BY <2>2 DEF PendingHasObject, AbortReported
    <3> QED
      BY <2>2, <3>1 DEF Settled
  <2> QED
    BY <2>1, <2>2
<1> QED
  BY <1>2, <1>3, <1>4

LEMMA LifecycleClose ==
    ASSUME TypeOK, ObjectInv, LifecycleInv, NEW c \in Conns,
           NEW also \in SUBSET Requests, NEW how \in {"closed", "aborted"},
           CloseOn(c, how), RunAbortHandler(c, also),
           \A r \in also : pending[c] = r,
           how = "aborted" => \A r \in Requests : resObject[r] = c =>
                                  onAborted[c] = JsHandler(r),
           arrived' = arrived
    PROVE  LifecycleInv'
<1> USE NoRequestIsNone DEF TypeOK, ConnTypeOK, ObjTypeOK
<1>1. \A r \in Requests : onAborted[c] = JsHandler(r) => pending[c] = r
  <2> SUFFICES ASSUME NEW r \in Requests, onAborted[c] = JsHandler(r)
               PROVE  pending[c] = r
    OBVIOUS
  <2>1. pending[c] # NoRequest
    BY HandlersDiffer DEF ObjectInv, HandlerFollowsObject
  <2>2. resObject[pending[c]] = c
    BY <2>1 DEF LifecycleInv, PendingHasObject
  <2> QED
    BY <2>1, <2>2, HandlersDiffer, ConnsAssumption DEF ObjectInv, HandlerFollowsObject
<1>2. \A r \in Requests : r # pending[c] =>
          resObject'[r] = resObject[r] /\ aborts'[r] = aborts[r]
  BY <1>1 DEF RunAbortHandler
<1>3. ASSUME pending[c] # NoRequest
      PROVE  /\ aborts'[pending[c]] \in aborts[pending[c]] .. aborts[pending[c]] + 1
             /\ how = "aborted" => aborts'[pending[c]] = aborts[pending[c]] + 1
  BY <1>3 DEF RunAbortHandler, LifecycleInv, PendingHasObject
<1>4. pending' = [pending EXCEPT ![c] = NoRequest] /\ outcome' = Settled(c, how)
  BY DEF CloseOn
<1> HIDE DEF TypeOK, ConnTypeOK, ObjTypeOK
<1> QED
  BY <1>2, <1>3, <1>4, LifecycleSettle

LEMMA LifecycleRoute ==
    ASSUME TypeOK, ObjectInv, LifecycleInv, NEW c \in Conns, RouteHandler(c)
    PROVE  LifecycleInv'
<1> USE NoRequestIsNone, RequestsAssumption
        DEF RouteHandler, RequestOn, TypeOK, ConnTypeOK, ObjTypeOK, LifecycleInv
<1>1. arrived + 1 \in Requests /\ outcome[arrived + 1] = "none"
  BY DEF Requests, NotYetArrived
<1>2. \A d \in Conns : pending[d] # arrived + 1
  BY <1>1 DEF PendingHasObject
<1>3. PendingHasObject'
  BY <1>1, <1>2 DEF PendingHasObject
<1>4. NotYetArrived'
  BY DEF NotYetArrived, Requests
<1>5. AbortReported'
  BY <1>1 DEF AbortReported
<1> QED
  BY <1>3, <1>4, <1>5

LEMMA LifecycleAtOnce ==
    ASSUME TypeOK, LifecycleInv, NEW c \in Conns, AnswerAtOnce(c)
    PROVE  LifecycleInv'
<1> USE NoRequestIsNone, RequestsAssumption
        DEF AnswerAtOnce, objVars, TypeOK, ConnTypeOK, ObjTypeOK, LifecycleInv
<1>1. arrived + 1 \in Requests /\ outcome[arrived + 1] = "none"
  BY DEF Requests, NotYetArrived
<1>2. PendingHasObject'
  BY <1>1 DEF PendingHasObject
<1>3. NotYetArrived'
  BY DEF NotYetArrived, Requests
<1>4. AbortReported'
  BY <1>1 DEF AbortReported
<1> QED
  BY <1>2, <1>3, <1>4

LEMMA LifecycleOwn ==
    ASSUME TypeOK, ObjectInv, NEW r \in Requests, resObject[r] # NoConn
    PROVE  /\ resObject[r] \in Conns
           /\ pending[resObject[r]] = r
           /\ r # NoRequest
BY NoRequestIsNone DEF TypeOK, ObjTypeOK, ObjectInv, ObjectLeadsToItsRequest

LEMMA LifecycleNext ==
    ASSUME TypeOK, ObjectInv, LifecycleInv, [Next]_vars
    PROVE  LifecycleInv'
<1>1. ASSUME NEW c \in Conns, RouteHandler(c) PROVE LifecycleInv'
  BY <1>1, LifecycleRoute
<1>2. ASSUME NEW r \in Requests, NEW closes \in BOOLEAN,
             InvalidateAndRespond(r, closes)
      PROVE  LifecycleInv'
  <2> DEFINE c == resObject[r]
  <2>1. c \in Conns /\ pending[c] = r
    BY <1>2, LifecycleOwn DEF InvalidateAndRespond, getHttpResponse
  <2>2. \A q \in Requests : q # pending[c] =>
            resObject'[q] = resObject[q] /\ aborts'[q] = aborts[q]
    BY <1>2, <2>1 DEF InvalidateAndRespond, invalidateResObject, TypeOK, ObjTypeOK
  <2>3. /\ pending' = [pending EXCEPT ![c] = NoRequest]
        /\ outcome' = Settled(c, "answered")
        /\ arrived' = arrived /\ aborts' = aborts
    BY <1>2 DEF InvalidateAndRespond, RespondOn
  <2> HIDE DEF c
  <2> QED
    BY <2>1, <2>2, <2>3, LifecycleSettle
<1>3. ASSUME NEW r \in Requests, ResUpgrade(r) PROVE LifecycleInv'
  <2> DEFINE c == resObject[r]
  <2>1. c \in Conns /\ pending[c] = r
    BY <1>3, LifecycleOwn DEF ResUpgrade, getHttpResponse
  <2>2. \A q \in Requests : q # pending[c] =>
            resObject'[q] = resObject[q] /\ aborts'[q] = aborts[q]
    BY <1>3, <2>1 DEF ResUpgrade, invalidateResObject, TypeOK, ObjTypeOK
  <2>3. /\ pending' = [pending EXCEPT ![c] = NoRequest]
        /\ outcome' = Settled(c, "upgraded")
        /\ arrived' = arrived /\ aborts' = aborts
    BY <1>3 DEF ResUpgrade
  <2> HIDE DEF c
  <2> QED
    BY <2>1, <2>2, <2>3, LifecycleSettle
<1>4. ASSUME NEW c \in Conns, Disconnect(c) PROVE LifecycleInv'
  <2>1. \A r \in Requests : resObject[r] = c => onAborted[c] = JsHandler(r)
    BY <1>4, DisconnectGuarded
  <2> QED
    BY <1>4, <2>1, LifecycleClose DEF Disconnect
<1>5. ASSUME NEW r \in Requests, ResClose(r) PROVE LifecycleInv'
  <2> DEFINE c == resObject[r]
  <2>1. c \in Conns /\ pending[c] = r
    BY <1>5, LifecycleOwn DEF ResClose, getHttpResponse
  <2>2. CloseOn(c, "closed") /\ RunAbortHandler(c, {r}) /\ arrived' = arrived
    BY <1>5 DEF ResClose
  <2> HIDE DEF c
  <2> QED
    BY <2>1, <2>2, LifecycleClose
<1>6. ASSUME NEW c \in Conns, AppCloseSocket(c) PROVE LifecycleInv'
  <2>1. \A r \in Requests : resObject[r] = c => onAborted[c] = JsHandler(r)
    BY <1>6, AppCloseGuarded
  <2> QED
    BY <1>6, <2>1, LifecycleClose DEF AppCloseSocket
<1>7. ASSUME NEW c \in Conns, Connect(c) \/ Writable(c) \/ WebSocketClose(c)
      PROVE  LifecycleInv'
  BY <1>7, LifecycleFrame
     DEF Connect, Writable, WebSocketClose, objVars
<1>8. ASSUME NEW r \in Requests,
             \/ ResTryEndPartly(r) \/ ResWriteBackpressure(r) \/ ResOnWritable(r)
             \/ ResOnAborted(r) \/ ResCork(r)
      PROVE  LifecycleInv'
  BY <1>8, LifecycleFrame
     DEF ResTryEndPartly, ResWriteBackpressure, ResOnWritable, ResOnAborted, ResCork,
         objVars, connVars
<1>9. CASE HandlerReturn \/ CallbackReturn \/ AppClose \/ UNCHANGED vars
  BY <1>9, LifecycleFrame
     DEF HandlerReturn, CallbackReturn, AppClose, vars, objVars, connVars
<1>10. ASSUME NEW c \in Conns, AnswerAtOnce(c) PROVE LifecycleInv'
  BY <1>10, LifecycleAtOnce
<1> QED
  BY <1>1, <1>2, <1>3, <1>4, <1>5, <1>6, <1>7, <1>8, <1>9, <1>10
     DEF Next, QuietStep, ResEnd, ResEndWithoutBody, ResStreamFile,
         ResSendErrorPage, ResSendJSONError, ResTryEndDone

LEMMA LifecycleInit == Init => LifecycleInv
BY DEF Init, ConnInit, ObjInit, LifecycleInv, PendingHasObject, NotYetArrived,
       AbortReported

LEMMA AllInvariants == ASSUME CarefulClose
                       PROVE  Spec => [](TypeOK /\ ObjectInv /\ LifecycleInv)
<1>1. TypeOK /\ ObjectInv /\ LifecycleInv /\ [Next]_vars => ObjectInv' /\ LifecycleInv'
  BY ObjectInvNext, LifecycleNext
<1> QED
  BY <1>1, ObjectInvInit, LifecycleInit, TypeCorrect, PTL DEF Spec

\* JavaScript is told of every response the client aborts, once, and of no
\* response that was answered.
THEOREM AbortSafety ==
    ASSUME CarefulClose
    PROVE  Spec => []AbortReported
<1>1. LifecycleInv => AbortReported
  BY DEF LifecycleInv
<1> QED
  BY <1>1, AllInvariants, PTL

\* A response that still waits after its handler is guarded by an abort handler
\* for its own object.
THEOREM GuardSafety ==
    ASSUME CarefulClose
    PROVE  Spec => []PendingIsGuarded
<1>1. TypeOK /\ ObjectInv /\ LifecycleInv => PendingIsGuarded
  BY ConnsAssumption
     DEF TypeOK, ConnTypeOK, ObjectInv, ObjectIsGuarded, LifecycleInv, PendingHasObject,
         PendingIsGuarded
<1> QED
  BY <1>1, AllInvariants, PTL

-------------------------------------------------------------------------------
(* The refinement of RequestLifecycle.                                       *)

Holders == {r \in Requests : resObject[r] # NoConn}

LifecycleStep == Lifecycle!Next \/ UNCHANGED <<pending, outcome, Holders>>

LEMMA StepSettles ==
    ASSUME TypeOK, ObjectInv, NEW r \in Requests, resObject[r] # NoConn,
           NEW how \in {"answered", "upgraded", "closed"},
           pending' = [pending EXCEPT ![resObject[r]] = NoRequest],
           outcome' = Settled(resObject[r], how),
           resObject'[r] = NoConn,
           \A q \in Requests : q # r => resObject'[q] = resObject[q]
    PROVE  Lifecycle!Next
<1> DEFINE c == resObject[r]
<1>1. c \in Conns /\ pending[c] = r
  BY LifecycleOwn
<1>2. r \in Holders /\ Holders' = Holders \ {r}
  BY DEF Holders, TypeOK, ObjTypeOK
<1>3. outcome' = [outcome EXCEPT ![r] = how]
  BY <1>1 DEF Settled, TypeOK, ConnTypeOK
<1>4. Lifecycle!Settle(c, how)
  BY <1>1, <1>2, <1>3 DEF Lifecycle!Settle, Lifecycle!NoRequest, NoRequest, Holders
<1> QED
  BY <1>1, <1>4 DEF Lifecycle!Next, Lifecycle!BySettling

LEMMA StepAborts ==
    ASSUME TypeOK, ObjectInv, LifecycleInv, NEW c \in Conns,
           CloseOn(c, "aborted"), RunAbortHandler(c, {}),
           \A r \in Requests : resObject[r] = c => onAborted[c] = JsHandler(r)
    PROVE  LifecycleStep
<1> USE NoRequestIsNone DEF CloseOn, RunAbortHandler, TypeOK, ConnTypeOK, ObjTypeOK
<1>1. CASE pending[c] = NoRequest
  <2>1. onAborted[c] = NoHandler
    BY <1>1 DEF ObjectInv, HandlerFollowsObject
  <2>2. pending' = pending /\ outcome' = outcome
    BY <1>1 DEF Settled
  <2>3. Holders' = Holders
    BY <2>1, HandlersDiffer DEF Holders
  <2> QED
    BY <2>2, <2>3 DEF LifecycleStep
<1>2. CASE pending[c] # NoRequest
  <2> DEFINE r == pending[c]
  <2>1. r \in Requests /\ resObject[r] = c /\ onAborted[c] = JsHandler(r)
    BY <1>2 DEF LifecycleInv, PendingHasObject
  <2>2. r \in Holders /\ Holders' = Holders \ {r}
    BY <2>1, HandlersDiffer, ConnsAssumption DEF Holders
  <2>3. outcome' = [outcome EXCEPT ![r] = "aborted"]
    BY <2>1 DEF Settled
  <2>4. Lifecycle!Abort(c)
    BY <1>2, <2>2, <2>3 DEF Lifecycle!Abort, Lifecycle!NoRequest, NoRequest, Holders
  <2> QED
    BY <2>4 DEF LifecycleStep, Lifecycle!Next
<1> QED
  BY <1>1, <1>2

LEMMA StepArrives ==
    ASSUME TypeOK, ObjectInv, LifecycleInv, NEW c \in Conns, RouteHandler(c)
    PROVE  Lifecycle!Next
<1>1. PICK r \in Requests : r = arrived + 1
  BY RequestsAssumption
     DEF Requests, RouteHandler, RequestOn, TypeOK, ConnTypeOK
<1>2. outcome[r] = "none"
  BY <1>1 DEF LifecycleInv, NotYetArrived, Requests, TypeOK, ConnTypeOK
<1>3. Holders' = Holders \union {r}
  BY <1>1, ConnsAssumption DEF Holders, RouteHandler, TypeOK, ObjTypeOK
<1>4. Lifecycle!Arrive(c, r)
  BY <1>1, <1>2, <1>3
     DEF Lifecycle!Arrive, Lifecycle!NoRequest, NoRequest, Holders,
         RouteHandler, RequestOn
<1> QED
  BY <1>4 DEF Lifecycle!Next

LEMMA StepAnswersAtOnce ==
    ASSUME TypeOK, LifecycleInv, NEW c \in Conns, AnswerAtOnce(c)
    PROVE  Lifecycle!Next
<1>1. PICK r \in Requests : r = arrived + 1
  BY RequestsAssumption DEF Requests, AnswerAtOnce, TypeOK, ConnTypeOK
<1>2. outcome[r] = "none"
  BY <1>1 DEF LifecycleInv, NotYetArrived, Requests, TypeOK, ConnTypeOK
<1>3. Holders' = Holders
  BY DEF Holders, AnswerAtOnce, objVars
<1>4. Lifecycle!AnswerAtOnce(c, r)
  BY <1>1, <1>2, <1>3
     DEF Lifecycle!AnswerAtOnce, Lifecycle!NoRequest, NoRequest, Holders, AnswerAtOnce
<1> QED
  BY <1>4 DEF Lifecycle!Next

LEMMA StepRefines ==
    ASSUME TypeOK, ObjectInv, LifecycleInv, [Next]_vars
    PROVE  LifecycleStep
<1>1. ASSUME NEW c \in Conns, RouteHandler(c) PROVE LifecycleStep
  BY <1>1, StepArrives DEF LifecycleStep
<1>2. ASSUME NEW r \in Requests, NEW closes \in BOOLEAN,
             InvalidateAndRespond(r, closes)
      PROVE  LifecycleStep
  <2>1. /\ resObject[r] # NoConn /\ resObject'[r] = NoConn
        /\ \A q \in Requests : q # r => resObject'[q] = resObject[q]
        /\ pending' = [pending EXCEPT ![resObject[r]] = NoRequest]
        /\ outcome' = Settled(resObject[r], "answered")
    BY <1>2 DEF InvalidateAndRespond, getHttpResponse, invalidateResObject,
                RespondOn, TypeOK, ObjTypeOK
  <2> QED
    BY <2>1, StepSettles DEF LifecycleStep
<1>3. ASSUME NEW r \in Requests, ResUpgrade(r) PROVE LifecycleStep
  <2>1. /\ resObject[r] # NoConn /\ resObject'[r] = NoConn
        /\ \A q \in Requests : q # r => resObject'[q] = resObject[q]
        /\ pending' = [pending EXCEPT ![resObject[r]] = NoRequest]
        /\ outcome' = Settled(resObject[r], "upgraded")
    BY <1>3 DEF ResUpgrade, getHttpResponse, invalidateResObject, TypeOK, ObjTypeOK
  <2> QED
    BY <2>1, StepSettles DEF LifecycleStep
<1>4. ASSUME NEW r \in Requests, ResClose(r) PROVE LifecycleStep
  <2>1. resObject[r] # NoConn /\ resObject[r] \in Conns
    BY <1>4, ResCloseOwn DEF ResClose, getHttpResponse
  <2>2. \A q \in Requests : onAborted[resObject[r]] = JsHandler(q) => q = r
    BY <2>1, LifecycleOwn, HandlersDiffer DEF ObjectInv, HandlerFollowsObject
  <2>3. /\ resObject'[r] = NoConn
        /\ \A q \in Requests : q # r => resObject'[q] = resObject[q]
        /\ pending' = [pending EXCEPT ![resObject[r]] = NoRequest]
        /\ outcome' = Settled(resObject[r], "closed")
    BY <1>4, <2>2 DEF ResClose, CloseOn, RunAbortHandler
  <2> QED
    BY <2>1, <2>3, StepSettles DEF LifecycleStep
<1>5. ASSUME NEW c \in Conns, Disconnect(c) PROVE LifecycleStep
  <2>1. \A r \in Requests : resObject[r] = c => onAborted[c] = JsHandler(r)
    BY <1>5, DisconnectGuarded
  <2> QED
    BY <1>5, <2>1, StepAborts DEF Disconnect
<1>6. ASSUME NEW c \in Conns, AppCloseSocket(c) PROVE LifecycleStep
  <2>1. \A r \in Requests : resObject[r] = c => onAborted[c] = JsHandler(r)
    BY <1>6, AppCloseGuarded
  <2> QED
    BY <1>6, <2>1, StepAborts DEF AppCloseSocket
<1>7. ASSUME NEW c \in Conns, Connect(c) \/ Writable(c) \/ WebSocketClose(c)
      PROVE  LifecycleStep
  BY <1>7 DEF Connect, Writable, WebSocketClose, objVars, LifecycleStep, Holders
<1>8. ASSUME NEW r \in Requests,
             \/ ResTryEndPartly(r) \/ ResWriteBackpressure(r) \/ ResOnWritable(r)
             \/ ResOnAborted(r) \/ ResCork(r)
      PROVE  LifecycleStep
  BY <1>8 DEF ResTryEndPartly, ResWriteBackpressure, ResOnWritable, ResOnAborted,
              ResCork, objVars, connVars, LifecycleStep, Holders
<1>9. CASE HandlerReturn \/ CallbackReturn \/ AppClose \/ UNCHANGED vars
  BY <1>9 DEF HandlerReturn, CallbackReturn, AppClose, vars, objVars, connVars,
              LifecycleStep, Holders
<1>10. ASSUME NEW c \in Conns, AnswerAtOnce(c) PROVE LifecycleStep
  BY <1>10, StepAnswersAtOnce DEF LifecycleStep
<1> QED
  BY <1>1, <1>2, <1>3, <1>4, <1>5, <1>6, <1>7, <1>8, <1>9, <1>10
     DEF Next, QuietStep, ResEnd, ResEndWithoutBody, ResStreamFile,
         ResSendErrorPage, ResSendJSONError, ResTryEndDone

LEMMA InitRefines == Init => Lifecycle!Init
BY DEF Init, ConnInit, ObjInit, Lifecycle!Init, Lifecycle!NoRequest, NoRequest

\* The response wrapper implements RequestLifecycle: every request is settled at
\* most once, and its object exists exactly while it waits.
THEOREM Refinement ==
    ASSUME CarefulClose
    PROVE  Spec => ImplementsLifecycle
<1>1. TypeOK /\ ObjectInv /\ LifecycleInv /\ [Next]_vars
          => [Lifecycle!Next]_(Lifecycle!vars)
  BY StepRefines DEF LifecycleStep, Holders, Lifecycle!vars
<1> QED
  BY <1>1, InitRefines, AllInvariants, PTL
     DEF ImplementsLifecycle, Lifecycle!Spec, Spec

-------------------------------------------------------------------------------
(* What follows from the refinement: pointers are taken by settling, and who    *)
(* waits has one.                                                               *)

WaitingHasObject == \A r \in Requests : outcome[r] = "waiting" => r \in Holders

LEMMA StepSettlesOrKeeps ==
    ASSUME TypeOK, LifecycleStep, NEW r \in Requests
    PROVE  /\ r \in Holders /\ r \notin Holders' =>
                  outcome'[r] \in {"answered", "upgraded", "closed", "aborted"}
           /\ outcome'[r] = "waiting" => outcome[r] = "waiting" \/ r \in Holders'
<1> USE DEF TypeOK, ConnTypeOK
<1>1. CASE UNCHANGED <<pending, outcome, Holders>>
  BY <1>1
<1>2. ASSUME NEW c \in Conns, NEW q \in Requests, Lifecycle!Arrive(c, q)
      PROVE  /\ Holders' = Holders \union {q}
             /\ outcome' = [outcome EXCEPT ![q] = "waiting"]
  BY <1>2 DEF Lifecycle!Arrive, Holders
<1>3. ASSUME NEW c \in Conns, NEW q \in Requests, Lifecycle!AnswerAtOnce(c, q)
      PROVE  /\ Holders' = Holders
             /\ outcome' = [outcome EXCEPT ![q] = "answered"]
  BY <1>3 DEF Lifecycle!AnswerAtOnce, Holders
<1>4. ASSUME NEW c \in Conns, NEW how \in Lifecycle!BySettling, Lifecycle!Settle(c, how)
      PROVE  /\ Holders' = Holders \ {pending[c]}
             /\ outcome' = [outcome EXCEPT ![pending[c]] = how]
             /\ how \in {"answered", "upgraded", "closed", "aborted"}
  BY <1>4 DEF Lifecycle!Settle, Lifecycle!BySettling, Holders
<1>5. ASSUME NEW c \in Conns, Lifecycle!Abort(c)
      PROVE  /\ Holders' = Holders \ {pending[c]}
             /\ outcome' = [outcome EXCEPT ![pending[c]] = "aborted"]
  BY <1>5 DEF Lifecycle!Abort, Holders
<1>6. \A q \in Requests : ~ Lifecycle!Abandon(q)
  BY DEF Lifecycle!Abandon
<1> HIDE DEF Holders
<1>7. CASE \E c \in Conns, q \in Requests : Lifecycle!Arrive(c, q)
  BY <1>2, <1>7
<1>8. CASE \E c \in Conns, q \in Requests : Lifecycle!AnswerAtOnce(c, q)
  BY <1>3, <1>8
<1>9. CASE \E c \in Conns, how \in Lifecycle!BySettling : Lifecycle!Settle(c, how)
  BY <1>4, <1>9
<1>10. CASE \E c \in Conns : Lifecycle!Abort(c)
  BY <1>5, <1>10
<1> QED
  BY <1>1, <1>6, <1>7, <1>8, <1>9, <1>10 DEF LifecycleStep, Lifecycle!Next

(* Only a route handler gives an object its pointer. *)
LEMMA StepGives ==
    ASSUME TypeOK, [Next]_vars, NEW r \in Requests,
           resObject[r] = NoConn, resObject'[r] # NoConn
    PROVE  r = arrived'
<1> USE DEF TypeOK, ObjTypeOK
<1>1. ASSUME NEW c \in Conns, RouteHandler(c) PROVE r = arrived'
  BY <1>1 DEF RouteHandler, RequestOn
<1>2. ASSUME NEW c \in Conns, NEW also, RunAbortHandler(c, also) PROVE FALSE
  BY <1>2 DEF RunAbortHandler
<1>3. ASSUME NEW q \in Requests, invalidateResObject(q) PROVE FALSE
  BY <1>3 DEF invalidateResObject
<1>4. ASSUME UNCHANGED resObject PROVE FALSE
  BY <1>4
<1>5. ASSUME NEW c \in Conns,
             \/ Connect(c) \/ AnswerAtOnce(c) \/ Writable(c) \/ WebSocketClose(c)
             \/ Disconnect(c) \/ AppCloseSocket(c)
      PROVE  FALSE
  BY <1>2, <1>4, <1>5 DEF Connect, AnswerAtOnce, Writable, WebSocketClose, Disconnect,
     AppCloseSocket, objVars
<1>6. ASSUME NEW q \in Requests, NEW closes \in BOOLEAN, InvalidateAndRespond(q, closes)
      PROVE  FALSE
  BY <1>3, <1>6 DEF InvalidateAndRespond
<1>7. ASSUME NEW q \in Requests,
             \/ ResTryEndPartly(q) \/ ResWriteBackpressure(q) \/ ResOnWritable(q)
             \/ ResOnAborted(q) \/ ResCork(q)
      PROVE  FALSE
  BY <1>4, <1>7 DEF ResTryEndPartly, ResWriteBackpressure, ResOnWritable, ResOnAborted,
     ResCork, objVars
<1>8. ASSUME NEW q \in Requests, ResUpgrade(q) PROVE FALSE
  BY <1>3, <1>8 DEF ResUpgrade
<1>9. ASSUME NEW q \in Requests, ResClose(q) PROVE FALSE
  <2>1. resObject[q] \in Conns /\ RunAbortHandler(resObject[q], {q})
    BY <1>9 DEF ResClose, getHttpResponse
  <2> QED
    BY <1>2, <2>1
<1>10. CASE HandlerReturn \/ CallbackReturn \/ AppClose \/ UNCHANGED vars
  BY <1>4, <1>10 DEF HandlerReturn, CallbackReturn, AppClose, vars, objVars
<1> QED
  BY <1>1, <1>5, <1>6, <1>7, <1>8, <1>9, <1>10
     DEF Next, QuietStep, ResEnd, ResEndWithoutBody, ResStreamFile,
         ResSendErrorPage, ResSendJSONError, ResTryEndDone

LEMMA WaitingInvariant ==
    ASSUME CarefulClose
    PROVE  Spec => []WaitingHasObject
<1>1. Init => WaitingHasObject
  BY DEF Init, ConnInit, WaitingHasObject
<1>2. /\ TypeOK /\ ObjectInv /\ LifecycleInv /\ [Next]_vars /\ WaitingHasObject
      => WaitingHasObject'
  <2> SUFFICES ASSUME TypeOK, ObjectInv, LifecycleInv, [Next]_vars, WaitingHasObject,
                      NEW r \in Requests, outcome'[r] = "waiting"
               PROVE  r \in Holders'
    BY DEF WaitingHasObject
  <2>1. LifecycleStep
    BY StepRefines
  <2> QED
    BY <2>1, StepSettlesOrKeeps DEF WaitingHasObject
<1> QED
  BY <1>1, <1>2, AllInvariants, PTL DEF Spec

\* A response JavaScript has neither settled nor heard the end of can still be used,
\* as docs/index.d.ts says, when protocol.close() is called with care.
\* (uWS_Proto_close, res_onAborted)
THEOREM ValiditySafety ==
    ASSUME CarefulClose
    PROVE  Spec => []ValidUntilAbortedOrEnded
<1>1. TypeOK /\ ObjectInv /\ LifecycleInv /\ WaitingHasObject => ValidUntilAbortedOrEnded
  <2> SUFFICES ASSUME TypeOK, ObjectInv, LifecycleInv, WaitingHasObject,
                      NEW r \in Requests, outcome[r] \in {"waiting", "aborted"},
                      aborts[r] = 0
               PROVE  \E c \in Conns : resObject[r] = c /\ pending[c] = r
    BY RequestsAssumption DEF ValidUntilAbortedOrEnded, Requests, TypeOK, ConnTypeOK
  <2>1. outcome[r] = "waiting"
    BY DEF LifecycleInv, AbortReported
  <2>2. resObject[r] # NoConn
    BY <2>1 DEF WaitingHasObject, Holders
  <2> QED
    BY <2>2 DEF ObjectInv, ObjectLeadsToItsRequest, TypeOK, ObjTypeOK
<1> QED
  BY <1>1, AllInvariants, WaitingInvariant, PTL

\* JavaScript is cut off from no response that still waits, and is given none a second
\* time.  (invalidateResObject, the route handlers)
THEOREM PointerSafety ==
    ASSUME CarefulClose
    PROVE  Spec => PointerTakenOnlyBySettling
<1>1. TypeOK /\ ObjectInv /\ LifecycleInv /\ [Next]_vars =>
          [\A r \in Requests :
              /\ resObject[r] # NoConn /\ resObject'[r] = NoConn =>
                     outcome'[r] \in {"answered", "upgraded", "closed", "aborted"}
              /\ resObject[r] = NoConn /\ resObject'[r] # NoConn => r = arrived']_vars
  <2> SUFFICES ASSUME TypeOK, ObjectInv, LifecycleInv, [Next]_vars, NEW r \in Requests
               PROVE  /\ resObject[r] # NoConn /\ resObject'[r] = NoConn =>
                            outcome'[r] \in {"answered", "upgraded", "closed", "aborted"}
                      /\ resObject[r] = NoConn /\ resObject'[r] # NoConn => r = arrived'
    OBVIOUS
  <2>1. resObject[r] # NoConn /\ resObject'[r] = NoConn =>
            outcome'[r] \in {"answered", "upgraded", "closed", "aborted"}
    BY StepRefines, StepSettlesOrKeeps DEF Holders
  <2>2. resObject[r] = NoConn /\ resObject'[r] # NoConn => r = arrived'
    BY StepGives
  <2> QED
    BY <2>1, <2>2
<1> QED
  BY <1>1, AllInvariants, PTL DEF Spec, PointerTakenOnlyBySettling

-------------------------------------------------------------------------------
(* Request objects. *)

\* The pointer of a request object is there exactly while its handler is on the stack,
\* however calls nest above it.  (the route lambdas of AppWrapper.h)
THEOREM RequestObjectSafety == Spec => []RequestObjectOnStack
<1>1. Init => RequestObjectOnStack
  BY DEF Init, ConnInit, ObjInit, RequestObjectOnStack
<1>2. TypeOK /\ RequestObjectOnStack /\ [Next]_vars => RequestObjectOnStack'
  <2> SUFFICES ASSUME TypeOK, RequestObjectOnStack, [Next]_vars
               PROVE  RequestObjectOnStack'
    OBVIOUS
  <2> USE NoRequestIsNone DEF RequestObjectOnStack
  <2>1. insideCorkCallback \in Nat /\ arrived \in Nat
    BY DEF TypeOK, ConnTypeOK
  <2>2. ASSUME UNCHANGED <<handling, reqObject>>,
               \/ CallJS \/ UNCHANGED insideCorkCallback
        PROVE  RequestObjectOnStack'
    BY <2>1, <2>2 DEF CallJS
  <2>3. ASSUME NEW c \in Conns, RouteHandler(c) PROVE RequestObjectOnStack'
    <3>1. reqObject = {}
      BY <2>3 DEF RouteHandler, RequestOn, LoopMayDispatch
    <3>2. /\ handling' = arrived + 1 /\ reqObject' = {arrived + 1}
          /\ insideCorkCallback' = insideCorkCallback + 1
      BY <2>3, <3>1 DEF RouteHandler, RequestOn, CallJS
    <3>3. arrived + 1 # NoRequest /\ insideCorkCallback + 1 > 0
      BY <2>1 DEF NoRequest
    <3> QED
      BY <3>2, <3>3
  <2>4. CASE HandlerReturn
    <3>1. reqObject' = {} /\ handling' = NoRequest
      BY <2>4 DEF HandlerReturn
    <3> QED
      BY <3>1
  <2>5. CASE CallbackReturn
    <3>1. /\ UNCHANGED <<handling, reqObject>>
          /\ insideCorkCallback' = insideCorkCallback - 1
          /\ handling # NoRequest => insideCorkCallback > 1
      BY <2>5 DEF CallbackReturn, stackUnchanged, objVars
    <3> QED
      BY <2>1, <3>1
  <2>6. ASSUME NEW c \in Conns,
               \/ Connect(c) \/ AnswerAtOnce(c) \/ Writable(c) \/ WebSocketClose(c)
               \/ Disconnect(c) \/ AppCloseSocket(c)
        PROVE  RequestObjectOnStack'
    BY <2>2, <2>6 DEF Connect, AnswerAtOnce, Writable, WebSocketClose, Disconnect,
       AppCloseSocket, RunAbortHandler, CallJSIf, stackUnchanged, objVars
  <2>7. ASSUME NEW q \in Requests, NEW closes \in BOOLEAN, InvalidateAndRespond(q, closes)
        PROVE  RequestObjectOnStack'
    BY <2>2, <2>7 DEF InvalidateAndRespond, stackUnchanged
  <2>8. ASSUME NEW q \in Requests,
               \/ ResTryEndPartly(q) \/ ResWriteBackpressure(q) \/ ResOnWritable(q)
               \/ ResOnAborted(q) \/ ResCork(q) \/ ResUpgrade(q) \/ ResClose(q)
        PROVE  RequestObjectOnStack'
    BY <2>2, <2>8 DEF ResTryEndPartly, ResWriteBackpressure, ResOnWritable, ResOnAborted,
       ResCork, ResUpgrade, ResClose, RunAbortHandler, CallJSIf, stackUnchanged, objVars,
       connVars
  <2>9. CASE AppClose \/ UNCHANGED vars
    BY <2>2, <2>9 DEF AppClose, vars, objVars, connVars
  <2> QED
    BY <2>3, <2>4, <2>5, <2>6, <2>7, <2>8, <2>9
       DEF Next, QuietStep, ResEnd, ResEndWithoutBody, ResStreamFile,
           ResSendErrorPage, ResSendJSONError, ResTryEndDone
<1> QED
  BY <1>1, <1>2, TypeCorrect, PTL DEF Spec
===============================================================================
