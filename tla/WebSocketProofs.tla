---------------------------- MODULE WebSocketProofs ----------------------------
(***************************************************************************)
(* Theorems about WebSocket, for any addresses and topics, any number of   *)
(* WebSockets and any depth of nested calls.                               *)
(***************************************************************************)
EXTENDS WebSocket, TLAPS

USE ConnsAssumption, SocketsAssumption, DepthAssumption

(* Sockets and the objects they hold: every socket that is not gone holds an  *)
(* object that has opened, and no two hold the same one.                      *)
SocketsHoldObjects ==
    /\ \A c \in Conns : phase[c] # "none" => socketPf[c] \in 1 .. opened
    /\ \A c \in Conns : phase[c] = "none" => socketPf[c] = NoWebSocket
    /\ \A c, d \in Conns :
            socketPf[c] = socketPf[d] /\ socketPf[c] # NoWebSocket => c = d

(* The close event of an object that is held has come exactly if it says so. *)
EventsFollowPhase ==
    /\ \A c \in Conns : phase[c] \in {"open", "closing"} => closeEvents[socketPf[c]] = 0
    /\ \A c \in Conns : phase[c] = "reported" => closeEvents[socketPf[c]] = 1
    /\ \A w \in 1 .. opened :
            (\A c \in Conns : socketPf[c] # w) => closeEvents[w] = 1

(* What has not opened yet has no pointer and no event. *)
FreshObjects ==
    \A w \in WebSockets : w > opened => wsObject[w] = NoConn /\ closeEvents[w] = 0

SocketInv ==
    /\ TypeOK
    /\ SocketsHoldObjects
    /\ EventsFollowPhase
    /\ FreshObjects
    /\ ObjectLeadsToItsSocket
    /\ ValidWhileOpen

-------------------------------------------------------------------------------
(* The stack keeps its type. *)

LEMMA PushType ==
    ASSUME stack \in Seq(Frames), NEW f \in Frames, Push(f)
    PROVE  stack' \in Seq(Frames)
  BY DEF Push

LEMMA PopType ==
    ASSUME stack \in Seq(Frames), stack # <<>>
    PROVE  SubSeq(stack, 1, Len(stack) - 1) \in Seq(Frames)
  OBVIOUS

LEMMA FrameTypes ==
    ASSUME TypeOK
    PROVE  /\ \A w \in WebSockets : JsFrame(w) \in Frames
           /\ \A c \in Conns : CloseFrame(c) \in Frames
           /\ \A S \in SUBSET Conns : CloseAllFrame(S) \in Frames
  BY DEF TypeOK, JsFrame, CloseFrame, CloseAllFrame, Frames

LEMMA TopType ==
    ASSUME TypeOK, stack # <<>>
    PROVE  Top \in Frames
  BY DEF TypeOK, Top

LEMMA CallType ==
    ASSUME TypeOK, NEW called \in BOOLEAN, NEW w \in WebSockets, CallJSIf(called, w)
    PROVE  stack' \in Seq(Frames)
  <1>1. JsFrame(w) \in Frames /\ stack \in Seq(Frames)
    BY FrameTypes DEF TypeOK
  <1>2. CASE called
    BY <1>1, <1>2, PushType DEF CallJSIf
  <1>3. CASE ~ called
    BY <1>1, <1>3 DEF CallJSIf
  <1> QED
    BY <1>2, <1>3

LEMMA SocketInit == Init => SocketInv
  BY DEF Init, SocketInv, TypeOK, SocketsHoldObjects, EventsFollowPhase, FreshObjects,
     ObjectLeadsToItsSocket, ValidWhileOpen, WebSockets, NoWebSocket

-------------------------------------------------------------------------------
(* One lemma for each way a step changes sockets and objects. *)

socketVars == <<wsObject, socketPf, phase, opened, closeEvents>>

(* Everything of the invariant but the types. *)
Links ==
    /\ SocketsHoldObjects /\ EventsFollowPhase /\ FreshObjects
    /\ ObjectLeadsToItsSocket /\ ValidWhileOpen

LEMMA QuietKeepsLinks ==
    ASSUME SocketInv, UNCHANGED socketVars
    PROVE  Links'
  BY DEF SocketInv, socketVars, Links, SocketsHoldObjects, EventsFollowPhase,
     FreshObjects, ObjectLeadsToItsSocket, ValidWhileOpen

LEMMA HeldObject ==
    ASSUME SocketInv, NEW c \in Conns, phase[c] # "none"
    PROVE  socketPf[c] \in WebSockets
  BY DEF SocketInv, SocketsHoldObjects, TypeOK, WebSockets

(* A call of a handler, or a return. *)
LEMMA QuietType ==
    ASSUME SocketInv, UNCHANGED socketVars, stack' \in Seq(Frames),
           topics' \in [Conns -> SUBSET Topics]
    PROVE  SocketInv'
  <1>1. TypeOK'
    BY DEF SocketInv, TypeOK, socketVars
  <1> QED
    BY <1>1, QuietKeepsLinks DEF SocketInv, Links

LEMMA HandlersKeep ==
    ASSUME SocketInv, NEW c \in Conns,
           EventHandler(c) \/ DroppedHandler(c) \/ SubscriptionHandler(c)
    PROVE  SocketInv'
  <1>1. UNCHANGED socketVars
    BY DEF EventHandler, DroppedHandler, SubscriptionHandler, socketVars
  <1>2. topics' \in [Conns -> SUBSET Topics]
    <2>1. CASE EventHandler(c) \/ DroppedHandler(c)
      BY <2>1 DEF EventHandler, DroppedHandler, SocketInv, TypeOK
    <2>2. CASE SubscriptionHandler(c)
      <3>1. \E topic \in topics[c] : topics' = [topics EXCEPT ![c] = @ \ {topic}]
        BY <2>2, Zenon DEF SubscriptionHandler
      <3> QED
        BY <3>1 DEF SocketInv, TypeOK
    <2> QED
      BY <2>1, <2>2
  <1>3. socketPf[c] \in WebSockets
    BY HeldObject DEF EventHandler, DroppedHandler, SubscriptionHandler
  <1>4. PICK called \in BOOLEAN : CallJSIf(called, socketPf[c])
    <2>1. CASE EventHandler(c) \/ DroppedHandler(c)
      <3>1. CallJSIf(TRUE, socketPf[c])
        BY <2>1 DEF EventHandler, DroppedHandler
      <3> QED
        BY <3>1, Zenon
    <2>2. CASE SubscriptionHandler(c)
      BY <2>2, Zenon DEF SubscriptionHandler
    <2> QED
      BY <2>1, <2>2
  <1>5. stack' \in Seq(Frames)
    BY <1>3, <1>4, CallType DEF SocketInv
  <1> QED
    BY <1>1, <1>2, <1>5, QuietType

LEMMA CallsKeep ==
    ASSUME SocketInv, NEW w \in WebSockets, Subscribe(w) \/ Unsubscribe(w) \/ Cork(w)
    PROVE  SocketInv'
  <1>1. UNCHANGED socketVars
    BY DEF Subscribe, Unsubscribe, Cork, socketVars
  <1>2. topics' \in [Conns -> SUBSET Topics]
    <2> DEFINE c == wsObject[w]
    <2>1. CASE Subscribe(w)
      <3>1. \E topic \in Topics \ topics[c] :
                topics' = [topics EXCEPT ![c] = @ \union {topic}]
        BY <2>1, Zenon DEF Subscribe
      <3>2. PICK topic \in Topics : topics' = [topics EXCEPT ![c] = topics[c] \union {topic}]
        BY <3>1, Zenon
      <3> HIDE DEF c
      <3> QED
        BY <3>2 DEF SocketInv, TypeOK
    <2>2. CASE Unsubscribe(w)
      <3>1. \E topic \in topics[c] : topics' = [topics EXCEPT ![c] = @ \ {topic}]
        BY <2>2, Zenon DEF Unsubscribe
      <3> QED
        BY ZenonT(30), <3>1 DEF SocketInv, TypeOK
    <2>3. CASE Cork(w)
      BY <2>3 DEF Cork, SocketInv, TypeOK
    <2> QED
      BY <2>1, <2>2, <2>3
  <1>3. PICK called \in BOOLEAN : CallJSIf(called, w)
    <2>1. CASE Subscribe(w)
      BY <2>1, Zenon DEF Subscribe
    <2>2. CASE Unsubscribe(w)
      BY <2>2, Zenon DEF Unsubscribe
    <2>3. CASE Cork(w)
      BY <2>3, Zenon DEF Cork
    <2> QED
      BY <2>1, <2>2, <2>3
  <1>4. stack' \in Seq(Frames)
    BY <1>3, CallType DEF SocketInv
  <1> QED
    BY <1>1, <1>2, <1>4, QuietType

LEMMA StackKeeps ==
    ASSUME SocketInv, ProtoClose \/ ProtoCloseEnds \/ Return
    PROVE  SocketInv'
  <1>1. UNCHANGED socketVars /\ UNCHANGED topics
    BY DEF ProtoClose, ProtoCloseEnds, Return, socketVars
  <1>2. stack \in Seq(Frames)
    BY DEF SocketInv, TypeOK
  <1>3. ASSUME ProtoClose PROVE stack' \in Seq(Frames)
    <2> DEFINE S == {c \in Conns : phase[c] = "open"}
    <2>1. CloseAllFrame(S) \in Frames /\ Push(CloseAllFrame(S))
      BY <1>3, FrameTypes DEF ProtoClose, SocketInv
    <2> QED
      BY <1>2, <2>1, PushType
  <1>4. ASSUME ProtoCloseEnds \/ Return PROVE stack' \in Seq(Frames)
    BY <1>2, <1>4, PopType DEF ProtoCloseEnds, Return, Runs, Pop
  <1>5. topics' \in [Conns -> SUBSET Topics]
    BY <1>1 DEF SocketInv, TypeOK
  <1> QED
    BY <1>1, <1>3, <1>4, <1>5, QuietType

(* A socket begins to be closed. *)
LEMMA ClosingKeeps ==
    ASSUME SocketInv, NEW c \in Conns, phase[c] = "open",
           phase' = [phase EXCEPT ![c] = "closing"], stack' \in Seq(Frames),
           UNCHANGED <<wsObject, socketPf, topics, opened, closeEvents>>
    PROVE  SocketInv'
  <1>1. TypeOK'
    BY DEF SocketInv, TypeOK
  <1>2. SocketsHoldObjects' /\ EventsFollowPhase' /\ FreshObjects'
    BY DEF SocketInv, TypeOK, SocketsHoldObjects, EventsFollowPhase, FreshObjects
  <1>3. ObjectLeadsToItsSocket' /\ ValidWhileOpen'
    BY DEF SocketInv, TypeOK, ObjectLeadsToItsSocket, ValidWhileOpen
  <1> QED
    BY <1>1, <1>2, <1>3 DEF SocketInv

LEMMA StartClosingType ==
    ASSUME SocketInv, NEW c \in Conns, StartClosing(c)
    PROVE  stack' \in Seq(Frames)
  <1>1. CloseFrame(c) \in Frames /\ stack \in Seq(Frames)
    BY FrameTypes DEF SocketInv, TypeOK
  <1>2. CASE phase[c] = "open"
    BY <1>1, <1>2, PushType DEF StartClosing
  <1>3. CASE phase[c] # "open"
    BY <1>1, <1>3 DEF StartClosing
  <1> QED
    BY <1>2, <1>3

LEMMA DisconnectKeeps ==
    ASSUME SocketInv, NEW c \in Conns, Disconnect(c)
    PROVE  SocketInv'
  <1>1. stack' \in Seq(Frames)
    BY StartClosingType DEF Disconnect
  <1>2. phase[c] = "open" /\ phase' = [phase EXCEPT ![c] = "closing"]
    BY DEF Disconnect, StartClosing
  <1>3. UNCHANGED <<wsObject, socketPf, topics, opened, closeEvents>>
    BY DEF Disconnect
  <1> QED
    BY <1>1, <1>2, <1>3, ClosingKeeps

LEMMA ProtoCloseSocketKeeps ==
    ASSUME SocketInv, NEW c \in Conns, ProtoCloseSocket(c)
    PROVE  SocketInv'
  <1> DEFINE rest  == CloseAllFrame(Top.conns \ {c})
             below == SubSeq(stack, 1, Len(stack) - 1)
  <1>1. UNCHANGED <<wsObject, socketPf, topics, opened, closeEvents>>
    BY DEF ProtoCloseSocket
  <1>2. stack # <<>> /\ stack \in Seq(Frames)
    BY DEF ProtoCloseSocket, Runs, SocketInv, TypeOK
  <1>3. below \in Seq(Frames)
    BY <1>2, PopType
  <1>4. rest \in Frames /\ CloseFrame(c) \in Frames
    <2>1. Top.conns \ {c} \in SUBSET Conns
      BY <1>2, TopType DEF SocketInv, Frames
    <2> QED
      BY <2>1, FrameTypes DEF SocketInv
  <1> HIDE DEF rest, below
  <1>5. Append(below, rest) \in Seq(Frames)
    BY <1>3, <1>4
  <1>6. Append(Append(below, rest), CloseFrame(c)) \in Seq(Frames)
    BY <1>4, <1>5
  <1>7. CASE phase[c] = "open"
    <2>1. phase' = [phase EXCEPT ![c] = "closing"] /\ stack' \in Seq(Frames)
      BY <1>6, <1>7 DEF ProtoCloseSocket, rest, below
    <2> QED
      BY <1>1, <1>7, <2>1, ClosingKeeps
  <1>8. CASE phase[c] # "open"
    <2>1. UNCHANGED phase /\ stack' \in Seq(Frames)
      BY <1>5, <1>8 DEF ProtoCloseSocket, rest, below
    <2>2. UNCHANGED socketVars /\ topics' \in [Conns -> SUBSET Topics]
      BY <1>1, <2>1 DEF socketVars, SocketInv, TypeOK
    <2> QED
      BY <2>1, <2>2, QuietType
  <1> QED
    BY <1>7, <1>8

(* JavaScript closes a socket: its object is the only one that leads there. *)
LEMMA WsCloseKeeps ==
    ASSUME SocketInv, NEW w \in WebSockets, WsClose(w) \/ WsEnd(w)
    PROVE  SocketInv'
  <1> DEFINE c == wsObject[w]
  <1>1. /\ c \in Conns /\ socketPf[c] = w /\ phase[c] \in {"open", "closing"}
        /\ wsObject' = [wsObject EXCEPT ![w] = NoConn]
        /\ StartClosing(c)
        /\ UNCHANGED <<socketPf, topics, opened, closeEvents>>
    BY DEF WsClose, WsEnd, getWebSocket, invalidateWsObject, SocketInv, TypeOK,
       ObjectLeadsToItsSocket
  <1>2. stack' \in Seq(Frames)
    BY <1>1, StartClosingType
  <1>3. phase' = [phase EXCEPT ![c] = "closing"]
    BY <1>1 DEF StartClosing, SocketInv, TypeOK
  <1> HIDE DEF c
  <1>4. TypeOK'
    BY <1>1, <1>2, <1>3 DEF SocketInv, TypeOK
  <1>5. SocketsHoldObjects' /\ EventsFollowPhase' /\ FreshObjects'
    BY <1>1, <1>3 DEF SocketInv, TypeOK, SocketsHoldObjects, EventsFollowPhase, FreshObjects
  <1>6. ObjectLeadsToItsSocket'
    BY <1>1, <1>3 DEF SocketInv, TypeOK, ObjectLeadsToItsSocket
  <1>7. ValidWhileOpen'
    <2> SUFFICES ASSUME NEW d \in Conns, phase'[d] = "open"
                 PROVE  socketPf[d] # NoWebSocket /\ wsObject'[socketPf[d]] = d
      BY <1>1 DEF ValidWhileOpen
    <2>1. d # c /\ phase[d] = "open"
      BY <1>1, <1>3 DEF SocketInv, TypeOK
    <2>2. socketPf[d] # NoWebSocket /\ wsObject[socketPf[d]] = d
      BY <2>1 DEF SocketInv, ValidWhileOpen
    <2>3. socketPf[d] # w /\ socketPf[d] \in WebSockets
      BY <1>1, <2>1, <2>2, HeldObject DEF SocketInv, SocketsHoldObjects
    <2> QED
      BY <1>1, <2>2, <2>3 DEF SocketInv, TypeOK
  <1> QED
    BY <1>4, <1>5, <1>6, <1>7 DEF SocketInv

LEMMA OpenKeeps ==
    ASSUME SocketInv, NEW c \in Conns, OpenHandler(c)
    PROVE  SocketInv'
  <1> DEFINE w == opened + 1
  <1>1. /\ phase[c] = "none" /\ w \in WebSockets /\ opened' = w
        /\ phase' = [phase EXCEPT ![c] = "open"]
        /\ wsObject' = [wsObject EXCEPT ![w] = c]
        /\ socketPf' = [socketPf EXCEPT ![c] = w]
        /\ UNCHANGED <<topics, closeEvents>>
        /\ \E called \in BOOLEAN : CallJSIf(called, w)
    BY DEF OpenHandler, Opens, SocketInv, TypeOK, WebSockets
  <1>2. stack' \in Seq(Frames)
    BY <1>1, CallType DEF SocketInv
  <1>3. TypeOK'
    BY <1>1, <1>2 DEF SocketInv, TypeOK, WebSockets
  <1>4. \A d \in Conns : socketPf[d] # w
    BY DEF SocketInv, SocketsHoldObjects, TypeOK, NoWebSocket
  <1>5. SocketsHoldObjects'
    BY <1>1, <1>4 DEF SocketInv, TypeOK, SocketsHoldObjects, NoWebSocket
  <1>6. EventsFollowPhase'
    <2>1. closeEvents[w] = 0
      BY <1>1 DEF SocketInv, FreshObjects, TypeOK
    <2>2. socketPf[c] = NoWebSocket
      BY <1>1 DEF SocketInv, SocketsHoldObjects
    <2> QED
      BY <1>1, <2>1, <2>2 DEF SocketInv, TypeOK, EventsFollowPhase, NoWebSocket
  <1>7. FreshObjects'
    BY <1>1 DEF SocketInv, TypeOK, FreshObjects, WebSockets
  <1>8. ObjectLeadsToItsSocket'
    BY <1>1 DEF SocketInv, TypeOK, ObjectLeadsToItsSocket
  <1>9. ValidWhileOpen'
    BY <1>1, <1>4 DEF SocketInv, TypeOK, ValidWhileOpen, SocketsHoldObjects, NoWebSocket
  <1> QED
    BY <1>3, <1>5, <1>6, <1>7, <1>8, <1>9 DEF SocketInv

LEMMA CloseHandlerKeeps ==
    ASSUME SocketInv, NEW c \in Conns, CloseHandler(c)
    PROVE  SocketInv'
  <1> DEFINE w == socketPf[c]
  <1>1. /\ phase[c] = "closing"
        /\ phase' = [phase EXCEPT ![c] = "reported"]
        /\ wsObject' = [wsObject EXCEPT ![w] = NoConn]
        /\ closeEvents' = [closeEvents EXCEPT ![w] = closeEvents[w] + 1]
        /\ UNCHANGED <<socketPf, topics, opened>>
        /\ \E called \in BOOLEAN : CallJSIf(called, w)
    BY DEF CloseHandler, Reports, isReported, countsEvent, invalidateWsObject
  <1>2. w \in WebSockets /\ w \in 1 .. opened
    BY <1>1, HeldObject DEF SocketInv, SocketsHoldObjects
  <1>3. closeEvents[w] = 0
    BY <1>1 DEF SocketInv, EventsFollowPhase
  <1>4. stack' \in Seq(Frames)
    BY <1>1, <1>2, CallType DEF SocketInv
  <1>5. TypeOK'
    BY <1>1, <1>2, <1>3, <1>4 DEF SocketInv, TypeOK
  <1>6. \A d \in Conns : socketPf[d] = w => d = c
    BY <1>2 DEF SocketInv, SocketsHoldObjects, WebSockets, NoWebSocket
  <1>7. SocketsHoldObjects'
    BY <1>1 DEF SocketInv, TypeOK, SocketsHoldObjects
  <1>8. EventsFollowPhase'
    <2>1. \A v \in WebSockets : closeEvents'[v] = IF v = w THEN 1 ELSE closeEvents[v]
      BY <1>1, <1>2, <1>3 DEF SocketInv, TypeOK
    <2>2. \A d \in Conns : phase[d] # "none" => socketPf[d] \in WebSockets
      BY HeldObject
    <2>3. \A d \in Conns : phase'[d] # "none" => phase[d] # "none"
      BY <1>1 DEF SocketInv, TypeOK
    <2>4. \A d \in Conns : phase'[d] = IF d = c THEN "reported" ELSE phase[d]
      BY <1>1 DEF SocketInv, TypeOK
    <2>5. 1 .. opened \subseteq WebSockets
      BY DEF SocketInv, TypeOK, WebSockets
    <2> HIDE DEF w
    <2> QED
      BY <1>1, <1>2, <1>6, <2>1, <2>2, <2>4, <2>5 DEF SocketInv, EventsFollowPhase, w
  <1>9. FreshObjects'
    BY <1>1, <1>2 DEF SocketInv, TypeOK, FreshObjects, WebSockets
  <1>10. ObjectLeadsToItsSocket'
    BY <1>1, <1>2 DEF SocketInv, TypeOK, ObjectLeadsToItsSocket
  <1>11. ValidWhileOpen'
    BY <1>1, <1>2, <1>6 DEF SocketInv, TypeOK, ValidWhileOpen
  <1> QED
    BY <1>5, <1>7, <1>8, <1>9, <1>10, <1>11 DEF SocketInv

LEMMA CloseHandlerEndsKeeps ==
    ASSUME SocketInv, NEW c \in Conns, CloseHandlerEnds(c)
    PROVE  SocketInv'
  <1>1. /\ phase[c] = "reported"
        /\ phase' = [phase EXCEPT ![c] = "none"]
        /\ socketPf' = [socketPf EXCEPT ![c] = NoWebSocket]
        /\ UNCHANGED <<wsObject, topics, opened, closeEvents>>
    BY DEF CloseHandlerEnds
  <1>2. stack' \in Seq(Frames)
    BY PopType DEF CloseHandlerEnds, Runs, Pop, SocketInv, TypeOK
  <1>3. TypeOK'
    BY <1>1, <1>2 DEF SocketInv, TypeOK
  <1>4. SocketsHoldObjects'
    BY <1>1 DEF SocketInv, TypeOK, SocketsHoldObjects, NoWebSocket
  <1>5. EventsFollowPhase'
    BY <1>1 DEF SocketInv, TypeOK, EventsFollowPhase, NoWebSocket
  <1>6. FreshObjects'
    BY <1>1 DEF SocketInv, FreshObjects
  <1>7. ObjectLeadsToItsSocket'
    BY <1>1 DEF SocketInv, TypeOK, ObjectLeadsToItsSocket
  <1>8. ValidWhileOpen'
    BY <1>1 DEF SocketInv, TypeOK, ValidWhileOpen
  <1> QED
    BY <1>3, <1>4, <1>5, <1>6, <1>7, <1>8 DEF SocketInv

LEMMA SocketStep == SocketInv /\ [Next]_vars => SocketInv'
  <1> SUFFICES ASSUME SocketInv, [Next]_vars PROVE SocketInv'
    OBVIOUS
  <1>1. CASE UNCHANGED vars
    BY <1>1, QuietType DEF vars, socketVars, SocketInv, TypeOK
  <1>2. ASSUME NEW c \in Conns, OpenHandler(c) PROVE SocketInv'
    BY <1>2, OpenKeeps
  <1>3. ASSUME NEW c \in Conns,
               EventHandler(c) \/ DroppedHandler(c) \/ SubscriptionHandler(c)
        PROVE  SocketInv'
    BY <1>3, HandlersKeep
  <1>4. ASSUME NEW c \in Conns, Disconnect(c) PROVE SocketInv'
    BY <1>4, DisconnectKeeps
  <1>5. ASSUME NEW w \in WebSockets, Subscribe(w) \/ Unsubscribe(w) \/ Cork(w)
        PROVE  SocketInv'
    BY <1>5, CallsKeep
  <1>6. ASSUME NEW w \in WebSockets, WsClose(w) \/ WsEnd(w) PROVE SocketInv'
    BY <1>6, WsCloseKeeps
  <1>7. ASSUME ProtoClose \/ ProtoCloseEnds \/ Return PROVE SocketInv'
    BY <1>7, StackKeeps
  <1>8. ASSUME NEW c \in Conns, CloseHandler(c) PROVE SocketInv'
    BY <1>8, CloseHandlerKeeps
  <1>9. ASSUME NEW c \in Conns, CloseHandlerEnds(c) PROVE SocketInv'
    BY <1>9, CloseHandlerEndsKeeps
  <1>10. ASSUME NEW c \in Conns, ProtoCloseSocket(c) PROVE SocketInv'
    BY <1>10, ProtoCloseSocketKeeps
  <1> QED
    BY <1>1, <1>2, <1>3, <1>4, <1>5, <1>6, <1>7, <1>8, <1>9, <1>10 DEF Next, Native

LEMMA SocketAlways == Spec => []SocketInv
  BY SocketInit, SocketStep, PTL DEF Spec

-------------------------------------------------------------------------------
(* What is being closed is on the stack. *)

OnStack(f) == \E i \in 1 .. Len(stack) : stack[i] = f

ClosingOnStack ==
    \A c \in Conns : phase[c] \in {"closing", "reported"} => OnStack(CloseFrame(c))

LEMMA PushKeeps ==
    ASSUME stack \in Seq(Frames), NEW f, NEW g \in Frames, OnStack(f), Push(g)
    PROVE  OnStack(f)'
  <1>1. PICK i \in 1 .. Len(stack) : stack[i] = f
    BY DEF OnStack
  <1>2. i \in 1 .. Len(stack') /\ stack'[i] = stack[i]
    BY DEF Push
  <1> QED
    BY <1>1, <1>2 DEF OnStack

LEMMA PushAdds ==
    ASSUME stack \in Seq(Frames), NEW g \in Frames, Push(g)
    PROVE  \E i \in 1 .. Len(stack') : stack'[i] = g
  BY DEF Push

LEMMA PopKeeps ==
    ASSUME stack \in Seq(Frames), stack # <<>>, NEW f, OnStack(f), Top # f,
           NEW s, s = SubSeq(stack, 1, Len(stack) - 1)
    PROVE  \E i \in 1 .. Len(s) : s[i] = f
  <1>1. PICK i \in 1 .. Len(stack) : stack[i] = f
    BY DEF OnStack
  <1>2. i \in 1 .. Len(stack) - 1
    BY <1>1 DEF Top
  <1>3. i \in 1 .. Len(s) /\ s[i] = stack[i]
    BY <1>2
  <1> QED
    BY <1>1, <1>3

LEMMA CallKeeps ==
    ASSUME TypeOK, NEW called \in BOOLEAN, NEW w \in WebSockets, CallJSIf(called, w),
           NEW f, OnStack(f)
    PROVE  OnStack(f)'
  <1>1. JsFrame(w) \in Frames /\ stack \in Seq(Frames)
    BY FrameTypes DEF TypeOK
  <1>2. CASE called
    BY <1>1, <1>2, PushKeeps DEF CallJSIf
  <1>3. CASE ~ called
    BY <1>3 DEF CallJSIf, OnStack
  <1> QED
    BY <1>2, <1>3

Closing(c) == phase[c] \in {"closing", "reported"}

LEMMA FrameStays ==
    ASSUME SocketInv, ClosingOnStack, NEW c \in Conns, Closing(c),
           socketPf'[c] = socketPf[c],
           \A f \in Frames : f = CloseFrame(c) /\ OnStack(f) => OnStack(f)'
    PROVE  OnStack(CloseFrame(c))'
  <1>1. PICK f \in Frames : f = CloseFrame(c)
    BY FrameTypes DEF SocketInv
  <1>2. OnStack(f)
    BY <1>1 DEF ClosingOnStack, Closing
  <1>3. OnStack(f)'
    BY <1>1, <1>2
  <1>4. CloseFrame(c)' = f
    BY <1>1 DEF CloseFrame
  <1> QED
    BY <1>3, <1>4 DEF OnStack

(* A step that closes nothing keeps the frames if it keeps what closes. *)
LEMMA FramesStay ==
    ASSUME SocketInv, ClosingOnStack, UNCHANGED <<phase, socketPf>>,
           \A c \in Conns, f \in Frames :
                Closing(c) /\ f = CloseFrame(c) /\ OnStack(f) => OnStack(f)'
    PROVE  ClosingOnStack'
  <1> SUFFICES ASSUME NEW c \in Conns, Closing(c) PROVE OnStack(CloseFrame(c))'
    BY DEF ClosingOnStack, Closing
  <1> QED
    BY FrameStays

LEMMA CallsKeepFrames ==
    ASSUME SocketInv, ClosingOnStack, UNCHANGED <<phase, socketPf>>,
           NEW w \in WebSockets, NEW called \in BOOLEAN, CallJSIf(called, w)
    PROVE  ClosingOnStack'
  <1>1. \A f \in Frames : OnStack(f) => OnStack(f)'
    BY CallKeeps DEF SocketInv
  <1> QED
    BY <1>1, FramesStay

(* A return of JavaScript, or of protocol.close(), pops no socket. *)
LEMMA ReturnKeepsFrames ==
    ASSUME SocketInv, ClosingOnStack, Return \/ ProtoCloseEnds
    PROVE  ClosingOnStack'
  <1>1. /\ UNCHANGED <<phase, socketPf>>
        /\ stack \in Seq(Frames) /\ stack # <<>> /\ Top.kind # "close"
        /\ stack' = SubSeq(stack, 1, Len(stack) - 1)
    BY DEF Return, ProtoCloseEnds, Runs, Pop, SocketInv, TypeOK
  <1>2. \A c \in Conns, f \in Frames :
            Closing(c) /\ f = CloseFrame(c) /\ OnStack(f) => OnStack(f)'
    <2> SUFFICES ASSUME NEW c \in Conns, NEW f \in Frames, f = CloseFrame(c), OnStack(f)
                 PROVE  OnStack(f)'
      OBVIOUS
    <2>1. Top # f
      BY <1>1 DEF CloseFrame
    <2>2. PICK s : s = SubSeq(stack, 1, Len(stack) - 1)
      OBVIOUS
    <2>3. \E i \in 1 .. Len(s) : s[i] = f
      BY <1>1, <2>1, <2>2, PopKeeps
    <2> QED
      BY <1>1, <2>2, <2>3 DEF OnStack
  <1> QED
    BY <1>1, <1>2, FramesStay

LEMMA ProtoCloseKeepsFrames ==
    ASSUME SocketInv, ClosingOnStack, ProtoClose
    PROVE  ClosingOnStack'
  <1>1. PICK g \in Frames : Push(g)
    <2> DEFINE S == {c \in Conns : phase[c] = "open"}
    <2>1. CloseAllFrame(S) \in Frames /\ Push(CloseAllFrame(S))
      BY FrameTypes DEF ProtoClose, SocketInv
    <2> QED
      BY <2>1 DEF Push
  <1>2. \A f \in Frames : OnStack(f) => OnStack(f)'
    BY <1>1, PushKeeps DEF SocketInv, TypeOK
  <1>3. UNCHANGED <<phase, socketPf>>
    BY DEF ProtoClose
  <1> QED
    BY <1>2, <1>3, FramesStay

(* Closing the socket at c, from outside or by JavaScript. *)
LEMMA StartClosingKeepsFrames ==
    ASSUME SocketInv, ClosingOnStack, NEW c \in Conns, StartClosing(c), UNCHANGED socketPf
    PROVE  ClosingOnStack'
  <1>1. stack \in Seq(Frames)
    BY DEF SocketInv, TypeOK
  <1>2. CASE phase[c] # "open"
    <2>1. UNCHANGED <<phase, socketPf, stack>>
      BY <1>2 DEF StartClosing
    <2> QED
      BY <2>1 DEF ClosingOnStack, OnStack, CloseFrame
  <1>3. CASE phase[c] = "open"
    <2>1. PICK g \in Frames : g = CloseFrame(c)
      BY FrameTypes DEF SocketInv
    <2>2. phase' = [phase EXCEPT ![c] = "closing"] /\ Push(g)
      BY <1>3, <2>1 DEF StartClosing
    <2>3. \A f \in Frames : OnStack(f) => OnStack(f)'
      BY <1>1, <2>2, PushKeeps
    <2>4. OnStack(CloseFrame(c))'
      <3>1. \E i \in 1 .. Len(stack') : stack'[i] = g
        BY <1>1, <2>2, PushAdds
      <3>2. CloseFrame(c)' = g
        BY <2>1 DEF CloseFrame
      <3> QED
        BY <3>1, <3>2 DEF OnStack
    <2>5. ASSUME NEW d \in Conns, d # c, Closing(d)' PROVE OnStack(CloseFrame(d))'
      <3>1. Closing(d)
        BY <2>2, <2>5 DEF Closing, SocketInv, TypeOK
      <3> QED
        BY <2>3, <3>1, FrameStays
    <2> QED
      BY <2>4, <2>5 DEF ClosingOnStack, Closing
  <1> QED
    BY <1>2, <1>3

LEMMA ProtoCloseSocketKeepsFrames ==
    ASSUME SocketInv, ClosingOnStack, NEW c \in Conns, ProtoCloseSocket(c)
    PROVE  ClosingOnStack'
  <1>1. /\ stack \in Seq(Frames) /\ stack # <<>> /\ Top.kind = "closeAll"
        /\ UNCHANGED socketPf
    BY DEF ProtoCloseSocket, Runs, SocketInv, TypeOK
  <1>2. PICK s : s = SubSeq(stack, 1, Len(stack) - 1)
    OBVIOUS
  <1>3. s \in Seq(Frames)
    BY <1>1, <1>2, PopType
  <1>4. PICK rest \in Frames : rest = CloseAllFrame(Top.conns \ {c})
    <2>1. Top.conns \ {c} \in SUBSET Conns
      BY <1>1, TopType DEF SocketInv, Frames
    <2> QED
      BY <2>1, FrameTypes DEF SocketInv
  <1>5. PICK g \in Frames : g = CloseFrame(c)
    BY FrameTypes DEF SocketInv
  <1>6. PICK base : base = Append(s, rest)
    OBVIOUS
  <1>7. base \in Seq(Frames)
    BY <1>3, <1>4, <1>6
  <1>8. stack' = IF phase[c] = "open" THEN Append(base, g) ELSE base
    BY <1>2, <1>4, <1>5, <1>6 DEF ProtoCloseSocket
  <1>9. ASSUME NEW d \in Conns, Closing(d) PROVE OnStack(CloseFrame(d))'
    <2>1. PICK f \in Frames : f = CloseFrame(d)
      BY FrameTypes DEF SocketInv
    <2>2. OnStack(f) /\ Top # f
      BY <1>1, <1>9, <2>1 DEF ClosingOnStack, Closing, CloseFrame
    <2>3. PICK i \in 1 .. Len(s) : s[i] = f
      BY <1>1, <1>2, <2>2, PopKeeps
    <2>4. i \in 1 .. Len(base) /\ base[i] = f
      BY <1>3, <1>4, <1>6, <2>3
    <2>5. i \in 1 .. Len(stack') /\ stack'[i] = f
      BY <1>5, <1>7, <1>8, <2>4
    <2>6. CloseFrame(d)' = f
      BY <1>1, <2>1 DEF CloseFrame
    <2> QED
      BY <2>5, <2>6 DEF OnStack
  <1>10. CASE phase[c] = "open"
    <2>1. phase' = [phase EXCEPT ![c] = "closing"]
      BY <1>10 DEF ProtoCloseSocket
    <2>2. OnStack(CloseFrame(c))'
      <3>1. Len(stack') \in 1 .. Len(stack') /\ stack'[Len(stack')] = g
        BY <1>5, <1>7, <1>8, <1>10
      <3>2. CloseFrame(c)' = g
        BY <1>1, <1>5 DEF CloseFrame
      <3> QED
        BY <3>1, <3>2 DEF OnStack
    <2>3. \A d \in Conns : d # c /\ Closing(d)' => Closing(d)
      BY <2>1 DEF Closing, SocketInv, TypeOK
    <2> QED
      BY <1>9, <2>2, <2>3 DEF ClosingOnStack, Closing
  <1>11. CASE phase[c] # "open"
    <2>1. UNCHANGED phase
      BY <1>11 DEF ProtoCloseSocket
    <2> QED
      BY <1>9, <2>1 DEF ClosingOnStack, Closing
  <1> QED
    BY <1>10, <1>11

LEMMA OpenKeepsFrames ==
    ASSUME SocketInv, ClosingOnStack, NEW c \in Conns, OpenHandler(c)
    PROVE  ClosingOnStack'
  <1>1. PICK called \in BOOLEAN : CallJSIf(called, opened + 1)
    BY Zenon DEF OpenHandler, Opens
  <1>2. opened + 1 \in WebSockets
    BY DEF OpenHandler, Opens, SocketInv, TypeOK, WebSockets
  <1>3. \A f \in Frames : OnStack(f) => OnStack(f)'
    <2>1. PICK w \in WebSockets : w = opened + 1
      BY <1>2
    <2> QED
      BY <1>1, <2>1, CallKeeps DEF SocketInv
  <1>4. /\ phase' = [phase EXCEPT ![c] = "open"]
        /\ socketPf' = [socketPf EXCEPT ![c] = opened + 1]
    BY DEF OpenHandler, Opens
  <1>5. ASSUME NEW d \in Conns, Closing(d)' PROVE OnStack(CloseFrame(d))'
    <2>1. d # c /\ Closing(d) /\ socketPf'[d] = socketPf[d]
      BY <1>4, <1>5 DEF Closing, SocketInv, TypeOK
    <2> QED
      BY <1>3, <2>1, FrameStays
  <1> QED
    BY <1>5 DEF ClosingOnStack, Closing

LEMMA CloseHandlerKeepsFrames ==
    ASSUME SocketInv, ClosingOnStack, NEW c \in Conns, CloseHandler(c)
    PROVE  ClosingOnStack'
  <1>1. PICK called \in BOOLEAN : CallJSIf(called, socketPf[c])
    BY Zenon DEF CloseHandler, Reports
  <1>2. /\ phase[c] = "closing" /\ phase' = [phase EXCEPT ![c] = "reported"]
        /\ UNCHANGED socketPf
    BY DEF CloseHandler, Reports, isReported
  <1>3. \A f \in Frames : OnStack(f) => OnStack(f)'
    <2>1. PICK w \in WebSockets : w = socketPf[c]
      BY <1>2, HeldObject
    <2> QED
      BY <1>1, <2>1, CallKeeps DEF SocketInv
  <1>4. ASSUME NEW d \in Conns, Closing(d)' PROVE OnStack(CloseFrame(d))'
    <2>1. Closing(d)
      BY <1>2, <1>4 DEF Closing, SocketInv, TypeOK
    <2> QED
      BY <1>2, <1>3, <2>1, FrameStays
  <1> QED
    BY <1>4 DEF ClosingOnStack, Closing

LEMMA CloseHandlerEndsKeepsFrames ==
    ASSUME SocketInv, ClosingOnStack, NEW c \in Conns, CloseHandlerEnds(c)
    PROVE  ClosingOnStack'
  <1>1. /\ stack \in Seq(Frames) /\ stack # <<>> /\ Top.conns = {c}
        /\ stack' = SubSeq(stack, 1, Len(stack) - 1)
        /\ phase' = [phase EXCEPT ![c] = "none"]
        /\ socketPf' = [socketPf EXCEPT ![c] = NoWebSocket]
    BY DEF CloseHandlerEnds, Runs, Pop, SocketInv, TypeOK
  <1>2. ASSUME NEW d \in Conns, Closing(d)' PROVE OnStack(CloseFrame(d))'
    <2>1. d # c /\ Closing(d) /\ socketPf'[d] = socketPf[d]
      BY <1>1, <1>2 DEF Closing, SocketInv, TypeOK
    <2>2. ASSUME NEW f \in Frames, f = CloseFrame(d), OnStack(f) PROVE OnStack(f)'
      <3>1. Top # f
        <4>1. f.conns = {d}
          BY <2>2 DEF CloseFrame
        <4>2. {d} # {c}
          BY <2>1
        <4> QED
          BY <1>1, <4>1, <4>2
      <3>2. PICK s : s = SubSeq(stack, 1, Len(stack) - 1)
        OBVIOUS
      <3>3. \E i \in 1 .. Len(s) : s[i] = f
        BY <1>1, <2>2, <3>1, <3>2, PopKeeps
      <3> QED
        BY <1>1, <3>2, <3>3 DEF OnStack
    <2> QED
      BY <2>1, <2>2, FrameStays
  <1> QED
    BY <1>2 DEF ClosingOnStack, Closing

LEMMA StackStep == SocketInv /\ ClosingOnStack /\ [Next]_vars => ClosingOnStack'
  <1> SUFFICES ASSUME SocketInv, ClosingOnStack, [Next]_vars PROVE ClosingOnStack'
    OBVIOUS
  <1>1. CASE UNCHANGED vars
    BY <1>1 DEF vars, ClosingOnStack, OnStack, CloseFrame
  <1>2. ASSUME NEW c \in Conns, OpenHandler(c) PROVE ClosingOnStack'
    BY <1>2, OpenKeepsFrames
  <1>3. ASSUME NEW c \in Conns, EventHandler(c) \/ DroppedHandler(c) PROVE ClosingOnStack'
    <2>1. /\ phase[c] = "open" /\ CallJSIf(TRUE, socketPf[c])
          /\ UNCHANGED <<phase, socketPf>>
      BY <1>3 DEF EventHandler, DroppedHandler
    <2> QED
      BY <2>1, HeldObject, CallsKeepFrames
  <1>4. ASSUME NEW c \in Conns, SubscriptionHandler(c) PROVE ClosingOnStack'
    <2>1. phase[c] = "closing" /\ UNCHANGED <<phase, socketPf>>
      BY <1>4 DEF SubscriptionHandler
    <2>2. PICK called \in BOOLEAN : CallJSIf(called, socketPf[c])
      BY <1>4, Zenon DEF SubscriptionHandler
    <2> QED
      BY <2>1, <2>2, HeldObject, CallsKeepFrames
  <1>5. ASSUME NEW c \in Conns, Disconnect(c) PROVE ClosingOnStack'
    BY <1>5, StartClosingKeepsFrames DEF Disconnect
  <1>6. ASSUME NEW w \in WebSockets, Subscribe(w) \/ Unsubscribe(w) PROVE ClosingOnStack'
    <2>1. UNCHANGED <<phase, socketPf>>
      BY <1>6 DEF Subscribe, Unsubscribe
    <2>2. PICK called \in BOOLEAN : CallJSIf(called, w)
      <3>1. CASE Subscribe(w)
        BY <3>1, Zenon DEF Subscribe
      <3>2. CASE Unsubscribe(w)
        BY <3>2, Zenon DEF Unsubscribe
      <3> QED
        BY <1>6, <3>1, <3>2
    <2> QED
      BY <2>1, <2>2, CallsKeepFrames
  <1>7. ASSUME NEW w \in WebSockets, Cork(w) PROVE ClosingOnStack'
    BY <1>7, CallsKeepFrames DEF Cork
  <1>8. ASSUME NEW w \in WebSockets, WsClose(w) \/ WsEnd(w) PROVE ClosingOnStack'
    <2>1. wsObject[w] \in Conns /\ StartClosing(wsObject[w]) /\ UNCHANGED socketPf
      BY <1>8 DEF WsClose, WsEnd, getWebSocket, SocketInv, TypeOK
    <2>2. PICK c \in Conns : c = wsObject[w]
      BY <2>1
    <2> QED
      BY <2>1, <2>2, StartClosingKeepsFrames
  <1>9. CASE ProtoClose
    BY <1>9, ProtoCloseKeepsFrames
  <1>10. CASE ProtoCloseEnds \/ Return
    BY <1>10, ReturnKeepsFrames
  <1>11. ASSUME NEW c \in Conns, CloseHandler(c) PROVE ClosingOnStack'
    BY <1>11, CloseHandlerKeepsFrames
  <1>12. ASSUME NEW c \in Conns, CloseHandlerEnds(c) PROVE ClosingOnStack'
    BY <1>12, CloseHandlerEndsKeepsFrames
  <1>13. ASSUME NEW c \in Conns, ProtoCloseSocket(c) PROVE ClosingOnStack'
    BY <1>13, ProtoCloseSocketKeepsFrames
  <1> QED
    BY <1>1, <1>2, <1>3, <1>4, <1>5, <1>6, <1>7, <1>8, <1>9, <1>10, <1>11, <1>12, <1>13
    DEF Next, Native

LEMMA StackInit == Init => ClosingOnStack
  BY DEF Init, ClosingOnStack

LEMMA StackAlways == Spec => []ClosingOnStack
  BY SocketAlways, StackInit, StackStep, PTL DEF Spec

-------------------------------------------------------------------------------
(* What follows. *)

\* Every variable keeps its type, and no close event comes twice.
THEOREM SocketTypeCorrect == Spec => []TypeOK
<1>1. SocketInv => TypeOK
  BY DEF SocketInv
<1> QED
  BY <1>1, SocketAlways, PTL

\* The pointer of a WebSocket object leads to its own socket, whose close event has
\* not been reported: whatever JavaScript closes inside of whatever handler.
THEOREM SocketObjectSafety == Spec => []ObjectLeadsToItsSocket
<1>1. SocketInv => ObjectLeadsToItsSocket
  BY DEF SocketInv
<1> QED
  BY <1>1, SocketAlways, PTL

\* A WebSocket is valid from its open event until somebody begins to close it.
THEOREM OpenIsValid == Spec => []ValidWhileOpen
<1>1. SocketInv => ValidWhileOpen
  BY DEF SocketInv
<1> QED
  BY <1>1, SocketAlways, PTL

\* No socket goes away without a close event, and none comes before.
THEOREM ReportSafety == Spec => []CloseIsReported
<1>1. ASSUME SocketInv, NEW w \in 1 .. opened
      PROVE  closeEvents[w] = 1
                <=> \A c \in Conns : socketPf[c] = w => phase[c] = "reported"
  <2>1. w \in WebSockets /\ w # NoWebSocket
    BY <1>1 DEF SocketInv, TypeOK, WebSockets, NoWebSocket
  <2>2. \A c \in Conns : socketPf[c] = w => phase[c] \in {"open", "closing", "reported"}
    BY <1>1, <2>1 DEF SocketInv, TypeOK, SocketsHoldObjects
  <2> QED
    BY <1>1, <2>1, <2>2 DEF SocketInv, EventsFollowPhase
<1>2. SocketInv => CloseIsReported
  BY <1>1 DEF CloseIsReported
<1> QED
  BY <1>2, SocketAlways, PTL

\* What JavaScript has closed is being closed by a call that is still running, or
\* has had its close event.
THEOREM ClosesAtOnce == Spec => []GivenUpIsBeingClosed
<1>1. ASSUME SocketInv, ClosingOnStack, NEW w \in 1 .. opened,
             wsObject[w] = NoConn, closeEvents[w] = 0
      PROVE  \E i \in 1 .. Len(stack) : stack[i].kind = "close" /\ stack[i].ws = w
  <2>1. PICK c \in Conns : socketPf[c] = w
    BY <1>1 DEF SocketInv, EventsFollowPhase
  <2>2. w # NoWebSocket
    BY DEF NoWebSocket
  <2>3. phase[c] \in {"open", "closing", "reported"}
    BY <1>1, <2>1, <2>2 DEF SocketInv, TypeOK, SocketsHoldObjects
  <2>4. phase[c] # "open" /\ phase[c] # "reported"
    BY <1>1, <2>1 DEF SocketInv, ValidWhileOpen, EventsFollowPhase
  <2>5. OnStack(CloseFrame(c))
    BY <1>1, <2>3, <2>4 DEF ClosingOnStack
  <2> QED
    BY <2>1, <2>5 DEF OnStack, CloseFrame
<1>2. SocketInv /\ ClosingOnStack => GivenUpIsBeingClosed
  BY <1>1 DEF GivenUpIsBeingClosed
<1> QED
  BY <1>2, SocketAlways, StackAlways, PTL

-------------------------------------------------------------------------------
(* No call after the close event. *)

(* Every call of a handler is with an object that has not had its close event, and *)
(* every other step that pushes something pushes a call of the library.            *)
LEMMA PushTop ==
    ASSUME TypeOK, NEW f \in Frames, Push(f)
    PROVE  stack'[Len(stack')] = f
  BY DEF TypeOK, Push

LEMMA CallTop ==
    ASSUME TypeOK, NEW called \in BOOLEAN, NEW v \in WebSockets, CallJSIf(called, v)
    PROVE  stack' = stack \/ stack'[Len(stack')] = JsFrame(v)
  <1>1. JsFrame(v) \in Frames
    BY FrameTypes
  <1>2. CASE called
    BY <1>1, <1>2, PushTop DEF CallJSIf
  <1>3. CASE ~ called
    BY <1>3 DEF CallJSIf
  <1> QED
    BY <1>2, <1>3

LEMMA CallsAreLive ==
    ASSUME SocketInv, [Next]_vars, NEW w \in 1 .. opened, closeEvents[w] > 0,
           Len(stack') > Len(stack)
    PROVE  stack'[Len(stack')] # JsFrame(w)
  <1> DEFINE Goal == stack'[Len(stack')] # JsFrame(w)
             Same == stack' = stack
  <1>1. /\ TypeOK /\ closeEvents[w] # 0 /\ stack \in Seq(Frames)
        /\ Len(stack) \in Nat /\ ~ Same
    BY DEF SocketInv, TypeOK
  <1>2. ASSUME NEW called \in BOOLEAN, NEW v \in WebSockets, CallJSIf(called, v), v # w
        PROVE  Goal
    <2>1. stack'[Len(stack')] = JsFrame(v)
      BY <1>1, <1>2, CallTop
    <2> QED
      BY <1>2, <2>1 DEF JsFrame
  <1>3. \A c \in Conns : phase[c] \in {"open", "closing"} =>
            socketPf[c] \in WebSockets /\ socketPf[c] # w
    <2>1. \A c \in Conns : phase[c] \in {"open", "closing"} => closeEvents[socketPf[c]] = 0
      BY DEF SocketInv, EventsFollowPhase
    <2> QED
      BY <1>1, <2>1, HeldObject
  <1>4. ASSUME NEW c \in Conns, OpenHandler(c) PROVE Goal
    <2>1. PICK called \in BOOLEAN : CallJSIf(called, opened + 1)
      BY <1>4 DEF OpenHandler, Opens
    <2>2. opened + 1 \in WebSockets /\ opened + 1 # w
      BY <1>1, <1>4 DEF OpenHandler, Opens, TypeOK, WebSockets
    <2> QED
      BY <1>2, <2>1, <2>2
  <1>5. ASSUME NEW c \in Conns, EventHandler(c) \/ DroppedHandler(c) PROVE Goal
    <2>1. CallJSIf(TRUE, socketPf[c]) /\ phase[c] = "open"
      BY <1>5 DEF EventHandler, DroppedHandler
    <2> QED
      BY <1>2, <1>3, <2>1
  <1>6. ASSUME NEW c \in Conns, SubscriptionHandler(c) \/ CloseHandler(c) PROVE Goal
    <2>1. PICK called \in BOOLEAN : CallJSIf(called, socketPf[c])
      BY <1>6 DEF SubscriptionHandler, CloseHandler, Reports
    <2>2. phase[c] = "closing"
      BY <1>6 DEF SubscriptionHandler, CloseHandler, Reports
    <2> QED
      BY <1>2, <1>3, <2>1, <2>2
  <1>7. ASSUME NEW v \in WebSockets, Subscribe(v) \/ Unsubscribe(v) \/ Cork(v) PROVE Goal
    <2>1. wsObject[v] # NoConn
      BY <1>7 DEF Subscribe, Unsubscribe, Cork, getWebSocket
    <2>2. v # w
      <3>1. /\ wsObject[v] \in Conns /\ socketPf[wsObject[v]] = v
            /\ phase[wsObject[v]] \in {"open", "closing"}
        BY <2>1 DEF SocketInv, TypeOK, ObjectLeadsToItsSocket
      <3> QED
        BY <1>3, <3>1
    <2>3. PICK called \in BOOLEAN : CallJSIf(called, v)
      BY <1>7 DEF Subscribe, Unsubscribe, Cork
    <2> QED
      BY <1>2, <2>2, <2>3
  <1>8. ASSUME NEW c \in Conns, StartClosing(c) PROVE Goal
    <2>1. CloseFrame(c) \in Frames /\ Push(CloseFrame(c))
      BY <1>1, <1>8, FrameTypes DEF StartClosing
    <2>2. stack'[Len(stack')] = CloseFrame(c)
      BY <1>1, <2>1, PushTop
    <2> QED
      BY <2>2 DEF CloseFrame, JsFrame
  <1>9. ASSUME NEW c \in Conns, Disconnect(c) PROVE Goal
    BY <1>8, <1>9 DEF Disconnect
  <1>10. ASSUME NEW v \in WebSockets, WsClose(v) \/ WsEnd(v) PROVE Goal
    <2>1. wsObject[v] \in Conns
      BY <1>1, <1>10 DEF WsClose, WsEnd, getWebSocket, TypeOK
    <2>2. StartClosing(wsObject[v])
      BY <1>10 DEF WsClose, WsEnd
    <2> QED
      BY <1>8, <2>1, <2>2
  <1>11. ASSUME ProtoClose PROVE Goal
    <2> DEFINE f == CloseAllFrame({c \in Conns : phase[c] = "open"})
    <2>1. f \in Frames /\ Push(f)
      BY <1>1, <1>11, FrameTypes DEF ProtoClose
    <2>2. f.kind = "closeAll"
      BY DEF CloseAllFrame
    <2> HIDE DEF f
    <2>3. stack'[Len(stack')] = f
      BY <1>1, <2>1, PushTop
    <2> QED
      BY <2>2, <2>3 DEF JsFrame
  <1>12. ASSUME NEW c \in Conns, ProtoCloseSocket(c) PROVE Goal
    <2> DEFINE below == SubSeq(stack, 1, Len(stack) - 1)
               rest == CloseAllFrame(Top.conns \ {c})
    <2>1. stack # <<>>
      BY <1>12 DEF ProtoCloseSocket, Runs
    <2>2. rest \in Frames /\ CloseFrame(c) \in Frames
      <3>1. Top.conns \in SUBSET Conns
        BY <1>1, <2>1, TopType DEF Frames
      <3> QED
        BY <1>1, <3>1, FrameTypes
    <2>3. below \in Seq(Frames)
      BY <1>1, <2>1, PopType
    <2>4. \/ stack' = Append(Append(below, rest), CloseFrame(c))
          \/ stack' = Append(below, rest)
      BY <1>12 DEF ProtoCloseSocket
    <2>5. CloseFrame(c).kind = "close" /\ rest.kind = "closeAll" /\ JsFrame(w).kind = "js"
      BY DEF CloseFrame, CloseAllFrame, JsFrame
    <2> HIDE DEF below, rest
    <2>6. stack'[Len(stack')] \in {CloseFrame(c), rest}
      BY <2>2, <2>3, <2>4
    <2> QED
      BY <2>5, <2>6
  <1>13. CASE ProtoCloseEnds \/ Return \/ \E c \in Conns : CloseHandlerEnds(c)
    <2>1. stack # <<>> /\ stack' = SubSeq(stack, 1, Len(stack) - 1)
      BY <1>13 DEF ProtoCloseEnds, Return, CloseHandlerEnds, Runs, Pop
    <2>2. Len(stack) \in Nat \ {0} /\ Len(SubSeq(stack, 1, Len(stack) - 1)) = Len(stack) - 1
      BY <1>1, <2>1
    <2> QED
      BY <2>1, <2>2
  <1>14. ~ UNCHANGED vars
    BY <1>1 DEF vars
  <1> QED
    BY <1>4, <1>5, <1>6, <1>7, <1>9, <1>10, <1>11, <1>12, <1>13, <1>14 DEF Next, Native

\* No handler is called with an object after its close event, also not for messages that
\* are dropped or subscriptions that end while the socket is being closed.
\* (the close lambda of uWS_Proto_ws)
THEOREM NoCallAfterClose == Spec => NothingAfterClose
<1>1. SocketInv /\ [Next]_vars =>
          [\A w \in 1 .. opened :
              closeEvents[w] > 0 /\ Len(stack') > Len(stack)
                  => stack'[Len(stack')] # JsFrame(w)]_vars
  BY CallsAreLive
<1> QED
  BY <1>1, SocketAlways, PTL DEF Spec, NothingAfterClose

-------------------------------------------------------------------------------
(* The refinement of SocketLifecycle, but for its fairness. *)

LEMMA LifeOf ==
    ASSUME NEW w \in WebSockets
    PROVE  /\ life[w] = IF w > opened THEN "none"
                        ELSE IF closeEvents[w] > 0 THEN "closed"
                        ELSE IF wsObject[w] = NoConn THEN "givenUp"
                        ELSE "valid"
           /\ life'[w] = IF w > opened' THEN "none"
                         ELSE IF closeEvents'[w] > 0 THEN "closed"
                         ELSE IF wsObject'[w] = NoConn THEN "givenUp"
                         ELSE "valid"
BY DEF life

(* The life of an object depends on its pointer and its close event. *)
LEMMA LifeKept ==
    ASSUME NEW w \in WebSockets,
           \A v \in WebSockets : v # w =>
               /\ wsObject'[v] = wsObject[v]
               /\ closeEvents'[v] = closeEvents[v]
               /\ v > opened' <=> v > opened
    PROVE  life' = [life EXCEPT ![w] = life'[w]]
BY DEF life

LEMMA OpenRefines ==
    ASSUME SocketInv, SocketInv', NEW c \in Conns, OpenHandler(c)
    PROVE  Lifecycle!Next
<1>1. PICK w \in WebSockets : w = opened + 1
  BY DEF OpenHandler, Opens, WebSockets, SocketInv, TypeOK
<1>2. /\ opened' = w /\ opened \in Nat
      /\ wsObject' = [wsObject EXCEPT ![w] = c]
      /\ closeEvents' = closeEvents
  BY <1>1 DEF OpenHandler, Opens, SocketInv, TypeOK
<1>3. closeEvents[w] = 0 /\ wsObject'[w] = c
  BY <1>1, <1>2 DEF SocketInv, FreshObjects, TypeOK
<1>4. \A v \in WebSockets : v # w =>
          wsObject'[v] = wsObject[v] /\ (v > opened' <=> v > opened)
  BY <1>1, <1>2 DEF SocketInv, TypeOK, WebSockets
<1>5. ~ w > opened'
  BY <1>1, <1>2
<1>6. life' = [life EXCEPT ![w] = "valid"]
  BY <1>1, <1>2, <1>3, <1>4, <1>5, LifeKept, LifeOf
<1>7. life[w] = "none"
  BY <1>1, <1>2, LifeOf
<1> QED
  BY <1>6, <1>7 DEF Lifecycle!Next, Lifecycle!Open

LEMMA GiveUpRefines ==
    ASSUME SocketInv, SocketInv', NEW w \in WebSockets, WsClose(w) \/ WsEnd(w)
    PROVE  Lifecycle!Next
<1> DEFINE c == wsObject[w]
<1>1. /\ c \in Conns /\ socketPf[c] = w /\ phase[c] \in {"open", "closing"}
      /\ wsObject' = [wsObject EXCEPT ![w] = NoConn]
      /\ UNCHANGED <<opened, closeEvents>>
  BY DEF WsClose, WsEnd, getWebSocket, invalidateWsObject, SocketInv, TypeOK,
     ObjectLeadsToItsSocket
<1>2. closeEvents[w] = 0 /\ w \in 1 .. opened
  BY <1>1 DEF SocketInv, EventsFollowPhase, SocketsHoldObjects
<1>3. opened \in Nat /\ ~ w > opened /\ ~ closeEvents[w] > 0
  BY <1>2 DEF SocketInv, TypeOK
<1>4. life' = [life EXCEPT ![w] = "givenUp"]
  <2>1. \A v \in WebSockets : v # w => wsObject'[v] = wsObject[v]
    BY <1>1 DEF SocketInv, TypeOK
  <2>2. life' = [life EXCEPT ![w] = life'[w]]
    BY <1>1, <2>1, LifeKept
  <2>3. wsObject'[w] = NoConn
    BY <1>1 DEF SocketInv, TypeOK
  <2>4. life'[w] = "givenUp"
    BY <1>1, <1>3, <2>3, LifeOf
  <2> QED
    BY <2>2, <2>4
<1>5. life[w] = "valid"
  BY <1>1, <1>3, LifeOf
<1> QED
  BY <1>4, <1>5 DEF Lifecycle!Next, Lifecycle!GiveUp

LEMMA CloseRefines ==
    ASSUME SocketInv, SocketInv', NEW c \in Conns, CloseHandler(c)
    PROVE  Lifecycle!Next
<1>1. PICK w \in WebSockets : w = socketPf[c] /\ w \in 1 .. opened
  BY HeldObject DEF CloseHandler, Reports, SocketInv, SocketsHoldObjects
<1>2. /\ wsObject' = [wsObject EXCEPT ![w] = NoConn]
      /\ closeEvents' = [closeEvents EXCEPT ![w] = @ + 1]
      /\ opened' = opened /\ closeEvents[w] = 0
  BY <1>1 DEF CloseHandler, Reports, countsEvent, invalidateWsObject, SocketInv,
     EventsFollowPhase
<1>3. opened \in Nat /\ ~ w > opened /\ ~ closeEvents[w] > 0 /\ closeEvents'[w] > 0
  BY <1>1, <1>2 DEF SocketInv, TypeOK
<1>4. life' = [life EXCEPT ![w] = "closed"]
  <2>1. \A v \in WebSockets : v # w =>
            wsObject'[v] = wsObject[v] /\ closeEvents'[v] = closeEvents[v]
    BY <1>2 DEF SocketInv, TypeOK
  <2>2. life' = [life EXCEPT ![w] = life'[w]]
    BY <1>2, <2>1, LifeKept
  <2>3. life'[w] = "closed"
    BY <1>2, <1>3, LifeOf
  <2> QED
    BY <2>2, <2>3
<1>5. life[w] \in {"valid", "givenUp"}
  BY <1>3, LifeOf
<1> QED
  BY <1>4, <1>5 DEF Lifecycle!Next, Lifecycle!Close

LEMMA StepRefinesLife ==
    ASSUME SocketInv, SocketInv', [Next]_vars
    PROVE  [Lifecycle!Next]_life
<1> DEFINE Still == UNCHANGED <<wsObject, opened, closeEvents>>
<1>1. ASSUME Still PROVE UNCHANGED life
  BY <1>1 DEF life
<1>2. CASE UNCHANGED vars
  BY <1>1, <1>2 DEF vars
<1>3. ASSUME NEW c \in Conns, OpenHandler(c) PROVE Lifecycle!Next
  BY <1>3, OpenRefines
<1>4. ASSUME NEW c \in Conns, CloseHandler(c) PROVE Lifecycle!Next
  BY <1>4, CloseRefines
<1>5. ASSUME NEW w \in WebSockets, WsClose(w) \/ WsEnd(w) PROVE Lifecycle!Next
  BY <1>5, GiveUpRefines
<1>6. ASSUME NEW c \in Conns,
             \/ EventHandler(c) \/ DroppedHandler(c) \/ Disconnect(c)
             \/ SubscriptionHandler(c) \/ CloseHandlerEnds(c) \/ ProtoCloseSocket(c)
      PROVE  Still
  BY <1>6 DEF EventHandler, DroppedHandler, Disconnect, SubscriptionHandler,
     CloseHandlerEnds, ProtoCloseSocket
<1>7. ASSUME NEW w \in WebSockets, Subscribe(w) \/ Unsubscribe(w) \/ Cork(w)
      PROVE  Still
  BY <1>7 DEF Subscribe, Unsubscribe, Cork
<1>8. CASE ProtoClose \/ ProtoCloseEnds \/ Return
  BY <1>1, <1>8 DEF ProtoClose, ProtoCloseEnds, Return
<1> HIDE DEF Still
<1> QED
  BY <1>1, <1>2, <1>3, <1>4, <1>5, <1>6, <1>7, <1>8 DEF Next, Native

\* WebSocket objects live as SocketLifecycle says: each opens once, is given up only
\* while it is valid, and is closed once; a closed one never comes back.  That what is
\* given up is closed in the end, its fairness, is left to the run.
\* (invalidateWsObject; open and close in uWS_Proto_ws)
THEOREM SocketRefinement == Spec => Lifecycle!Safety
<1>1. Init => Lifecycle!Init
  <2> SUFFICES ASSUME Init PROVE Lifecycle!Init
    OBVIOUS
  <2>1. \A w \in WebSockets : w > opened
    BY DEF Init, WebSockets
  <2> QED
    BY <2>1 DEF Lifecycle!Init, life
<1>2. SocketInv /\ SocketInv' /\ [Next]_vars => [Lifecycle!Next]_life
  BY StepRefinesLife
<1> QED
  BY <1>1, <1>2, SocketAlways, PTL DEF Spec, Lifecycle!Safety
===============================================================================
