----------------------------- MODULE RoutingProofs -----------------------------
(* Theorems about Routing, for any contexts, addresses, patterns and          *)
(* functions.                                                                 *)
EXTENDS Routing, TLAPS

(* A context owns natives that it has wrappers of, all of them while it runs,  *)
(* and no protocol afterwards; contexts share no native.                       *)
Ownership ==
    /\ \A x \in Contexts :
            apps[x] \union protocols[x] \union webAppsByPtr[x] \subseteq wrappers[x]
    /\ \A x \in Contexts : phase[x] = "running" =>
            /\ apps[x] = wrappers[x] \intersect Apps
            /\ protocols[x] = wrappers[x] \intersect Protocols
            /\ webAppsByPtr[x] = wrappers[x] \intersect WebApps
    /\ \A x \in Contexts : phase[x] # "running" => protocols[x] = {}
    /\ \A x, y \in Contexts : wrappers[x] \intersect wrappers[y] # {} => x = y

(* The shared callback of an App exists until its context ends, is its own,    *)
(* and holds what onObject was last given; an App that is not made yet was      *)
(* given nothing.                                                              *)
AppsHoldCallbacks ==
    /\ \A x \in Contexts, a \in Apps : appObjectCallbacks[x][a] # NoCell =>
            /\ a \in wrappers[x]
            /\ content[appObjectCallbacks[x][a]] = latest[a]
    /\ \A x \in Contexts : phase[x] # "ended" =>
            \A a \in Apps \intersect wrappers[x] : appObjectCallbacks[x][a] # NoCell
    /\ \A x, y \in Contexts, a, b \in Apps :
            appObjectCallbacks[x][a] = appObjectCallbacks[y][b]
                /\ appObjectCallbacks[x][a] # NoCell => x = y /\ a = b
    /\ \A a \in Apps : (\A x \in Contexts : a \notin wrappers[x]) => latest[a] = NoCallback

(* An object route looks at the shared callback of the App that registered it,  *)
(* and at that of no other App, nor when its own context has ended.              *)
RoutesHoldCallbacks ==
    \A d \in Patterns : domainRouter[d].kind = "object" =>
        /\ domainRouter[d].app \in wrappers[domainRouter[d].ctx]
        /\ phase[domainRouter[d].ctx] # "ended" =>
              domainRouter[d].cell = appObjectCallbacks[domainRouter[d].ctx][domainRouter[d].app]
        /\ \A x \in Contexts, a \in Apps : appObjectCallbacks[x][a] = domainRouter[d].cell =>
              x = domainRouter[d].ctx /\ a = domainRouter[d].app

(* A route that calls a WebApp calls one of its own context, which keeps it      *)
(* alive until it ends.                                                           *)
RoutesKeepWebApps ==
    \A d \in Patterns : domainRouter[d].kind = "webApp" =>
        \/ phase[domainRouter[d].ctx] = "ended"
        \/ domainRouter[d].webApp \in webAppsByPtr[domainRouter[d].ctx]

(* If each context is sent requests for its own domains, a handler runs in its    *)
(* own context only, before the cleanup, with a WebApp the context keeps.         *)
HandlersRunAtHome ==
    Apart => \A x \in Contexts : running[x] # NoHandler =>
        /\ phase[x] = "running"
        /\ running[x].kind = "webApp" => running[x].webApp \in webAppsByPtr[x]

RoutingInv ==
    /\ TypeOK
    /\ Ownership
    /\ BoundAppIsAlive
    /\ AppsHoldCallbacks
    /\ RoutesHoldCallbacks
    /\ RoutesSeeTheLatestCallback
    /\ RoutesKeepWebApps
    /\ HandlersRunAtHome

-------------------------------------------------------------------------------
(* Handlers. *)

(* What a handler in the router or on a thread looks like. *)
LEMMA HandlerFields ==
    ASSUME NEW h \in Handlers
    PROVE  /\ h.kind = "object" => h.ctx \in Contexts /\ h.app \in Apps /\ h.cell \in Cells
           /\ h.kind = "webApp" => h.ctx \in Contexts /\ h.webApp \in WebApps
           /\ h.kind # "object" => h.cell = NoCell
           /\ h.kind # "webApp" => h.webApp = NoWebApp
  BY DEF Handlers, NoHandler, Handler

LEMMA RouteMakesHandler ==
    ASSUME TypeOK, AppsHoldCallbacks, Ownership,
           NEW x \in Contexts, NEW a \in Apps, Calls(x, a),
           NEW h \in {StaticBuffer(x, a), onRequest(x, a), onObject(x, a)}
                        \union {fromWebApp(x, a, w) : w \in wrappers[x] \intersect webAppsByPtr[x]}
    PROVE  /\ h \in Handlers
           /\ h.kind = "object" => h = onObject(x, a) /\ appObjectCallbacks[x][a] \in Cells
           /\ h.kind = "webApp" => h.ctx = x /\ h.webApp \in webAppsByPtr[x]
  <1>1. phase[x] = "running" /\ a \in wrappers[x]
    BY DEF Calls
  <1>2. appObjectCallbacks[x][a] \in Cells
    <2>1. appObjectCallbacks[x][a] # NoCell
      BY <1>1 DEF AppsHoldCallbacks
    <2>2. appObjectCallbacks[x] \in [Apps -> Cells \union {NoCell}]
      BY DEF TypeOK
    <2> QED
      BY <2>1, <2>2
  <1>3. CASE h = StaticBuffer(x, a) \/ h = onRequest(x, a)
    <2>1. h.kind \in {"static", "function"}
      BY <1>3 DEF StaticBuffer, onRequest, Handler
    <2>2. h \in [kind : {"static", "function"}, ctx : Contexts, app : Apps,
                 cell : {NoCell}, webApp : {NoWebApp}]
      BY <1>3 DEF StaticBuffer, onRequest, Handler
    <2> QED
      BY <2>1, <2>2 DEF Handlers
  <1>4. CASE h = onObject(x, a)
    BY <1>2, <1>4 DEF onObject, Handler, Handlers
  <1>5. CASE h \in {fromWebApp(x, a, w) : w \in wrappers[x] \intersect webAppsByPtr[x]}
    <2>1. PICK w \in webAppsByPtr[x] : h = fromWebApp(x, a, w)
      BY <1>5
    <2>2. w \in WebApps
      BY DEF TypeOK
    <2> QED
      BY <2>1, <2>2 DEF fromWebApp, Handler, Handlers
  <1> QED
    BY <1>3, <1>4, <1>5

-------------------------------------------------------------------------------
(* Types. *)

LEMMA TypeStep == RoutingInv /\ [Next]_vars => TypeOK'
  <1> SUFFICES ASSUME RoutingInv, [Next]_vars PROVE TypeOK'
    OBVIOUS
  <1> USE DEF owned, callbacks
  <1>1. CASE UNCHANGED vars
    BY <1>1 DEF vars, TypeOK, RoutingInv
  <1>2. ASSUME NEW x \in Contexts, NEW a \in Apps, NewApp(x, a) PROVE TypeOK'
    <2>1. PICK i \in Cells : /\ appObjectCallbacks' = [appObjectCallbacks EXCEPT ![x][a] = i]
                             /\ content' = [content EXCEPT ![i] = NoCallback]
      BY <1>2 DEF NewApp
    <2>2. appObjectCallbacks' \in [Contexts -> [Apps -> Cells \union {NoCell}]]
      BY <2>1 DEF TypeOK, RoutingInv
    <2>3. content' \in [Cells -> Callbacks \union {NoCallback}]
      BY <2>1 DEF TypeOK, RoutingInv
    <2>4. /\ apps' \in [Contexts -> SUBSET Apps]
          /\ wrappers' \in [Contexts -> SUBSET (Apps \union Protocols \union WebApps)]
      BY <1>2 DEF NewApp, Makes, TypeOK, RoutingInv
    <2> QED
      BY <1>2, <2>2, <2>3, <2>4 DEF NewApp, Makes, TypeOK, RoutingInv
  <1>3. ASSUME NEW x \in Contexts, NEW a \in Apps, Route(x, a) PROVE TypeOK'
    <2>1. Calls(x, a)
      BY <1>3 DEF Route
    <2>2. PICK d \in Patterns,
               h \in {StaticBuffer(x, a), onRequest(x, a), onObject(x, a)}
                        \union {fromWebApp(x, a, w) : w \in wrappers[x] \intersect webAppsByPtr[x]} :
                domainRouter' = [domainRouter EXCEPT ![d] = h]
      BY <1>3 DEF Route
    <2>3. h \in Handlers
      BY <2>1, RouteMakesHandler DEF RoutingInv
    <2> QED
      BY <1>3, <2>2, <2>3 DEF Route, TypeOK, RoutingInv
  <1>4. ASSUME NEW x \in Contexts, NEW a \in Apps, Unroute(x, a) PROVE TypeOK'
    <2>1. NoHandler \in Handlers
      BY DEF Handlers
    <2> QED
      BY <1>4, <2>1 DEF Unroute, TypeOK, RoutingInv
  <1>5. ASSUME NEW x \in Contexts, NEW a \in Apps, OnObject(x, a) PROVE TypeOK'
    BY ZenonT(30), <1>5 DEF OnObject, TypeOK, RoutingInv
  <1>6. ASSUME NEW x \in Contexts, NEW p \in Protocols, NewProtocol(x, p) PROVE TypeOK'
    BY <1>6 DEF NewProtocol, Makes, TypeOK, RoutingInv
  <1>7. ASSUME NEW x \in Contexts, NEW p \in Protocols, Bind(x, p) \/ Unbind(x, p)
        PROVE  TypeOK'
    <2>1. bound' \in [Protocols -> Apps \union {NoApp}]
      BY <1>7 DEF Bind, Unbind, TypeOK, RoutingInv
    <2>2. UNCHANGED <<phase, wrappers, owned, callbacks, domainRouter, running>>
      BY <1>7 DEF Bind, Unbind
    <2> QED
      BY <2>1, <2>2 DEF TypeOK, RoutingInv
  <1>8. ASSUME NEW x \in Contexts, NEW p \in Protocols, Request(x, p) PROVE TypeOK'
    <2>1. running' \in [Contexts -> Handlers]
      <3>1. PICK d \in Patterns : running' = [running EXCEPT ![x] = domainRouter[d]]
        BY <1>8 DEF Request
      <3> QED
        BY <3>1 DEF TypeOK, RoutingInv
    <2>2. UNCHANGED <<phase, wrappers, owned, bound, callbacks, domainRouter>>
      BY <1>8 DEF Request
    <2> QED
      BY <2>1, <2>2 DEF TypeOK, RoutingInv
  <1>9. ASSUME NEW x \in Contexts, NEW w \in WebApps, NewWebApp(x, w) PROVE TypeOK'
    BY <1>9 DEF NewWebApp, Makes, TypeOK, RoutingInv
  <1>10. ASSUME NEW x \in Contexts, HandlerReturns(x) PROVE TypeOK'
    <2>1. NoHandler \in Handlers
      BY DEF Handlers
    <2> QED
      BY <1>10, <2>1 DEF HandlerReturns, TypeOK, RoutingInv
  <1>11. ASSUME NEW x \in Contexts, FreeProtocols(x) PROVE TypeOK'
    BY <1>11 DEF FreeProtocols, TypeOK, RoutingInv
  <1>12. ASSUME NEW x \in Contexts, FreeApps(x) PROVE TypeOK'
    BY <1>12 DEF FreeApps, Frees, TypeOK, RoutingInv
  <1>13. ASSUME NEW x \in Contexts, DeleteContext(x) PROVE TypeOK'
    BY <1>13 DEF DeleteContext, TypeOK, RoutingInv
  <1> QED
    BY <1>1, <1>2, <1>3, <1>4, <1>5, <1>6, <1>7, <1>8, <1>9, <1>10, <1>11, <1>12, <1>13
    DEF Next

-------------------------------------------------------------------------------
(* Who owns what. *)

(* Calls and requests leave ownership alone. *)
LEMMA CallsOwnNothing ==
    ASSUME NEW x \in Contexts,
           \/ \E a \in Apps : Route(x, a) \/ Unroute(x, a) \/ OnObject(x, a)
           \/ \E p \in Protocols : Bind(x, p) \/ Unbind(x, p) \/ Request(x, p)
           \/ HandlerReturns(x)
    PROVE  UNCHANGED <<phase, wrappers, owned>>
  BY DEF Route, Unroute, OnObject, Bind, Unbind, Request, HandlerReturns

LEMMA OwnershipStep == RoutingInv /\ [Next]_vars => Ownership'
  <1> SUFFICES ASSUME RoutingInv, [Next]_vars PROVE Ownership'
    OBVIOUS
  <1> USE DEF owned
  <1>1. CASE UNCHANGED vars
    BY <1>1 DEF vars, Ownership, RoutingInv
  <1>2. ASSUME NEW x \in Contexts, UNCHANGED <<phase, wrappers, owned>> PROVE Ownership'
    BY <1>2 DEF Ownership, RoutingInv
  <1>3. ASSUME NEW x \in Contexts, NEW n \in Apps \union Protocols \union WebApps, Makes(x, n),
               \/ n \in Apps /\ apps' = [apps EXCEPT ![x] = @ \union {n}]
                            /\ UNCHANGED <<protocols, webAppsByPtr>>
               \/ n \in Protocols /\ protocols' = [protocols EXCEPT ![x] = @ \union {n}]
                                 /\ UNCHANGED <<apps, webAppsByPtr>>
               \/ n \in WebApps /\ webAppsByPtr' = [webAppsByPtr EXCEPT ![x] = @ \union {n}]
                               /\ UNCHANGED <<apps, protocols>>
        PROVE  Ownership'
    <2>1. /\ phase' = phase /\ phase[x] = "running"
          /\ wrappers' = [wrappers EXCEPT ![x] = @ \union {n}]
          /\ \A y \in Contexts : n \notin wrappers[y]
      BY <1>3 DEF Makes
    <2>2. \A y \in Contexts :
            /\ wrappers'[y] = IF y = x THEN wrappers[y] \union {n} ELSE wrappers[y]
            /\ apps'[y] = IF y = x /\ n \in Apps THEN apps[y] \union {n} ELSE apps[y]
            /\ protocols'[y] = IF y = x /\ n \in Protocols THEN protocols[y] \union {n}
                               ELSE protocols[y]
            /\ webAppsByPtr'[y] = IF y = x /\ n \in WebApps THEN webAppsByPtr[y] \union {n}
                                  ELSE webAppsByPtr[y]
      BY <1>3, <2>1, KindsAssumption DEF RoutingInv, TypeOK
    <2>3. \A y \in Contexts :
            /\ apps'[y] \subseteq wrappers'[y]
            /\ protocols'[y] \subseteq wrappers'[y]
            /\ webAppsByPtr'[y] \subseteq wrappers'[y]
      <3>1. \A y \in Contexts : /\ apps[y] \subseteq wrappers[y]
                               /\ protocols[y] \subseteq wrappers[y]
                               /\ webAppsByPtr[y] \subseteq wrappers[y]
        BY DEF Ownership, RoutingInv
      <3> QED
        BY <2>2, <3>1
    <2>4. ASSUME NEW y \in Contexts, phase'[y] = "running"
          PROVE  /\ apps'[y] = wrappers'[y] \intersect Apps
                 /\ protocols'[y] = wrappers'[y] \intersect Protocols
                 /\ webAppsByPtr'[y] = wrappers'[y] \intersect WebApps
      <3>1. /\ apps[y] = wrappers[y] \intersect Apps
            /\ protocols[y] = wrappers[y] \intersect Protocols
            /\ webAppsByPtr[y] = wrappers[y] \intersect WebApps
        BY <2>1, <2>4 DEF Ownership, RoutingInv
      <3>2. CASE y # x
        BY <2>2, <3>1, <3>2
      <3>3. CASE y = x
        <4>1. wrappers'[y] = wrappers[y] \union {n}
          BY <2>2, <3>3
        <4>2. apps'[y] = IF n \in Apps THEN apps[y] \union {n} ELSE apps[y]
          BY <2>2, <3>3
        <4>3. protocols'[y] = IF n \in Protocols THEN protocols[y] \union {n} ELSE protocols[y]
          BY <2>2, <3>3
        <4>4. webAppsByPtr'[y] = IF n \in WebApps THEN webAppsByPtr[y] \union {n}
                                 ELSE webAppsByPtr[y]
          BY <2>2, <3>3
        <4>5. apps'[y] = wrappers'[y] \intersect Apps
          BY <3>1, <4>1, <4>2
        <4>6. protocols'[y] = wrappers'[y] \intersect Protocols
          BY <3>1, <4>1, <4>3
        <4>7. webAppsByPtr'[y] = wrappers'[y] \intersect WebApps
          BY <3>1, <4>1, <4>4
        <4> QED
          BY <4>5, <4>6, <4>7
      <3> QED
        BY <3>2, <3>3
    <2>5. \A y \in Contexts : phase'[y] # "running" => protocols'[y] = {}
      BY <2>1, <2>2 DEF Ownership, RoutingInv
    <2>6. \A y, z \in Contexts : wrappers'[y] \intersect wrappers'[z] # {} => y = z
      BY <2>1, <2>2 DEF Ownership, RoutingInv
    <2> QED
      BY <2>3, <2>4, <2>5, <2>6 DEF Ownership
  <1>4. ASSUME NEW x \in Contexts, NEW a \in Apps, NewApp(x, a) PROVE Ownership'
    BY <1>3, <1>4 DEF NewApp
  <1>5. ASSUME NEW x \in Contexts, NEW p \in Protocols, NewProtocol(x, p) PROVE Ownership'
    BY <1>3, <1>5 DEF NewProtocol
  <1>6. ASSUME NEW x \in Contexts, NEW w \in WebApps, NewWebApp(x, w) PROVE Ownership'
    BY <1>3, <1>6 DEF NewWebApp
  <1>7. ASSUME NEW x \in Contexts,
               FreeProtocols(x) \/ FreeApps(x) \/ DeleteContext(x)
        PROVE  Ownership'
    <2>1. /\ wrappers' = wrappers
          /\ \A y \in Contexts : /\ apps'[y] \subseteq apps[y]
                                /\ protocols'[y] \subseteq protocols[y]
                                /\ webAppsByPtr'[y] \subseteq webAppsByPtr[y]
      <3>1. CASE FreeProtocols(x)
        BY <3>1 DEF FreeProtocols, RoutingInv, TypeOK
      <3>2. CASE FreeApps(x)
        BY <3>2 DEF FreeApps, Frees, RoutingInv, TypeOK
      <3>3. CASE DeleteContext(x)
        BY <3>3 DEF DeleteContext, RoutingInv, TypeOK
      <3> QED
        BY <1>7, <3>1, <3>2, <3>3
    <2>2. phase'[x] # "running" /\ protocols'[x] = {}
      <3>1. CASE FreeProtocols(x)
        BY <3>1 DEF FreeProtocols, RoutingInv, TypeOK
      <3>2. CASE FreeApps(x)
        BY <3>2 DEF FreeApps, Frees, RoutingInv, TypeOK, Ownership
      <3>3. CASE DeleteContext(x)
        BY <3>3 DEF DeleteContext, RoutingInv, TypeOK, Ownership
      <3> QED
        BY <1>7, <3>1, <3>2, <3>3
    <2>3. ASSUME NEW y \in Contexts, y # x
          PROVE  /\ phase'[y] = phase[y] /\ apps'[y] = apps[y]
                 /\ protocols'[y] = protocols[y] /\ webAppsByPtr'[y] = webAppsByPtr[y]
      <3>1. CASE FreeProtocols(x)
        BY <2>3, <3>1 DEF FreeProtocols, RoutingInv, TypeOK
      <3>2. CASE FreeApps(x)
        BY <2>3, <3>2 DEF FreeApps, Frees, RoutingInv, TypeOK
      <3>3. CASE DeleteContext(x)
        BY <2>3, <3>3 DEF DeleteContext, RoutingInv, TypeOK
      <3> QED
        BY <1>7, <3>1, <3>2, <3>3
    <2>4. \A y \in Contexts :
            apps'[y] \union protocols'[y] \union webAppsByPtr'[y] \subseteq wrappers'[y]
      BY <2>1 DEF Ownership, RoutingInv
    <2>5. \A y \in Contexts : phase'[y] = "running" =>
            /\ apps'[y] = wrappers'[y] \intersect Apps
            /\ protocols'[y] = wrappers'[y] \intersect Protocols
            /\ webAppsByPtr'[y] = wrappers'[y] \intersect WebApps
      BY <2>1, <2>2, <2>3 DEF Ownership, RoutingInv
    <2>6. \A y \in Contexts : phase'[y] # "running" => protocols'[y] = {}
      BY <2>2, <2>3 DEF Ownership, RoutingInv
    <2> QED
      BY <2>1, <2>4, <2>5, <2>6 DEF Ownership, RoutingInv
  <1> QED
    BY <1>1, <1>2, <1>4, <1>5, <1>6, <1>7, CallsOwnNothing DEF Next

LEMMA BoundStep == RoutingInv /\ [Next]_vars => BoundAppIsAlive'
  <1> SUFFICES ASSUME RoutingInv, [Next]_vars PROVE BoundAppIsAlive'
    OBVIOUS
  <1> USE DEF owned
  <1>1. ASSUME UNCHANGED bound,
               \A x \in Contexts : apps[x] \subseteq apps'[x] /\ protocols[x] \subseteq protocols'[x]
        PROVE  BoundAppIsAlive'
    BY <1>1 DEF BoundAppIsAlive, RoutingInv
  <1>2. CASE UNCHANGED vars
    BY <1>1, <1>2 DEF vars
  <1>3. ASSUME NEW x \in Contexts,
               \/ \E a \in Apps : Route(x, a) \/ Unroute(x, a) \/ OnObject(x, a)
               \/ \E p \in Protocols : Request(x, p)
               \/ HandlerReturns(x)
               \/ DeleteContext(x)
        PROVE  BoundAppIsAlive'
    <2>1. UNCHANGED <<bound, apps, protocols>>
      BY <1>3 DEF Route, Unroute, OnObject, Request, HandlerReturns, DeleteContext
    <2> QED
      BY <1>1, <2>1
  <1>4. ASSUME NEW x \in Contexts,
               \/ \E a \in Apps : NewApp(x, a)
               \/ \E p \in Protocols : NewProtocol(x, p)
               \/ \E w \in WebApps : NewWebApp(x, w)
        PROVE  BoundAppIsAlive'
    <2>1. UNCHANGED bound
      BY <1>4 DEF NewApp, NewProtocol, NewWebApp, Makes
    <2>2. \A y \in Contexts : apps[y] \subseteq apps'[y] /\ protocols[y] \subseteq protocols'[y]
      <3>1. CASE \E a \in Apps : NewApp(x, a)
        <4>1. PICK a \in Apps : NewApp(x, a)
          BY <3>1
        <4>2. apps' = [apps EXCEPT ![x] = @ \union {a}] /\ protocols' = protocols
          BY <4>1 DEF NewApp
        <4> QED
          BY <4>2 DEF RoutingInv, TypeOK
      <3>2. CASE \E p \in Protocols : NewProtocol(x, p)
        BY <3>2 DEF NewProtocol, RoutingInv, TypeOK
      <3>3. CASE \E w \in WebApps : NewWebApp(x, w)
        BY <3>3 DEF NewWebApp, RoutingInv, TypeOK
      <3> QED
        BY <1>4, <3>1, <3>2, <3>3
    <2> QED
      BY <1>1, <2>1, <2>2
  <1>5. ASSUME NEW x \in Contexts, NEW p \in Protocols, Bind(x, p) \/ Unbind(x, p)
        PROVE  BoundAppIsAlive'
    <2>1. p \in protocols[x] /\ phase[x] = "running"
      BY <1>5 DEF Bind, Unbind, Calls, RoutingInv, Ownership
    <2>2. \A a \in Apps \intersect wrappers[x] : a \in apps[x]
      BY <2>1 DEF RoutingInv, Ownership
    <2>3. UNCHANGED <<apps, protocols>>
      BY <1>5 DEF Bind, Unbind
    <2>4. CASE Unbind(x, p)
      BY <2>3, <2>4 DEF Unbind, BoundAppIsAlive, RoutingInv, TypeOK
    <2>5. CASE Bind(x, p)
      <3>1. PICK a \in apps[x] : bound' = [bound EXCEPT ![p] = a]
        BY <2>2, <2>5 DEF Bind
      <3> QED
        BY <2>1, <2>3, <3>1 DEF BoundAppIsAlive, RoutingInv, TypeOK
    <2> QED
      BY <1>5, <2>4, <2>5
  <1>6. ASSUME NEW x \in Contexts, FreeProtocols(x) PROVE BoundAppIsAlive'
    BY <1>6 DEF FreeProtocols, BoundAppIsAlive, RoutingInv, TypeOK
  <1>7. ASSUME NEW x \in Contexts, FreeApps(x) PROVE BoundAppIsAlive'
    <2>1. protocols[x] = {} /\ UNCHANGED <<bound, protocols>>
      BY <1>7 DEF FreeApps, Frees, RoutingInv, Ownership
    <2>2. \A y \in Contexts : y # x => apps'[y] = apps[y]
      BY <1>7 DEF FreeApps, Frees, RoutingInv, TypeOK
    <2> QED
      BY <2>1, <2>2 DEF BoundAppIsAlive, RoutingInv
  <1> QED
    BY <1>2, <1>3, <1>4, <1>5, <1>6, <1>7 DEF Next
-------------------------------------------------------------------------------
(* The shared object callbacks. *)

(* What the actions that leave the callbacks alone do to the rest. *)
LEMMA QuietStep ==
    ASSUME RoutingInv, NEW x \in Contexts,
           \/ \E a \in Apps : Route(x, a) \/ Unroute(x, a)
           \/ \E p \in Protocols : NewProtocol(x, p) \/ Bind(x, p) \/ Unbind(x, p) \/ Request(x, p)
           \/ \E w \in WebApps : NewWebApp(x, w)
           \/ HandlerReturns(x) \/ FreeProtocols(x) \/ FreeApps(x)
    PROVE  /\ UNCHANGED <<appObjectCallbacks, content, latest>>
           /\ \A y \in Contexts : /\ wrappers'[y] \intersect Apps = wrappers[y] \intersect Apps
                                  /\ phase'[y] # "ended" => phase[y] # "ended"
  <1> USE DEF callbacks
  <1>1. CASE \E a \in Apps : Route(x, a) \/ Unroute(x, a)
    BY <1>1 DEF Route, Unroute
  <1>2. CASE \E p \in Protocols : Bind(x, p) \/ Unbind(x, p) \/ Request(x, p)
    BY <1>2 DEF Bind, Unbind, Request
  <1>3. CASE \E p \in Protocols : NewProtocol(x, p)
    <2>1. PICK p \in Protocols : NewProtocol(x, p)
      BY <1>3
    <2>2. /\ UNCHANGED <<phase, appObjectCallbacks, content, latest>>
          /\ wrappers' = [wrappers EXCEPT ![x] = @ \union {p}]
      BY <2>1 DEF NewProtocol, Makes
    <2>3. p \notin Apps
      BY KindsAssumption
    <2>4. wrappers \in [Contexts -> SUBSET (Apps \union Protocols \union WebApps)]
      BY DEF RoutingInv, TypeOK
    <2>5. \A y \in Contexts : wrappers'[y] \intersect Apps = wrappers[y] \intersect Apps
      BY <2>2, <2>3, <2>4
    <2> QED
      BY <2>2, <2>5
  <1>4. CASE \E w \in WebApps : NewWebApp(x, w)
    <2>1. PICK w \in WebApps : NewWebApp(x, w)
      BY <1>4
    <2>2. /\ UNCHANGED <<phase, appObjectCallbacks, content, latest>>
          /\ wrappers' = [wrappers EXCEPT ![x] = @ \union {w}]
      BY <2>1 DEF NewWebApp, Makes
    <2>3. w \notin Apps
      BY KindsAssumption
    <2>4. wrappers \in [Contexts -> SUBSET (Apps \union Protocols \union WebApps)]
      BY DEF RoutingInv, TypeOK
    <2>5. \A y \in Contexts : wrappers'[y] \intersect Apps = wrappers[y] \intersect Apps
      BY <2>2, <2>3, <2>4
    <2> QED
      BY <2>2, <2>5
  <1>5. CASE HandlerReturns(x)
    BY <1>5 DEF HandlerReturns
  <1>6. CASE FreeProtocols(x)
    BY <1>6 DEF FreeProtocols, RoutingInv, TypeOK
  <1>7. CASE FreeApps(x)
    BY <1>7 DEF FreeApps, Frees, RoutingInv, TypeOK
  <1> QED
    BY <1>1, <1>2, <1>3, <1>4, <1>5, <1>6, <1>7

(* A new App gets a callback that nobody looked at, and was given nothing. *)
LEMMA NewAppFacts ==
    ASSUME RoutingInv, NEW x \in Contexts, NEW a \in Apps, NewApp(x, a)
    PROVE  \E i \in Cells :
            /\ \A y \in Contexts, b \in Apps :
                /\ appObjectCallbacks[y][b] # i
                /\ appObjectCallbacks'[y][b] =
                        IF y = x /\ b = a THEN i ELSE appObjectCallbacks[y][b]
            /\ \A d \in Patterns : domainRouter[d].cell # i
            /\ \A j \in Cells : content'[j] = IF j = i THEN NoCallback ELSE content[j]
            /\ latest[a] = NoCallback
            /\ UNCHANGED <<latest, phase, domainRouter>>
            /\ \A y \in Contexts : /\ a \notin wrappers[y]
                                   /\ wrappers'[y] = IF y = x THEN wrappers[y] \union {a}
                                                     ELSE wrappers[y]
  <1>1. PICK i \in Cells : /\ ~CellAlive(i)
                           /\ appObjectCallbacks' = [appObjectCallbacks EXCEPT ![x][a] = i]
                           /\ content' = [content EXCEPT ![i] = NoCallback]
    BY DEF NewApp
  <1>2. /\ \A y \in Contexts, b \in Apps : appObjectCallbacks[y][b] # i
        /\ \A d \in Patterns : domainRouter[d].cell # i
    BY <1>1 DEF CellAlive
  <1>3. \A y \in Contexts, b \in Apps : appObjectCallbacks'[y][b] =
                IF y = x /\ b = a THEN i ELSE appObjectCallbacks[y][b]
    <2>1. /\ appObjectCallbacks \in [Contexts -> [Apps -> Cells \union {NoCell}]]
          /\ \A y \in Contexts : appObjectCallbacks[y] \in [Apps -> Cells \union {NoCell}]
      BY DEF RoutingInv, TypeOK
    <2> QED
      BY <1>1, <2>1
  <1>4. \A j \in Cells : content'[j] = IF j = i THEN NoCallback ELSE content[j]
    BY <1>1 DEF RoutingInv, TypeOK
  <1>5. /\ UNCHANGED <<latest, phase, domainRouter>>
        /\ \A y \in Contexts : a \notin wrappers[y]
        /\ wrappers' = [wrappers EXCEPT ![x] = @ \union {a}]
    BY DEF NewApp, Makes
  <1>6. \A y \in Contexts : wrappers'[y] = IF y = x THEN wrappers[y] \union {a} ELSE wrappers[y]
    BY <1>5 DEF RoutingInv, TypeOK
  <1>7. latest[a] = NoCallback
    BY <1>5 DEF RoutingInv, AppsHoldCallbacks
  <1> QED
    BY <1>2, <1>3, <1>4, <1>5, <1>6, <1>7

(* A call of onObject changes what the callback of the App holds, and no other. *)
LEMMA OnObjectFacts ==
    ASSUME RoutingInv, NEW x \in Contexts, NEW a \in Apps, OnObject(x, a)
    PROVE  /\ phase[x] = "running" /\ a \in wrappers[x] /\ appObjectCallbacks[x][a] \in Cells
           /\ \E f \in Callbacks \union {NoCallback} :
                /\ \A j \in Cells : content'[j] =
                        IF j = appObjectCallbacks[x][a] THEN f ELSE content[j]
                /\ \A b \in Apps : latest'[b] = IF b = a THEN f ELSE latest[b]
           /\ UNCHANGED <<phase, wrappers, appObjectCallbacks, domainRouter>>
  <1>1. phase[x] = "running" /\ a \in wrappers[x]
    BY DEF OnObject, Calls
  <1>2. appObjectCallbacks[x][a] \in Cells
    <2>1. appObjectCallbacks[x][a] # NoCell
      BY <1>1 DEF RoutingInv, AppsHoldCallbacks
    <2>2. appObjectCallbacks[x] \in [Apps -> Cells \union {NoCell}]
      BY DEF RoutingInv, TypeOK
    <2> QED
      BY <2>1, <2>2
  <1>3. PICK f \in Callbacks \union {NoCallback} :
            /\ content' = [content EXCEPT ![appObjectCallbacks[x][a]] = f]
            /\ latest' = [latest EXCEPT ![a] = f]
    BY DEF OnObject
  <1>4. /\ \A j \in Cells : content'[j] = IF j = appObjectCallbacks[x][a] THEN f ELSE content[j]
        /\ \A b \in Apps : latest'[b] = IF b = a THEN f ELSE latest[b]
    BY <1>3 DEF RoutingInv, TypeOK
  <1> QED
    BY <1>1, <1>2, <1>4 DEF OnObject

(* A context that ends lets go of its shared callbacks. *)
LEMMA DeleteContextFacts ==
    ASSUME RoutingInv, NEW x \in Contexts, DeleteContext(x)
    PROVE  /\ \A y \in Contexts, b \in Apps : appObjectCallbacks'[y][b] =
                    IF y = x THEN NoCell ELSE appObjectCallbacks[y][b]
           /\ \A y \in Contexts : phase'[y] = IF y = x THEN "ended" ELSE phase[y]
           /\ UNCHANGED <<wrappers, content, latest, domainRouter>>
  BY DEF DeleteContext, RoutingInv, TypeOK

(* A callback that is there is in Cells. *)
LEMMA CellTypes ==
    ASSUME RoutingInv, NEW x \in Contexts, NEW a \in Apps
    PROVE  appObjectCallbacks[x][a] \in Cells \union {NoCell}
  <1>1. appObjectCallbacks[x] \in [Apps -> Cells \union {NoCell}]
    BY DEF RoutingInv, TypeOK
  <1> QED
    BY <1>1

LEMMA AppsStep == RoutingInv /\ [Next]_vars => AppsHoldCallbacks'
  <1> SUFFICES ASSUME RoutingInv, [Next]_vars PROVE AppsHoldCallbacks'
    OBVIOUS
  <1>1. ASSUME UNCHANGED <<appObjectCallbacks, content, latest>>,
               \A y \in Contexts : /\ wrappers'[y] \intersect Apps = wrappers[y] \intersect Apps
                                   /\ phase'[y] # "ended" => phase[y] # "ended"
        PROVE  AppsHoldCallbacks'
    <2>1. \A y \in Contexts, a \in Apps : a \in wrappers'[y] <=> a \in wrappers[y]
      BY <1>1
    <2>2. \A x \in Contexts, a \in Apps : appObjectCallbacks'[x][a] # NoCell =>
            /\ a \in wrappers'[x]
            /\ content'[appObjectCallbacks'[x][a]] = latest'[a]
      BY <1>1, <2>1 DEF RoutingInv, AppsHoldCallbacks
    <2>3. \A x \in Contexts : phase'[x] # "ended" =>
            \A a \in Apps \intersect wrappers'[x] : appObjectCallbacks'[x][a] # NoCell
      BY <1>1, <2>1 DEF RoutingInv, AppsHoldCallbacks
    <2>4. \A x, y \in Contexts, a, b \in Apps :
            appObjectCallbacks'[x][a] = appObjectCallbacks'[y][b]
                /\ appObjectCallbacks'[x][a] # NoCell => x = y /\ a = b
      BY <1>1 DEF RoutingInv, AppsHoldCallbacks
    <2>5. \A a \in Apps : (\A x \in Contexts : a \notin wrappers'[x]) => latest'[a] = NoCallback
      BY <1>1, <2>1 DEF RoutingInv, AppsHoldCallbacks
    <2> QED
      BY <2>2, <2>3, <2>4, <2>5 DEF AppsHoldCallbacks
  <1>2. CASE UNCHANGED vars
    BY <1>1, <1>2 DEF vars, callbacks
  <1>3. ASSUME NEW x \in Contexts,
               \/ \E a \in Apps : Route(x, a) \/ Unroute(x, a)
               \/ \E p \in Protocols :
                    NewProtocol(x, p) \/ Bind(x, p) \/ Unbind(x, p) \/ Request(x, p)
               \/ \E w \in WebApps : NewWebApp(x, w)
               \/ HandlerReturns(x) \/ FreeProtocols(x) \/ FreeApps(x)
        PROVE  AppsHoldCallbacks'
    BY <1>1, <1>3, QuietStep
  <1>4. ASSUME NEW x \in Contexts, NEW a \in Apps, NewApp(x, a) PROVE AppsHoldCallbacks'
    <2>1. PICK i \in Cells :
            /\ \A y \in Contexts, b \in Apps :
                /\ appObjectCallbacks[y][b] # i
                /\ appObjectCallbacks'[y][b] =
                        IF y = x /\ b = a THEN i ELSE appObjectCallbacks[y][b]
            /\ \A j \in Cells : content'[j] = IF j = i THEN NoCallback ELSE content[j]
            /\ latest[a] = NoCallback
            /\ UNCHANGED <<latest, phase>>
            /\ \A y \in Contexts : /\ a \notin wrappers[y]
                                   /\ wrappers'[y] = IF y = x THEN wrappers[y] \union {a}
                                                     ELSE wrappers[y]
      BY SMTT(30), <1>4, NewAppFacts
    <2>2. ASSUME NEW y \in Contexts, NEW b \in Apps, appObjectCallbacks'[y][b] # NoCell
          PROVE  b \in wrappers'[y] /\ content'[appObjectCallbacks'[y][b]] = latest'[b]
      <3>1. CASE y = x /\ b = a
        BY <2>1, <3>1
      <3>2. CASE ~(y = x /\ b = a)
        <4>1. /\ appObjectCallbacks'[y][b] = appObjectCallbacks[y][b]
              /\ appObjectCallbacks[y][b] \in Cells \ {i}
          BY <2>1, <2>2, <3>2, CellTypes
        <4>2. b \in wrappers[y] /\ content[appObjectCallbacks[y][b]] = latest[b]
          BY <2>2, <4>1 DEF RoutingInv, AppsHoldCallbacks
        <4> QED
          BY <2>1, <4>1, <4>2
      <3> QED
        BY <3>1, <3>2
    <2>3. ASSUME NEW y \in Contexts, phase'[y] # "ended", NEW b \in Apps \intersect wrappers'[y]
          PROVE  appObjectCallbacks'[y][b] # NoCell
      <3>1. CASE y = x /\ b = a
        BY <2>1, <3>1, NoneAssumption
      <3>2. CASE ~(y = x /\ b = a)
        <4>1. b \in Apps \intersect wrappers[y] /\ phase[y] # "ended"
          BY <2>1, <2>3, <3>2
        <4>2. appObjectCallbacks[y][b] # NoCell
          BY <4>1 DEF RoutingInv, AppsHoldCallbacks
        <4> QED
          BY <2>1, <3>2, <4>2
      <3> QED
        BY <3>1, <3>2
    <2>4. ASSUME NEW y \in Contexts, NEW z \in Contexts, NEW b \in Apps, NEW c \in Apps,
                 appObjectCallbacks'[y][b] = appObjectCallbacks'[z][c],
                 appObjectCallbacks'[y][b] # NoCell
          PROVE  y = z /\ b = c
      BY <2>1, <2>4 DEF RoutingInv, AppsHoldCallbacks
    <2>5. ASSUME NEW b \in Apps, \A y \in Contexts : b \notin wrappers'[y]
          PROVE  latest'[b] = NoCallback
      BY ZenonT(30), <2>1, <2>5 DEF RoutingInv, AppsHoldCallbacks
    <2> QED
      BY <2>2, <2>3, <2>4, <2>5 DEF AppsHoldCallbacks
  <1>5. ASSUME NEW x \in Contexts, NEW a \in Apps, OnObject(x, a) PROVE AppsHoldCallbacks'
    <2>1. PICK f \in Callbacks \union {NoCallback} :
            /\ \A j \in Cells : content'[j] =
                    IF j = appObjectCallbacks[x][a] THEN f ELSE content[j]
            /\ \A b \in Apps : latest'[b] = IF b = a THEN f ELSE latest[b]
      BY <1>5, OnObjectFacts
    <2>2. /\ a \in wrappers[x] /\ appObjectCallbacks[x][a] \in Cells
          /\ UNCHANGED <<phase, wrappers, appObjectCallbacks>>
      BY <1>5, OnObjectFacts
    <2>3. ASSUME NEW y \in Contexts, NEW b \in Apps, appObjectCallbacks[y][b] # NoCell
          PROVE  b \in wrappers[y] /\ content'[appObjectCallbacks[y][b]] = latest'[b]
      <3>1. b \in wrappers[y] /\ content[appObjectCallbacks[y][b]] = latest[b]
        BY <2>3 DEF RoutingInv, AppsHoldCallbacks
      <3>2. appObjectCallbacks[y][b] \in Cells
        BY <2>3, CellTypes
      <3>3. CASE b = a
        <4>1. y = x
          BY <2>2, <3>1, <3>3 DEF RoutingInv, Ownership
        <4> QED
          BY <2>1, <3>1, <3>2, <3>3, <4>1
      <3>4. CASE b # a
        <4>1. appObjectCallbacks[y][b] # appObjectCallbacks[x][a]
          BY <2>3, <3>4 DEF RoutingInv, AppsHoldCallbacks
        <4> QED
          BY <2>1, <3>1, <3>2, <3>4, <4>1
      <3> QED
        BY <3>3, <3>4
    <2>4. \A b \in Apps : (\A y \in Contexts : b \notin wrappers[y]) => latest'[b] = NoCallback
      BY <2>1, <2>2 DEF RoutingInv, AppsHoldCallbacks
    <2> QED
      BY <2>2, <2>3, <2>4 DEF RoutingInv, AppsHoldCallbacks
  <1>6. ASSUME NEW x \in Contexts, DeleteContext(x) PROVE AppsHoldCallbacks'
    <2>1. /\ \A y \in Contexts, b \in Apps : appObjectCallbacks'[y][b] =
                    IF y = x THEN NoCell ELSE appObjectCallbacks[y][b]
          /\ \A y \in Contexts : phase'[y] = IF y = x THEN "ended" ELSE phase[y]
          /\ UNCHANGED <<wrappers, content, latest>>
      BY <1>6, DeleteContextFacts
    <2>2. \A y \in Contexts, b \in Apps : appObjectCallbacks'[y][b] # NoCell =>
            b \in wrappers'[y] /\ content'[appObjectCallbacks'[y][b]] = latest'[b]
      BY <2>1 DEF RoutingInv, AppsHoldCallbacks
    <2>3. \A y \in Contexts : phase'[y] # "ended" =>
            \A b \in Apps \intersect wrappers'[y] : appObjectCallbacks'[y][b] # NoCell
      BY <2>1 DEF RoutingInv, AppsHoldCallbacks
    <2>4. \A y, z \in Contexts, b, c \in Apps :
            appObjectCallbacks'[y][b] = appObjectCallbacks'[z][c]
                /\ appObjectCallbacks'[y][b] # NoCell => y = z /\ b = c
      BY <2>1 DEF RoutingInv, AppsHoldCallbacks
    <2>5. \A b \in Apps : (\A y \in Contexts : b \notin wrappers'[y]) => latest'[b] = NoCallback
      BY <2>1 DEF RoutingInv, AppsHoldCallbacks
    <2> QED
      BY <2>2, <2>3, <2>4, <2>5 DEF AppsHoldCallbacks
  <1> QED
    BY <1>2, <1>3, <1>4, <1>5, <1>6 DEF Next
-------------------------------------------------------------------------------
(* The routes. *)

LEMMA RoutesStep == RoutingInv /\ [Next]_vars => RoutesHoldCallbacks'
  <1> SUFFICES ASSUME RoutingInv, [Next]_vars PROVE RoutesHoldCallbacks'
    OBVIOUS
  <1> DEFINE Holds(h) ==
        h.kind = "object" =>
            /\ h.app \in wrappers[h.ctx]
            /\ phase[h.ctx] # "ended" => h.cell = appObjectCallbacks[h.ctx][h.app]
            /\ \A x \in Contexts, a \in Apps :
                    appObjectCallbacks[x][a] = h.cell => x = h.ctx /\ a = h.app
  <1>1. \A d \in Patterns : domainRouter[d] \in Handlers /\ Holds(domainRouter[d])
    BY DEF RoutingInv, TypeOK, RoutesHoldCallbacks
  <1>2. ASSUME UNCHANGED appObjectCallbacks,
               \A y \in Contexts : /\ wrappers'[y] \intersect Apps = wrappers[y] \intersect Apps
                                   /\ phase'[y] # "ended" => phase[y] # "ended",
               \A d \in Patterns : \/ domainRouter'[d] = domainRouter[d]
                                   \/ domainRouter'[d].kind # "object"
        PROVE  RoutesHoldCallbacks'
    <2>1. SUFFICES ASSUME NEW d \in Patterns, domainRouter'[d].kind = "object"
                   PROVE  Holds(domainRouter[d])'
      BY DEF RoutesHoldCallbacks
    <2>2. domainRouter'[d] = domainRouter[d]
      BY <1>2, <2>1
    <2>3. domainRouter[d].ctx \in Contexts /\ domainRouter[d].app \in Apps
      BY <1>1, <2>1, <2>2, HandlerFields
    <2>4. Holds(domainRouter[d])
      BY <1>1
    <2> QED
      BY <1>2, <2>1, <2>2, <2>3, <2>4
  <1>3. CASE UNCHANGED vars
    BY <1>2, <1>3 DEF vars, callbacks
  <1>4. ASSUME NEW x \in Contexts,
               \/ \E a \in Apps : Unroute(x, a)
               \/ \E p \in Protocols :
                    NewProtocol(x, p) \/ Bind(x, p) \/ Unbind(x, p) \/ Request(x, p)
               \/ \E w \in WebApps : NewWebApp(x, w)
               \/ HandlerReturns(x) \/ FreeProtocols(x) \/ FreeApps(x)
        PROVE  RoutesHoldCallbacks'
    <2>1. \A d \in Patterns : \/ domainRouter'[d] = domainRouter[d]
                              \/ domainRouter'[d].kind # "object"
      <3>1. CASE \E a \in Apps : Unroute(x, a)
        <4>1. PICK d \in Patterns : domainRouter' = [domainRouter EXCEPT ![d] = NoHandler]
          BY <3>1 DEF Unroute
        <4>2. NoHandler.kind # "object"
          BY DEF NoHandler, Handler
        <4> QED
          BY <4>1, <4>2 DEF RoutingInv, TypeOK
      <3>2. CASE ~\E a \in Apps : Unroute(x, a)
        BY <1>4, <3>2 DEF NewProtocol, Bind, Unbind, Request, NewWebApp, Makes, HandlerReturns,
            FreeProtocols, FreeApps, Frees
      <3> QED
        BY <3>1, <3>2
    <2>2. /\ UNCHANGED appObjectCallbacks
          /\ \A y \in Contexts : /\ wrappers'[y] \intersect Apps = wrappers[y] \intersect Apps
                                 /\ phase'[y] # "ended" => phase[y] # "ended"
      BY <1>4, QuietStep
    <2> QED
      BY <1>2, <2>1, <2>2
  <1>5. ASSUME NEW x \in Contexts, NEW a \in Apps, OnObject(x, a) PROVE RoutesHoldCallbacks'
    BY <1>2, <1>5, OnObjectFacts
  <1>6. ASSUME NEW x \in Contexts, NEW a \in Apps, Route(x, a) PROVE RoutesHoldCallbacks'
    <2>1. PICK r \in Patterns,
               h \in {StaticBuffer(x, a), onRequest(x, a), onObject(x, a)}
                        \union {fromWebApp(x, a, w) : w \in wrappers[x] \intersect webAppsByPtr[x]} :
                domainRouter' = [domainRouter EXCEPT ![r] = h]
      BY <1>6 DEF Route
    <2>2. Calls(x, a) /\ a \in wrappers[x]
      BY <1>6 DEF Route, Calls
    <2>3. h.kind = "object" => h = onObject(x, a) /\ appObjectCallbacks[x][a] \in Cells
      BY <2>2, RouteMakesHandler DEF RoutingInv
    <2>4. Holds(h)
      <3>1. SUFFICES ASSUME h.kind = "object" PROVE Holds(h)
        OBVIOUS
      <3>2. /\ h.app = a /\ h.ctx = x /\ h.cell = appObjectCallbacks[x][a]
            /\ appObjectCallbacks[x][a] # NoCell
        BY <2>3, <3>1, NoneAssumption DEF onObject, Handler
      <3>3. \A y \in Contexts, b \in Apps :
                appObjectCallbacks[y][b] = appObjectCallbacks[x][a] => y = x /\ b = a
        BY <3>2 DEF RoutingInv, AppsHoldCallbacks
      <3> QED
        BY <2>2, <3>2, <3>3
    <2>5. /\ UNCHANGED <<appObjectCallbacks, wrappers, phase>>
          /\ \A d \in Patterns : domainRouter'[d] = IF d = r THEN h ELSE domainRouter[d]
      BY <1>6, <2>1 DEF Route, callbacks, RoutingInv, TypeOK
    <2>6. \A d \in Patterns : Holds(domainRouter[d])'
      BY <1>1, <2>4, <2>5
    <2> QED
      BY <2>6 DEF RoutesHoldCallbacks
  <1>7. ASSUME NEW x \in Contexts, NEW a \in Apps, NewApp(x, a) PROVE RoutesHoldCallbacks'
    <2>1. PICK i \in Cells :
            /\ \A y \in Contexts, b \in Apps :
                appObjectCallbacks'[y][b] = IF y = x /\ b = a THEN i ELSE appObjectCallbacks[y][b]
            /\ \A d \in Patterns : domainRouter[d].cell # i
            /\ UNCHANGED <<phase, domainRouter>>
            /\ \A y \in Contexts : /\ a \notin wrappers[y]
                                   /\ wrappers'[y] = IF y = x THEN wrappers[y] \union {a}
                                                     ELSE wrappers[y]
      BY <1>7, NewAppFacts
    <2>2. SUFFICES ASSUME NEW d \in Patterns, domainRouter[d].kind = "object"
                   PROVE  Holds(domainRouter[d])'
      BY <2>1 DEF RoutesHoldCallbacks
    <2>3. domainRouter[d].ctx \in Contexts /\ domainRouter[d].app \in Apps
      BY <1>1, <2>2, HandlerFields
    <2>4. /\ domainRouter[d].app \in wrappers[domainRouter[d].ctx]
          /\ phase[domainRouter[d].ctx] # "ended" => domainRouter[d].cell =
                appObjectCallbacks[domainRouter[d].ctx][domainRouter[d].app]
          /\ \A y \in Contexts, b \in Apps : appObjectCallbacks[y][b] = domainRouter[d].cell =>
                y = domainRouter[d].ctx /\ b = domainRouter[d].app
      BY <1>1, <2>2
    <2>5. domainRouter[d].app # a /\ domainRouter[d].cell # i
      BY <2>1, <2>3, <2>4
    <2>6. domainRouter'[d].app \in wrappers'[domainRouter'[d].ctx]
      BY <2>1, <2>3, <2>4
    <2>7. phase'[domainRouter'[d].ctx] # "ended" => domainRouter'[d].cell =
            appObjectCallbacks'[domainRouter'[d].ctx][domainRouter'[d].app]
      BY <2>1, <2>3, <2>4, <2>5
    <2>8. \A y \in Contexts, b \in Apps : appObjectCallbacks'[y][b] = domainRouter'[d].cell =>
            y = domainRouter'[d].ctx /\ b = domainRouter'[d].app
      BY <2>1, <2>4, <2>5
    <2> QED
      BY <2>6, <2>7, <2>8
  <1>8. ASSUME NEW x \in Contexts, DeleteContext(x) PROVE RoutesHoldCallbacks'
    <2>1. /\ \A y \in Contexts, b \in Apps : appObjectCallbacks'[y][b] =
                    IF y = x THEN NoCell ELSE appObjectCallbacks[y][b]
          /\ \A y \in Contexts : phase'[y] = IF y = x THEN "ended" ELSE phase[y]
          /\ UNCHANGED <<wrappers, domainRouter>>
      BY <1>8, DeleteContextFacts
    <2>2. SUFFICES ASSUME NEW d \in Patterns, domainRouter[d].kind = "object"
                   PROVE  Holds(domainRouter[d])'
      BY <2>1 DEF RoutesHoldCallbacks
    <2>3. /\ domainRouter[d].ctx \in Contexts /\ domainRouter[d].app \in Apps
          /\ domainRouter[d].cell # NoCell
      BY <1>1, <2>2, HandlerFields, NoneAssumption
    <2>4. Holds(domainRouter[d])
      BY <1>1
    <2> QED
      BY <2>1, <2>2, <2>3, <2>4
  <1> QED
    BY <1>3, <1>4, <1>5, <1>6, <1>7, <1>8 DEF Next

LEMMA LatestStep == RoutingInv /\ [Next]_vars => RoutesSeeTheLatestCallback'
  <1> SUFFICES ASSUME RoutingInv, [Next]_vars PROVE RoutesSeeTheLatestCallback'
    OBVIOUS
  <1>1. \A d \in Patterns : /\ domainRouter[d] \in Handlers
                            /\ domainRouter[d].kind = "object" =>
                                  content[domainRouter[d].cell] = latest[domainRouter[d].app]
    BY DEF RoutingInv, TypeOK, RoutesSeeTheLatestCallback
  <1>2. ASSUME UNCHANGED <<content, latest>>,
               \A d \in Patterns : \/ domainRouter'[d] = domainRouter[d]
                                   \/ domainRouter'[d].kind # "object"
        PROVE  RoutesSeeTheLatestCallback'
    BY <1>1, <1>2 DEF RoutesSeeTheLatestCallback
  <1>3. CASE UNCHANGED vars
    BY <1>2, <1>3 DEF vars, callbacks
  <1>4. ASSUME NEW x \in Contexts,
               \/ \E p \in Protocols :
                    NewProtocol(x, p) \/ Bind(x, p) \/ Unbind(x, p) \/ Request(x, p)
               \/ \E w \in WebApps : NewWebApp(x, w)
               \/ HandlerReturns(x) \/ FreeProtocols(x) \/ FreeApps(x) \/ DeleteContext(x)
        PROVE  RoutesSeeTheLatestCallback'
    <2>1. UNCHANGED <<content, latest, domainRouter>>
      BY <1>4 DEF NewProtocol, Bind, Unbind, Request, NewWebApp, Makes, HandlerReturns,
            FreeProtocols, FreeApps, Frees, DeleteContext, callbacks
    <2> QED
      BY <1>2, <2>1
  <1>5. ASSUME NEW x \in Contexts, NEW a \in Apps, Unroute(x, a)
        PROVE  RoutesSeeTheLatestCallback'
    <2>1. PICK d \in Patterns : domainRouter' = [domainRouter EXCEPT ![d] = NoHandler]
      BY <1>5 DEF Unroute
    <2>2. NoHandler.kind # "object"
      BY DEF NoHandler, Handler
    <2>3. \A e \in Patterns : \/ domainRouter'[e] = domainRouter[e]
                              \/ domainRouter'[e].kind # "object"
      BY <2>1, <2>2 DEF RoutingInv, TypeOK
    <2> QED
      BY <1>2, <1>5, <2>3 DEF Unroute, callbacks
  <1>6. ASSUME NEW x \in Contexts, NEW a \in Apps, Route(x, a)
        PROVE  RoutesSeeTheLatestCallback'
    <2>1. PICK r \in Patterns,
               h \in {StaticBuffer(x, a), onRequest(x, a), onObject(x, a)}
                        \union {fromWebApp(x, a, w) : w \in wrappers[x] \intersect webAppsByPtr[x]} :
                domainRouter' = [domainRouter EXCEPT ![r] = h]
      BY <1>6 DEF Route
    <2>2. h.kind = "object" => h = onObject(x, a) /\ appObjectCallbacks[x][a] \in Cells
      BY <1>6, RouteMakesHandler DEF RoutingInv, Route
    <2>3. h.kind = "object" => content[h.cell] = latest[h.app]
      <3>1. SUFFICES ASSUME h.kind = "object" PROVE content[h.cell] = latest[h.app]
        OBVIOUS
      <3>2. /\ h.app = a /\ h.cell = appObjectCallbacks[x][a]
            /\ appObjectCallbacks[x][a] # NoCell
        BY <2>2, <3>1, NoneAssumption DEF onObject, Handler
      <3> QED
        BY <3>2 DEF RoutingInv, AppsHoldCallbacks
    <2>4. /\ UNCHANGED <<content, latest>>
          /\ \A d \in Patterns : domainRouter'[d] = IF d = r THEN h ELSE domainRouter[d]
      BY <1>6, <2>1 DEF Route, callbacks, RoutingInv, TypeOK
    <2> QED
      BY <1>1, <2>3, <2>4 DEF RoutesSeeTheLatestCallback
  <1>7. ASSUME NEW x \in Contexts, NEW a \in Apps, NewApp(x, a)
        PROVE  RoutesSeeTheLatestCallback'
    <2>1. PICK i \in Cells :
            /\ \A d \in Patterns : domainRouter[d].cell # i
            /\ \A j \in Cells : content'[j] = IF j = i THEN NoCallback ELSE content[j]
            /\ UNCHANGED <<latest, domainRouter>>
      BY <1>7, NewAppFacts
    <2>2. \A d \in Patterns : domainRouter[d].kind = "object" => domainRouter[d].cell \in Cells
      BY <1>1, HandlerFields
    <2> QED
      BY <1>1, <2>1, <2>2 DEF RoutesSeeTheLatestCallback
  <1>8. ASSUME NEW x \in Contexts, NEW a \in Apps, OnObject(x, a)
        PROVE  RoutesSeeTheLatestCallback'
    <2>1. PICK f \in Callbacks \union {NoCallback} :
            /\ \A j \in Cells : content'[j] =
                    IF j = appObjectCallbacks[x][a] THEN f ELSE content[j]
            /\ \A b \in Apps : latest'[b] = IF b = a THEN f ELSE latest[b]
      BY <1>8, OnObjectFacts
    <2>2. /\ phase[x] = "running" /\ a \in wrappers[x]
          /\ UNCHANGED domainRouter
      BY <1>8, OnObjectFacts
    <2>3. SUFFICES ASSUME NEW d \in Patterns, domainRouter[d].kind = "object"
                   PROVE  content'[domainRouter[d].cell] = latest'[domainRouter[d].app]
      BY <2>2 DEF RoutesSeeTheLatestCallback
    <2>4. /\ domainRouter[d].ctx \in Contexts /\ domainRouter[d].app \in Apps
          /\ domainRouter[d].cell \in Cells
      BY <1>1, <2>3, HandlerFields
    <2>5. content[domainRouter[d].cell] = latest[domainRouter[d].app]
      BY <1>1, <2>3
    <2>6. /\ domainRouter[d].app \in wrappers[domainRouter[d].ctx]
          /\ phase[domainRouter[d].ctx] # "ended" => domainRouter[d].cell =
                appObjectCallbacks[domainRouter[d].ctx][domainRouter[d].app]
          /\ appObjectCallbacks[x][a] = domainRouter[d].cell => a = domainRouter[d].app
      BY <2>3 DEF RoutingInv, RoutesHoldCallbacks
    <2>7. CASE domainRouter[d].app = a
      <3>1. domainRouter[d].ctx = x
        BY <2>2, <2>4, <2>6, <2>7 DEF RoutingInv, Ownership
      <3>2. domainRouter[d].cell = appObjectCallbacks[x][a]
        BY <2>2, <2>6, <2>7, <3>1
      <3> QED
        BY <2>1, <2>4, <2>7, <3>2
    <2>8. CASE domainRouter[d].app # a
      BY <2>1, <2>4, <2>5, <2>6, <2>8
    <2> QED
      BY <2>7, <2>8
  <1> QED
    BY <1>3, <1>4, <1>5, <1>6, <1>7, <1>8 DEF Next

-------------------------------------------------------------------------------
(* The WebApps. *)

(* No context lets go of a WebApp before it ends. *)
LEMMA WebAppsKept ==
    ASSUME RoutingInv, [Next]_vars, NEW y \in Contexts
    PROVE  /\ phase[y] # "ended" =>
                phase'[y] = "ended" \/ webAppsByPtr[y] \subseteq webAppsByPtr'[y]
           /\ phase[y] = "ended" => phase'[y] = "ended"
  <1> USE DEF owned
  <1>1. CASE UNCHANGED vars
    BY <1>1 DEF vars
  <1>2. ASSUME NEW x \in Contexts,
               \/ \E a \in Apps : Route(x, a) \/ Unroute(x, a) \/ OnObject(x, a)
               \/ \E p \in Protocols : Bind(x, p) \/ Unbind(x, p) \/ Request(x, p)
               \/ HandlerReturns(x)
        PROVE  UNCHANGED <<phase, webAppsByPtr>>
    BY <1>2, CallsOwnNothing
  <1>3. ASSUME NEW x \in Contexts,
               (\E a \in Apps : NewApp(x, a)) \/ (\E p \in Protocols : NewProtocol(x, p))
        PROVE  UNCHANGED <<phase, webAppsByPtr>>
    BY <1>3 DEF NewApp, NewProtocol, Makes
  <1>4. ASSUME NEW x \in Contexts, NEW w \in WebApps, NewWebApp(x, w)
        PROVE  UNCHANGED phase /\ webAppsByPtr[y] \subseteq webAppsByPtr'[y]
    BY <1>4 DEF NewWebApp, Makes, RoutingInv, TypeOK
  <1>5. ASSUME NEW x \in Contexts, FreeProtocols(x) \/ FreeApps(x)
        PROVE  /\ UNCHANGED webAppsByPtr
               /\ phase'[y] = phase[y] \/ phase[y] # "ended"
    <2>1. CASE FreeProtocols(x)
      BY <2>1 DEF FreeProtocols, RoutingInv, TypeOK
    <2>2. CASE FreeApps(x)
      BY <2>2 DEF FreeApps, Frees, RoutingInv, TypeOK
    <2> QED
      BY <1>5, <2>1, <2>2
  <1>6. ASSUME NEW x \in Contexts, DeleteContext(x)
        PROVE  /\ y # x => phase'[y] = phase[y] /\ webAppsByPtr'[y] = webAppsByPtr[y]
               /\ y = x => phase'[y] = "ended"
    BY <1>6 DEF DeleteContext, RoutingInv, TypeOK
  <1>7. CASE \E x \in Contexts :
                \/ \E a \in Apps : NewApp(x, a) \/ Route(x, a) \/ Unroute(x, a) \/ OnObject(x, a)
                \/ \E p \in Protocols :
                        NewProtocol(x, p) \/ Bind(x, p) \/ Unbind(x, p) \/ Request(x, p)
                \/ HandlerReturns(x)
    BY <1>2, <1>3, <1>7
  <1>8. CASE \E x \in Contexts : \/ \E w \in WebApps : NewWebApp(x, w)
                               \/ FreeProtocols(x) \/ FreeApps(x)
    BY <1>4, <1>5, <1>8
  <1>9. CASE \E x \in Contexts : DeleteContext(x)
    BY <1>6, <1>9
  <1> QED
    BY <1>1, <1>7, <1>8, <1>9 DEF Next

LEMMA RoutesKeepStep == RoutingInv /\ [Next]_vars => RoutesKeepWebApps'
  <1> SUFFICES ASSUME RoutingInv, [Next]_vars,
                      NEW d \in Patterns, domainRouter'[d].kind = "webApp"
               PROVE  \/ phase'[domainRouter'[d].ctx] = "ended"
                      \/ domainRouter'[d].webApp \in webAppsByPtr'[domainRouter'[d].ctx]
    BY DEF RoutesKeepWebApps
  <1>1. CASE domainRouter'[d] = domainRouter[d]
    <2>1. domainRouter[d].ctx \in Contexts
      <3>1. domainRouter[d] \in Handlers /\ domainRouter[d].kind = "webApp"
        BY <1>1 DEF RoutingInv, TypeOK
      <3> QED
        BY <3>1, HandlerFields
    <2>2. \/ phase[domainRouter[d].ctx] = "ended"
          \/ domainRouter[d].webApp \in webAppsByPtr[domainRouter[d].ctx]
      BY <1>1 DEF RoutingInv, RoutesKeepWebApps
    <2> QED
      BY <1>1, <2>1, <2>2, WebAppsKept
  <1>2. ASSUME NEW x \in Contexts, NEW a \in Apps, Route(x, a),
               domainRouter'[d] # domainRouter[d]
        PROVE  domainRouter'[d].webApp \in webAppsByPtr'[domainRouter'[d].ctx]
    <2>1. PICK r \in Patterns,
               h \in {StaticBuffer(x, a), onRequest(x, a), onObject(x, a)}
                        \union {fromWebApp(x, a, w) : w \in wrappers[x] \intersect webAppsByPtr[x]} :
                domainRouter' = [domainRouter EXCEPT ![r] = h]
      BY <1>2 DEF Route
    <2>2. domainRouter'[d] = h
      BY <1>2, <2>1 DEF RoutingInv, TypeOK
    <2>3. h.kind = "webApp" => h.ctx = x /\ h.webApp \in webAppsByPtr[x]
      BY <1>2, RouteMakesHandler DEF RoutingInv, Route
    <2> QED
      BY <1>2, <2>2, <2>3 DEF Route, owned
  <1>3. ASSUME NEW x \in Contexts, NEW a \in Apps, Unroute(x, a)
        PROVE  domainRouter'[d] = domainRouter[d]
    <2>1. PICK r \in Patterns : domainRouter' = [domainRouter EXCEPT ![r] = NoHandler]
      BY <1>3 DEF Unroute
    <2>2. NoHandler.kind # "webApp"
      BY DEF NoHandler, Handler
    <2> QED
      BY <2>1, <2>2 DEF RoutingInv, TypeOK
  <1>4. CASE \/ UNCHANGED vars
             \/ \E x \in Contexts :
                    \/ \E a \in Apps : NewApp(x, a) \/ OnObject(x, a)
                    \/ \E p \in Protocols :
                            NewProtocol(x, p) \/ Bind(x, p) \/ Unbind(x, p) \/ Request(x, p)
                    \/ \E w \in WebApps : NewWebApp(x, w)
                    \/ HandlerReturns(x) \/ FreeProtocols(x) \/ FreeApps(x) \/ DeleteContext(x)
    <2>1. UNCHANGED domainRouter
      BY <1>4 DEF vars, NewApp, OnObject, NewProtocol, Bind, Unbind, Request, NewWebApp, Makes,
          HandlerReturns, FreeProtocols, FreeApps, Frees, DeleteContext
    <2> QED
      BY <1>1, <2>1
  <1> QED
    BY <1>1, <1>2, <1>3, <1>4 DEF Next

LEMMA AtHomeStep == RoutingInv /\ [Next]_vars => HandlersRunAtHome'
  <1> SUFFICES ASSUME RoutingInv, [Next]_vars, Apart,
                      NEW y \in Contexts, running'[y] # NoHandler
               PROVE  /\ phase'[y] = "running"
                      /\ running'[y].kind = "webApp" => running'[y].webApp \in webAppsByPtr'[y]
    BY DEF HandlersRunAtHome
  <1> USE DEF owned
  <1>1. ASSUME running'[y] = running[y], phase'[y] = phase[y],
               webAppsByPtr[y] \subseteq webAppsByPtr'[y]
        PROVE  /\ phase'[y] = "running"
               /\ running'[y].kind = "webApp" => running'[y].webApp \in webAppsByPtr'[y]
    BY <1>1 DEF RoutingInv, HandlersRunAtHome
  <1>2. CASE UNCHANGED vars
    BY <1>1, <1>2 DEF vars
  <1>3. ASSUME NEW x \in Contexts,
               \/ \E a \in Apps : NewApp(x, a) \/ Route(x, a) \/ Unroute(x, a) \/ OnObject(x, a)
               \/ \E p \in Protocols : NewProtocol(x, p) \/ Bind(x, p) \/ Unbind(x, p)
        PROVE  UNCHANGED <<running, phase, webAppsByPtr>>
    BY <1>3 DEF NewApp, Route, Unroute, OnObject, NewProtocol, Bind, Unbind, Makes
  <1>4. ASSUME NEW x \in Contexts, NEW w \in WebApps, NewWebApp(x, w)
        PROVE  UNCHANGED <<running, phase>> /\ webAppsByPtr[y] \subseteq webAppsByPtr'[y]
    BY <1>4 DEF NewWebApp, Makes, RoutingInv, TypeOK
  <1>5. ASSUME NEW x \in Contexts, FreeProtocols(x) \/ FreeApps(x) \/ DeleteContext(x)
        PROVE  /\ running' = running /\ y # x
               /\ phase'[y] = phase[y] /\ webAppsByPtr'[y] = webAppsByPtr[y]
    <2>1. running' = running
      BY <1>5 DEF FreeProtocols, FreeApps, Frees, DeleteContext
    <2>2. phase[y] = "running" /\ running[y] # NoHandler
      BY <2>1 DEF RoutingInv, HandlersRunAtHome
    <2>3. y # x
      BY <1>5, <2>2 DEF FreeProtocols, FreeApps, DeleteContext
    <2>4. CASE FreeProtocols(x)
      BY <2>1, <2>3, <2>4 DEF FreeProtocols, RoutingInv, TypeOK
    <2>5. CASE FreeApps(x)
      BY <2>1, <2>3, <2>5 DEF FreeApps, Frees, RoutingInv, TypeOK
    <2>6. CASE DeleteContext(x)
      BY <2>1, <2>3, <2>6 DEF DeleteContext, RoutingInv, TypeOK
    <2> QED
      BY <1>5, <2>4, <2>5, <2>6
  <1>6. ASSUME NEW x \in Contexts, HandlerReturns(x)
        PROVE  running'[y] = running[y] /\ UNCHANGED <<phase, webAppsByPtr>>
    BY <1>6 DEF HandlerReturns, RoutingInv, TypeOK
  <1>7. ASSUME NEW x \in Contexts, NEW p \in Protocols, Request(x, p)
        PROVE  /\ phase'[y] = "running"
               /\ running'[y].kind = "webApp" => running'[y].webApp \in webAppsByPtr'[y]
    <2>1. PICK d \in Patterns : /\ domainRouter[d].ctx = x
                               /\ running' = [running EXCEPT ![x] = domainRouter[d]]
      BY <1>7 DEF Request
    <2>2. phase[x] = "running" /\ UNCHANGED <<phase, webAppsByPtr>>
      BY <1>7 DEF Request
    <2>3. CASE y = x
      <3>1. running'[y] = domainRouter[d]
        BY <2>1, <2>3 DEF RoutingInv, TypeOK
      <3>2. domainRouter[d].kind = "webApp" => domainRouter[d].webApp \in webAppsByPtr[x]
        BY <2>1, <2>2 DEF RoutingInv, RoutesKeepWebApps
      <3> QED
        BY <2>2, <2>3, <3>1, <3>2
    <2>4. CASE y # x
      <3>1. running'[y] = running[y]
        BY <2>1, <2>4 DEF RoutingInv, TypeOK
      <3> QED
        BY <1>1, <2>2, <3>1
    <2> QED
      BY <2>3, <2>4
  <1> QED
    BY <1>1, <1>2, <1>3, <1>4, <1>5, <1>6, <1>7 DEF Next

LEMMA NativesFromInvariant == RoutingInv => (Apart => NativesInUseAreAlive)
  <1> SUFFICES ASSUME RoutingInv, Apart, NEW x \in Contexts
               PROVE  /\ phase[x] = "running" => \A n \in wrappers[x] :
                            n \in apps[x] \/ n \in protocols[x] \/ WebAppAlive(n)
                      /\ running[x].kind = "webApp" => WebAppAlive(running[x].webApp)
    BY DEF NativesInUseAreAlive
  <1>1. \A w \in webAppsByPtr[x] : WebAppAlive(w)
    BY DEF WebAppAlive
  <1>2. ASSUME phase[x] = "running", NEW n \in wrappers[x]
        PROVE  n \in apps[x] \/ n \in protocols[x] \/ WebAppAlive(n)
    <2>1. n \in Apps \union Protocols \union WebApps
      BY DEF RoutingInv, TypeOK
    <2>2. n \in apps[x] \/ n \in protocols[x] \/ n \in webAppsByPtr[x]
      BY <1>2, <2>1 DEF RoutingInv, Ownership
    <2> QED
      BY <1>1, <2>2
  <1>3. running[x].kind = "webApp" => running[x].webApp \in webAppsByPtr[x]
    BY DEF RoutingInv, HandlersRunAtHome, NoHandler, Handler
  <1> QED
    BY <1>1, <1>2, <1>3

-------------------------------------------------------------------------------
(* The theorems. *)

LEMMA RoutingInit == Init => RoutingInv
  <1> SUFFICES ASSUME Init PROVE RoutingInv
    OBVIOUS
  <1>1. NoHandler \in Handlers /\ NoHandler.kind \notin {"object", "webApp"}
    BY DEF Handlers, NoHandler, Handler
  <1>2. TypeOK
    BY <1>1 DEF Init, TypeOK
  <1>3. Ownership /\ BoundAppIsAlive
    BY DEF Init, Ownership, BoundAppIsAlive
  <1>4. AppsHoldCallbacks
    BY DEF Init, AppsHoldCallbacks
  <1>5. RoutesHoldCallbacks /\ RoutesSeeTheLatestCallback
    BY <1>1 DEF Init, RoutesHoldCallbacks, RoutesSeeTheLatestCallback
  <1>6. RoutesKeepWebApps /\ HandlersRunAtHome
    BY <1>1 DEF Init, RoutesKeepWebApps, HandlersRunAtHome
  <1> QED
    BY <1>2, <1>3, <1>4, <1>5, <1>6 DEF RoutingInv

LEMMA RoutingInvariant == Spec => []RoutingInv
  <1>1. RoutingInv /\ [Next]_vars => RoutingInv'
    BY TypeStep, OwnershipStep, BoundStep, AppsStep, RoutesStep, LatestStep, RoutesKeepStep,
       AtHomeStep DEF RoutingInv
  <1> QED
    BY <1>1, RoutingInit, PTL DEF Spec

(* Every variable keeps its type.  An object route always has a callback to look *)
(* at: the callback of an App is made with the App and lives as long as the       *)
(* context or a route that captured it (uWS_App_constructor, uWS_App_route).      *)
THEOREM RoutingTypeCorrect == Spec => []TypeOK
  BY RoutingInvariant, PTL DEF RoutingInv

(* A protocol is bound to an App its own context owns and has not freed, through  *)
(* every bind, unbind and cleanup (uWS_Proto_bind, the hook of Main).             *)
THEOREM BoundSafety == Spec => []BoundAppIsAlive
  BY RoutingInvariant, PTL DEF RoutingInv

(* An object route calls what onObject was last given on its App, whatever other  *)
(* contexts register, replace or leave behind (uWS_App_onObject, uWS_App_route).  *)
THEOREM CallbackSafety == Spec => []RoutesSeeTheLatestCallback
  BY RoutingInvariant, PTL DEF RoutingInv

(* If each context is sent requests for its own domains, what JavaScript of a     *)
(* running context points to is alive, and so is a WebApp whose hook runs, its     *)
(* route replaced or removed meanwhile or not (webAppsByPtr, uWS_App_unroute).     *)
THEOREM NativeSafety == Spec => [](Apart => NativesInUseAreAlive)
  BY RoutingInvariant, NativesFromInvariant, PTL
===============================================================================
