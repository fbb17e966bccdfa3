-------------------------------- MODULE Routing --------------------------------
(***************************************************************************)
(* Apps, their routes, WebApps and protocols (AppWrapper.h), and the clean *)
(* up of a context (addon.cpp).                                            *)
(*                                                                         *)
(* A context is a Node.js thread with its own isolate.  Each keeps its     *)
(* apps, protocols and WebApps in PerContextData, but the domain router is *)
(* one global variable: every App of every context routes through it, and  *)
(* a handler in it points back at the context that registered it.          *)
(***************************************************************************)
CONSTANTS
    Contexts,   \* threads that load the addon
    Apps,       \* addresses of Apps, each used once
    Protocols,  \* addresses of protocols, each used once
    WebApps,    \* addresses of WebApps, each used once
    Cells,      \* addresses of shared object callbacks
    Patterns,   \* domain patterns
    Callbacks,  \* functions JavaScript gives to onObject
    NoContext, NoApp, NoWebApp, NoCell, NoCallback,
    Apart       \* each context is sent requests for its own domains only

ASSUME NoneAssumption ==
    /\ NoContext \notin Contexts
    /\ NoApp \notin Apps
    /\ NoWebApp \notin WebApps
    /\ NoCell \notin Cells
ASSUME KindsAssumption ==
    /\ Apps \intersect Protocols = {}
    /\ Apps \intersect WebApps = {}
    /\ Protocols \intersect WebApps = {}
ASSUME ApartAssumption == Apart \in BOOLEAN

VARIABLES
    phase,               \* how far each context has come
    wrappers,            \* the natives JavaScript objects of each context point to
    apps,                \* the Apps each context owns
    protocols,           \* the protocols each context owns
    webAppsByPtr,        \* the WebApps each context keeps alive
    bound,               \* the App each protocol is bound to
    appObjectCallbacks,  \* the shared object callback each context has for an App
    content,             \* the function each shared object callback holds
    latest,              \* what onObject was last given on each App (history)
    domainRouter,        \* the handler of each pattern
    running              \* the handler that runs in each context

owned     == <<apps, protocols, webAppsByPtr>>
callbacks == <<appObjectCallbacks, content, latest>>
vars      == <<phase, wrappers, owned, bound, callbacks, domainRouter, running>>

(* A handler captures the context that registered it and the App's shared      *)
(* callback or a WebApp.  The App is no part of it, but for the properties.     *)
Handler(kind, x, a, i, w) == [kind |-> kind, ctx |-> x, app |-> a, cell |-> i, webApp |-> w]

NoHandler           == Handler("none", NoContext, NoApp, NoCell, NoWebApp)
StaticBuffer(x, a)  == Handler("static", x, a, NoCell, NoWebApp)
onRequest(x, a)     == Handler("function", x, a, NoCell, NoWebApp)
onObject(x, a)      == Handler("object", x, a, appObjectCallbacks[x][a], NoWebApp)
fromWebApp(x, a, w) == Handler("webApp", x, a, NoCell, w)

Handlers ==
    {NoHandler}
        \union [kind : {"static", "function"}, ctx : Contexts, app : Apps,
                cell : {NoCell}, webApp : {NoWebApp}]
        \union [kind : {"object"}, ctx : Contexts, app : Apps,
                cell : Cells, webApp : {NoWebApp}]
        \union [kind : {"webApp"}, ctx : Contexts, app : Apps,
                cell : {NoCell}, webApp : WebApps]

\* Every variable has its type: an object route has a callback to look at.
TypeOK ==
    /\ phase \in [Contexts -> {"running", "protocols freed", "apps freed", "ended"}]
    /\ wrappers \in [Contexts -> SUBSET (Apps \union Protocols \union WebApps)]
    /\ apps \in [Contexts -> SUBSET Apps]
    /\ protocols \in [Contexts -> SUBSET Protocols]
    /\ webAppsByPtr \in [Contexts -> SUBSET WebApps]
    /\ bound \in [Protocols -> Apps \union {NoApp}]
    /\ appObjectCallbacks \in [Contexts -> [Apps -> Cells \union {NoCell}]]
    /\ content \in [Cells -> Callbacks \union {NoCallback}]
    /\ latest \in [Apps -> Callbacks \union {NoCallback}]
    /\ domainRouter \in [Patterns -> Handlers]
    /\ running \in [Contexts -> Handlers]

Init ==
    /\ phase              = [x \in Contexts |-> "running"]
    /\ wrappers           = [x \in Contexts |-> {}]
    /\ apps               = [x \in Contexts |-> {}]
    /\ protocols          = [x \in Contexts |-> {}]
    /\ webAppsByPtr       = [x \in Contexts |-> {}]
    /\ bound              = [p \in Protocols |-> NoApp]
    /\ appObjectCallbacks = [x \in Contexts |-> [a \in Apps |-> NoCell]]
    /\ content            = [i \in Cells |-> NoCallback]
    /\ latest             = [a \in Apps |-> NoCallback]
    /\ domainRouter       = [d \in Patterns |-> NoHandler]
    /\ running            = [x \in Contexts |-> NoHandler]

(* Shared pointers: what none refers to any more is freed. *)
CellAlive(i) ==
    \/ \E x \in Contexts, a \in Apps : appObjectCallbacks[x][a] = i
    \/ \E d \in Patterns : domainRouter[d].cell = i

WebAppAlive(w) ==
    \/ \E x \in Contexts : w \in webAppsByPtr[x]
    \/ \E d \in Patterns : domainRouter[d].webApp = w

-------------------------------------------------------------------------------
(* Calls of JavaScript in context x, through the wrapper of a native. *)

(* JavaScript runs in x and calls a method of native n. *)
Calls(x, n) == phase[x] = "running" /\ n \in wrappers[x]

(* JavaScript runs in x and makes native n, at an address not used before. *)
Makes(x, n) ==
    /\ phase[x] = "running"
    /\ \A y \in Contexts : n \notin wrappers[y]
    /\ wrappers' = [wrappers EXCEPT ![x] = @ \union {n}]
    /\ UNCHANGED <<phase, bound, latest, domainRouter, running>>

(* A definition whose name ends in an underscore and a word is a mistake. *)
NewApp_withoutCallback(x, a) ==
    /\ Makes(x, a)
    /\ apps' = [apps EXCEPT ![x] = @ \union {a}]
    /\ UNCHANGED <<protocols, webAppsByPtr, appObjectCallbacks, content>>

NewApp(x, a) ==
    /\ Makes(x, a)
    /\ apps' = [apps EXCEPT ![x] = @ \union {a}]
    /\ \E i \in Cells :
        /\ ~CellAlive(i)
        /\ appObjectCallbacks' = [appObjectCallbacks EXCEPT ![x][a] = i]
        /\ content' = [content EXCEPT ![i] = NoCallback]
    /\ UNCHANGED <<protocols, webAppsByPtr>>

NewProtocol(x, p) ==
    /\ Makes(x, p)
    /\ protocols' = [protocols EXCEPT ![x] = @ \union {p}]
    /\ UNCHANGED <<apps, webAppsByPtr, appObjectCallbacks, content>>

(* The wrapper of a WebApp and its hooks keep raw pointers to it. *)
NewWebApp(x, w) ==
    /\ Makes(x, w)
    /\ webAppsByPtr' = [webAppsByPtr EXCEPT ![x] = @ \union {w}]
    /\ UNCHANGED <<apps, protocols, appObjectCallbacks, content>>

(* app.route replaces the handler of a pattern, even while it runs. *)
Route(x, a) ==
    /\ Calls(x, a)
    /\ \E d \in Patterns :
       \E h \in {StaticBuffer(x, a), onRequest(x, a), onObject(x, a)}
                    \union {fromWebApp(x, a, w) : w \in wrappers[x] \intersect webAppsByPtr[x]} :
            domainRouter' = [domainRouter EXCEPT ![d] = h]
    /\ UNCHANGED <<phase, wrappers, owned, bound, callbacks, running>>

Unroute_dropsWebApp(x, a) ==
    /\ Calls(x, a)
    /\ \E d \in Patterns :
        /\ domainRouter' = [domainRouter EXCEPT ![d] = NoHandler]
        /\ webAppsByPtr' = [webAppsByPtr EXCEPT ![x] = @ \ {domainRouter[d].webApp}]
    /\ UNCHANGED <<phase, wrappers, apps, protocols, bound, callbacks, running>>

(* Of whichever App, in whichever context, the route was. *)
Unroute(x, a) ==
    /\ Calls(x, a)
    /\ \E d \in Patterns : domainRouter' = [domainRouter EXCEPT ![d] = NoHandler]
    /\ UNCHANGED <<phase, wrappers, owned, bound, callbacks, running>>

OnObject_newCell(x, a) ==
    /\ Calls(x, a)
    /\ \E f \in Callbacks \union {NoCallback}, i \in Cells :
        /\ ~CellAlive(i)
        /\ appObjectCallbacks' = [appObjectCallbacks EXCEPT ![x][a] = i]
        /\ content' = [content EXCEPT ![i] = f]
        /\ latest' = [latest EXCEPT ![a] = f]
    /\ UNCHANGED <<phase, wrappers, owned, bound, domainRouter, running>>

(* app.onObject changes what the shared callback holds, or empties it. *)
OnObject(x, a) ==
    /\ Calls(x, a)
    /\ \E f \in Callbacks \union {NoCallback} :
        /\ content' = [content EXCEPT ![appObjectCallbacks[x][a]] = f]
        /\ latest' = [latest EXCEPT ![a] = f]
    /\ UNCHANGED <<phase, wrappers, owned, bound, appObjectCallbacks, domainRouter, running>>

(* The argument is taken to be an App of the context: the code takes what the  *)
(* first internal field of any object points to.                               *)
Bind(x, p) ==
    /\ Calls(x, p)
    /\ \E a \in Apps \intersect wrappers[x] : bound' = [bound EXCEPT ![p] = a]
    /\ UNCHANGED <<phase, wrappers, owned, callbacks, domainRouter, running>>

Unbind(x, p) ==
    /\ Calls(x, p)
    /\ bound' = [bound EXCEPT ![p] = NoApp]
    /\ UNCHANGED <<phase, wrappers, owned, callbacks, domainRouter, running>>

-------------------------------------------------------------------------------
(* Requests, and the cleanup hook. *)

(* A request comes in on a bound protocol and calls JavaScript: a function      *)
(* route; an object route, if its shared callback is not empty; or the hook of  *)
(* a WebApp.  A static buffer and an empty callback answer without JavaScript.  *)
Request(x, p) ==
    /\ phase[x] = "running"
    /\ running[x] = NoHandler
    /\ p \in protocols[x] /\ bound[p] # NoApp
    /\ \E d \in Patterns :
        LET h == domainRouter[d] IN
        /\ \/ h.kind \in {"function", "webApp"}
           \/ h.kind = "object" /\ content[h.cell] # NoCallback
        /\ Apart => h.ctx = x
        /\ running' = [running EXCEPT ![x] = h]
    /\ UNCHANGED <<phase, wrappers, owned, bound, callbacks, domainRouter>>

HandlerReturns(x) ==
    /\ running[x] # NoHandler
    /\ running' = [running EXCEPT ![x] = NoHandler]
    /\ UNCHANGED <<phase, wrappers, owned, bound, callbacks, domainRouter>>

(* A protocol that is freed detaches from its App.  From here on no JavaScript  *)
(* of the context runs.                                                         *)
FreeProtocols(x) ==
    /\ phase[x] = "running"
    /\ running[x] = NoHandler
    /\ phase' = [phase EXCEPT ![x] = "protocols freed"]
    /\ bound' = [p \in Protocols |-> IF p \in protocols[x] THEN NoApp ELSE bound[p]]
    /\ protocols' = [protocols EXCEPT ![x] = {}]
    /\ UNCHANGED <<wrappers, apps, webAppsByPtr, callbacks, domainRouter, running>>

Frees(x) ==
    /\ apps' = [apps EXCEPT ![x] = {}]
    /\ phase' = [phase EXCEPT ![x] = "apps freed"]
    /\ UNCHANGED <<wrappers, protocols, webAppsByPtr, bound, callbacks, domainRouter, running>>

FreeApps_first(x) ==
    /\ phase[x] = "running"
    /\ running[x] = NoHandler
    /\ Frees(x)

FreeApps(x) ==
    /\ phase[x] = "protocols freed"
    /\ Frees(x)

(* The loop and then PerContextData, with what is left in it. *)
DeleteContext(x) ==
    /\ phase[x] = "apps freed"
    /\ phase' = [phase EXCEPT ![x] = "ended"]
    /\ webAppsByPtr' = [webAppsByPtr EXCEPT ![x] = {}]
    /\ appObjectCallbacks' = [appObjectCallbacks EXCEPT ![x] = [a \in Apps |-> NoCell]]
    /\ UNCHANGED <<wrappers, apps, protocols, bound, content, latest, domainRouter, running>>

Next == \E x \in Contexts :
    \/ \E a \in Apps : NewApp(x, a) \/ Route(x, a) \/ Unroute(x, a) \/ OnObject(x, a)
    \/ \E p \in Protocols : NewProtocol(x, p) \/ Bind(x, p) \/ Unbind(x, p) \/ Request(x, p)
    \/ \E w \in WebApps : NewWebApp(x, w)
    \/ HandlerReturns(x)
    \/ FreeProtocols(x)
    \/ FreeApps(x)
    \/ DeleteContext(x)

Spec == Init /\ [][Next]_vars

-------------------------------------------------------------------------------
(* What must hold. *)

\* A protocol is bound to an App its own context owns and has not freed: so the
\* order of the cleanup hook is right, and no request reaches a freed App.
BoundAppIsAlive ==
    \A p \in Protocols : bound[p] # NoApp =>
        \E x \in Contexts : p \in protocols[x] /\ bound[p] \in apps[x]

\* An object route calls what onObject was last given on its App, whichever of
\* the two came first and however often either was called, and no other App's.
RoutesSeeTheLatestCallback ==
    \A d \in Patterns : LET h == domainRouter[d] IN
        h.kind = "object" => content[h.cell] = latest[h.app]

\* No raw pointer dangles: what JavaScript of a running context has a wrapper of is
\* alive, and so is a WebApp whose hook is running, also if JavaScript replaces or
\* removes its route meanwhile.
NativesInUseAreAlive ==
    \A x \in Contexts :
        /\ phase[x] = "running" =>
            \A n \in wrappers[x] : n \in apps[x] \/ n \in protocols[x] \/ WebAppAlive(n)
        /\ running[x].kind = "webApp" => WebAppAlive(running[x].webApp)

\* A request is handled in the context it arrived in: so on its own thread, and
\* not by a handler of a context that has ended.
RequestsStayInTheirContext ==
    \A x \in Contexts : running[x] # NoHandler => running[x].ctx = x
===============================================================================
