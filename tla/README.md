# Verification of akeno-uws-js

akeno-uws-js is the Node.js addon of the Akeno web framework: a C++ layer
(`src/src/*.h`, `src/src/addon.cpp`) that exposes a modified uWebSockets to
JavaScript. The library itself is a git submodule and not part of the repository;
the models take from it only what the wrapper and `docs/index.d.ts` rely on, and
the map marks those definitions as external.

The hard part of such a wrapper is not computation but *lifetime*: JavaScript
objects hold raw native pointers, the natives die or are reused on their own
schedule, and every callback may run JavaScript that does anything it likes.

## Inventory

| Component | State | Operations | Interacts with |
|---|---|---|---|
| HTTP response object (`HttpResponseWrapper.h`) | internal field with the socket pointer; handlers the library holds | end, endWithoutBody, tryEnd, write, writeRaw, streamFile, sendErrorPage, sendJSONError, close, upgrade, cork, onAborted, onWritable, onData, getters | created by route handlers, used by JavaScript at any time, calls the library, called back by it |
| HTTP request object (`HttpRequestWrapper.h`) | internal field with a stack pointer | getters | valid only in the route handler |
| Calls into JavaScript (`Utilities.h`) | `insideCorkCallback` | CallJS | everything |
| App, routes (`AppWrapper.h`) | domain router, callbacks of object routes | route, unroute, onObject, publish | protocols emit requests into it |
| WebApp and file processor (`AppWrapper.h`, `Utilities.h`) | `pendingFileProcesses`, `nextFileProcessId`, `fileProcessorCallback`, file cache, `webAppsByPtr` | constructor, setOptions, registerFileProcessor, completeProcessing | library hook, JavaScript, abort handlers |
| Protocols (`AppWrapper.h`) | listen sockets, bound app, filters, SNI | listen, close, bind, unbind, filter, ws, SNI, child apps | library, App |
| WebSockets (`WebSocketWrapper.h`, `uWS_Proto_ws`) | pointer of the socket object, persistent object per socket | send, cork, close, end, subscribe, publish, ... | library callbacks |
| Key value store (`addon.cpp`) | two global maps of maps, one global mutex | get, set, inc, delete, keys, lock, unlock | worker threads |
| Context (`addon.cpp`, `Utilities.h`) | `PerContextData`, global domain router | set up, cleanup hook | owns the rest |
| HTML parser (`HTMLParserWrapper.h`) | one native context per parser, with its flags and a pointer to the result of the call that parses | fromString, fromFile and their markdown variants, write, import, getTagName | handlers and getters of JavaScript, which parse again |
| Declarative responses (`uws.js`) | an instruction buffer | write*, end | the library interprets it |
| Fast timers (`FastTimers.h`) | linked lists of timers, their components, a stack of free offsets | setTimeout_, clearTimeout_, tick | JavaScript callbacks; its include in `addon.cpp` is commented out |
| Percent decoding (`AppWrapper.h`) | none across calls | decodeURIComponent | called for the path of each request |
| Multipart, host, build, V8 header | none across calls | | |

What makes each correct:

* **Responses**: a live pointer leads to *its own* pending request and to no later
  request of the same keep-alive connection; a pointer is taken away exactly when the
  request is settled; an abort is reported once.
* **Requests**: the pointer is live only while its handler is on the stack.
* **File processor**: an id completes the request it was given for, once, or nothing;
  whatever waits can still be answered, unless its result was refused; with a JavaScript side that completes
  its ids, everything else is.
* **WebSockets**: the object leads to its own socket from open to close event, also if it is
  closed inside of its own handlers; the close event comes once, and at once if JavaScript closes;
  native buffers never outlive the callback.
* **Key value store**: under lock/unlock no update is lost and no two threads are in a map; who waits for the
  mutex is stranded by nobody but its holder.
* **Context**: nothing is used after the cleanup hook freed it.
* **Protocols and Apps**: no request is emitted into an App that was unbound or freed.
* **HTML parser**: what handlers write through a context object lands in the result of the call
  that runs them, unless they use the parser for another one, and in no other call's; a file is parsed with the flags
  of its own call; nothing is written to a result that was returned.
* **Fast timers**: lists stay linked, offsets are handed out once, a tick misses no timer, and a timer
  triggers in time.
* **Percent decoding**: decoding what was encoded gives it back, up to the very end of the path.

Hard behaviours: reuse of a socket address by the next request or the next connection;
events between a handler and its asynchronous answer; JavaScript that runs *inside* a
native call (close, protocol.close(), upgrade, cork); results that arrive late, twice or not
at all; threads. `PROJECT.json` lists them line by line under "hazards".

## Modules

| Module | Models | Built on |
|---|---|---|
| `RequestLifecycle` | what any holder of a request promises (abstract) | |
| `HttpConnection` | sockets, the event loop, the call stack; mostly external | |
| `HttpResponse` | response and request objects | `HttpConnection`; implements `RequestLifecycle` |
| `FileProcessor` | the file processor beside JavaScript route handlers on the same sockets | `HttpResponse`; implements `RequestLifecycle` |
| `HttpResponseProofs` | theorems about `HttpResponse` | `HttpResponse`, TLAPS |
| `FileProcessorProofs` | theorems about `FileProcessor` | `FileProcessor`, `HttpResponseProofs` |
| `KVStore`, `KVStoreProofs` | the key value store shared by worker threads, and theorems about it | |
| `SocketLifecycle` | what the wrapper promises about a WebSocket object (abstract) | |
| `WebSocket` | WebSocket objects and the handlers of a protocol's ws route | implements `SocketLifecycle` |
| `WebSocketProofs` | theorems about `WebSocket` | `WebSocket`, TLAPS |
| `Routing`, `RoutingProofs` | Apps, routes, WebApps, protocols and contexts, with their one domain router, and theorems about them | |
| `HTMLParser`, `HTMLParserProofs` | parsers, their native contexts and the calls that nest through handlers, and theorems about them | |
| `FastTimers`, `FastTimersProofs` | the timers of the header, and theorems about them | |
| `ConnectionFilter` | the response objects a filter is called with | |
| `PathDecoding`, `PathDecodingProofs` | `decodeURIComponent`, and theorems about it | |
| `MC*` | symmetry sets and values for TLC, where a run needs any | |

### HttpConnection and HttpResponse

A native `uWS::HttpResponse` *is* its socket, so a member of `Conns` stands for the pointer
value. `resObject[r]` is the internal field of the response object made for request `r`
(`NoConn` is the null pointer), `reqObject` the set of request objects with a pointer.
`pending[c]` is the request the library is waiting to see answered on socket `c`; the next
request of the connection arrives only when it is none, and has the same pointer. A closed
address may be reused by a later connection (`Connect`).

`onAborted[c]` is the handler installed on the socket. It is either a JavaScript one, which
captured the response object it has to null (`JsHandler(r)`), or the file processor's, which
captured the id it has to erase (`EraseHandler(id)`).

One thread runs both the loop and JavaScript. `insideCorkCallback` is the counter the code
keeps: `CallJS` raises it, `HandlerReturn` and `CallbackReturn` lower it. The loop dispatches
an event only at zero (`LoopMayDispatch`); JavaScript may call a method at any time except while
a native call made from it has not returned (`JsMayCall`). At zero such a call is a
promise, timer or any other turn of JavaScript. A method whose pointer is null throws
and changes nothing, so it is no step of the model: `getHttpResponse` is the guard of each call.
Methods that only move bytes, status, headers, getters, pause and resume are left out.

`protocol.close()` closes one socket after the other, and the abort handler of each runs
JavaScript in between: `AppClose` fills `closing`, `AppCloseSocket` closes one. A handler may call `protocol.close()`
again, which then goes over the sockets that are still open before the outer one goes on. `CarefulClose`
says whether it may be called while some response has no abort handler.

`HandlerReturn` models the library's check that a response that is neither complete nor guarded
terminates the process (`docs/index.d.ts:166`): `terminated` ends every behaviour.
`outcome` and `aborts` are history variables.

### FileProcessor

Adds the table `pendingFileProcesses`, the counter, the registered callback and the cache
(a set of paths) of `AppWrapper.h`. A file request on an idle socket is answered at once
(`ServeWithoutProcessor`: cached, or no processor) or parked (`ProcessFile`);
`completeProcessing(id)` is split by its outcome into `CompleteUnknown`, `CompleteProcessing`
and `CompleteRejected`. Whatever closes a socket also runs the abort handler of a parked
request (`EraseOnAbort`). JavaScript route handlers serve other requests of the same sockets.
`parked`, `delivered` and `rejected` are history variables.

`completeProcessing` takes the entry out of the table before it looks at the result. So a request whose result is
refused (`CompleteRejected`) is one nobody can answer any more; the code leaves it so, and no document says otherwise.
`SomebodyCanAnswer` and `ParkedIsResolved` therefore exempt it. What the first says of it is that the abort handler of
its own id stays on its socket: the library lets it wait, and a disconnect ends it.

### KVStore

Threads share two global maps. The string store and the integer store have the same operations
on maps of the same shape; the model is the integer one, which also has a width: `ToUint32` on the
way in, `ToInt32` on the way out, `2 * Half` for 2^32. The integers a thread is given are
`result`, and `meant` keeps the same counters as unbounded integers (history). A collection that
is empty is the same as none: only the length of an array of keys tells them apart in the code,
and that is left out. Every store operation is two steps of its thread, entering and leaving the map, so that
operations of different threads overlap whenever nothing keeps them apart.

The code takes no lock in any operation, and keeps JavaScript from nothing: a thread may use the maps without the
mutex, call `lock()` twice, unlock what another has locked, or end with the mutex (`ThreadEnds`; nothing
unlocks it). All of this is in the model; a thread that does it is in `careless` from then on (history), and `held` has
the threads that have locked and not unlocked since. `lock()` is two steps, the call and its
return: a thread in `waiting` runs no JavaScript, and a `std::mutex` does not return to the thread that has it
either. Unlocking the mutex of another thread is undefined in C++; the model releases it, as the mutexes of the platforms do.

`CountersExact` and `SmallCountersReadExactly` are about the time in which nobody has been careless, and
`AtMostOneInside`, which is proved, says that until then no two threads are in the maps together. Two threads in the
maps after that are undefined behaviour (a corrupt map) and not followed. `WaitersAreNotStranded` is about all
behaviours: who waits for the mutex of a thread that has ended, or that waits itself, waits because of that thread's own
mistake, not because of anybody else's.

### WebSocket

`wsObject[w]` is the internal field of the `w`-th WebSocket object, `socketPf[c]` the object the
native socket at address `c` holds (`PerSocketData`). An address is free again after the close handler,
and a new WebSocket may open there. `phase[c]` is how far the socket has come: none, open, closing
(the library has begun to close it and ends its subscriptions), reported (the close handler has run up
to its call of JavaScript). Upgrading is external: `OpenHandler` is the open handler, for an upgrade by
the library or by `res.upgrade`.

JavaScript may close any socket, or all of them, in any handler, and the close handler then runs before
that call returns. So the model keeps who runs whom in `stack`: JavaScript functions, sockets being
closed, and `protocol.close()` with the sockets it has yet to close. Only the frame on top
goes on. A handler that is not set is not called (`CallJSIf`); message, drain, ping and pong are
only installed if they are set, and are one action, `EventHandler`. They come from the loop, so the
stack is empty, while `DroppedHandler` may also run inside of a `send` or `publish`. The order in which a
socket that closes ends its subscriptions and reports the close is the library's, as is that a socket
already closing is not closed again. `ws.close()` and `ws.end()` differ in the close message
alone. That a socket that is closing takes no new subscription is the library's too.
Calls on an object without pointer throw and are no step; calls that only send or read are left out.
`opened` and `closeEvents` are history variables, but for the numbering of objects.

### Routing

A context is a thread with its isolate. `apps[x]`, `protocols[x]`, `webAppsByPtr[x]` and
`appObjectCallbacks[x]` are its `PerContextData`; both lists of protocols are one. `domainRouter` is
the global variable of `addon.cpp:48`: the Apps of all contexts route through it. A handler in it
captures the context that registered it and the shared callback of its App, or a WebApp. A shared
pointer keeps its target alive as long as the map or a route has it (`CellAlive`, `WebAppAlive`);
`content[i]` is the function in a shared object callback. `wrappers[x]` are the natives JavaScript
objects of `x` point to: a wrapper is never invalidated, it is used as long as JavaScript runs.
Every wrapper of an App made by `uWS_App_constructor` has its callback, so the code that makes one later
(`route`, `onObject`) never does. Addresses of natives are used once.

`Request` is a request that calls JavaScript; static buffers and empty callbacks answer without.
What it does to the objects of the request is `HttpResponse`'s. The cleanup hook is
`FreeProtocols`, `FreeApps`, `DeleteContext`, between which the other contexts go on. The library's: that a
freed protocol detaches from its App (as the hook's comment says), that a freed App leaves its routes in the router, which the
router is not told of, and how patterns match. The router has no lock; the model takes its calls as
atomic, and the races of two threads inside it are left out.

`Apart` says that each context is sent requests for domains it registered itself. The code does not see
to that: `RoutingForeignHandler` is the run without. `latest` is a history variable, and so is the App
in a handler.

### HTMLParser

A parser has one native context (`output`, `flags`), shared by every context object made by
`createContext`. `output[p]` is the call whose result string, on the stack of that call, the context points
into; the same call's user data and source go with it. `result[k]` is that string, as the order of its
pieces: appended to the buffer the library hands to a callback, or written through a context object.
`stack` holds the native calls and the JavaScript they run: a `fromFile` that reads `ctx.data.path`
(`reads`), the library on a string, a file or an import, and handlers. A handler, a getter or any other JavaScript may
start another call, also with the same parser; a call whose parser was used for another one meanwhile is in
`disturbed` (history), as the code gives it nothing back: the context has the other call's flags and, until it is cleared, its
output. Each piece carries the call it was meant for, and `produced` (history) is what belongs into a result, in order. So
`ResultIsWhatWasProduced` says two things: of every call, also a disturbed one, that nothing of another call gets into its
result; of a call that is not disturbed, that all of it gets there, in order. What a disturbed call loses, as its handlers'
writes go nowhere, is what the code does, and nothing is claimed of it.

`fromString` sets one flag and leaves two as the last file had them; `fromFile` sets all three after the
getter has run. No document says what these two flags of a string should be, so `ParsedAsAsked` is about all flags
of a file, and of a string only about the one its call sets. `ctx.end()` is called after a string that was parsed, not after a file or a parse that failed
(`ParseEnds`, `FileEnds`, `ParseFails`); whether the library has cleared the context by itself is left
open (`PointsMaybe`). What is parsed, and which handlers it calls, is the library's. Left out: `import` while the
context points nowhere (unlike `write`, it does not look), `setBodyAttributes`, `needsUpdate` and the
options other than handlers.

### FastTimers

The module is about the header by itself. `lists` are its arrays of links, `components[t]` the ticks timer
`t` has left of each period, `freeTimers` and `freeTimersHead` the stack of offsets. `divideComponents`
writes only the components the time has, and counts in `unsigned int` (`Wide`). A tick is one step for its
start, one for each timer it comes to (`KeepsWaiting`, `Moves`, `Triggers`), one for each callback
that returns and one for its end; between `Triggers` and `CallbackReturns` the callback may set and clear
timers, also in the list the tick iterates. `armed`, `asked`, `age`, `clean` and `unvisited` are
history variables.

What calls `tick` is not in the header: each system timer calls on time, those that are due at one time
in any order. JavaScript clears only timers that wait and, as a comment in `tick` asks, none in its own
callback. More timers than the stack has offsets are not asked for: the offset of a timer that has
triggered is never returned, and reading behind the end of the stack is undefined. `TriggersInTime` is about
timers that ask for some time and whose offset has no components left over from a timer that was
cleared (`clean`): the code does not reset those, and a timer of 0 ms waits until its counter has wrapped around.
The other properties hold for these as well.

### ConnectionFilter and PathDecoding

`ConnectionFilter` has the sockets of a protocol and, for each call of the filter, the object it was given;
JavaScript only reads through it. `PathDecoding` is the loop of `decodeURIComponent`, one step for each turn.
`strtoul` takes two digits, and also a blank or a sign before one digit; in base `Base`, which
is 16 in the code, two digits make one byte. `EncodedBefore` says what an encoded byte and a rest may be together,
`Encodings` are all the encodings of a text; a `%` stands for itself only where no two digits can follow, as the code
takes it for an escape otherwise.

## Runs

| Run | Question | Bounds |
|---|---|---|
| `HttpResponse` | Are objects valid exactly when they lead to their own pending request, is every abort reported once, is whatever waits guarded; does the wrapper implement `RequestLifecycle`; is a pointer taken only by settling? | 2 sockets, 3 requests, depth 3 |
| `HttpResponseAppClose` (violation) | Is a response valid until it is ended or its abort reported (`docs/index.d.ts:111`), if `protocol.close()` is called in a route handler? | 1 socket, 1 request |
| `FileProcessor` | Does an id lead to its own request, can whatever waits be answered, or if refused still end, is it answered with its own file from the cache; is every parked request resolved; do objects and entries together implement `RequestLifecycle`? | 2 sockets, 2 requests, 2 files, depth 3 |
| `FileProcessorAbortedResult` (violation) | Is the result of an aborted request cached (`AppWrapper.h:432`)? | 1 socket, 1 request |
| `KVStore` | While threads lock and unlock with care, is a counter exact and what does JavaScript read; if they do not, whose mistake strands those who wait? | 2 threads, 2 collections with a key each, 2 bits, counters within -3 .. 3 |
| `WebSocket` | Does an object lead to its own socket from open to close event; is every close reported, once, and at once if JavaScript closes; is no handler called later; do WebSocket objects implement `SocketLifecycle`, so that what is given up is closed? | 2 addresses, 3 WebSockets, 1 topic, depth 6 |
| `Routing` | Does an object route call what `onObject` was last given; is a bound App alive; does no pointer in use dangle? | 2 contexts, 2 Apps, 2 protocols, 1 WebApp, 2 patterns, 2 functions, 2 shared callbacks |
| `RoutingForeignHandler` (violation) | Does a request stay in the thread it arrived in (`examples/WorkerThreads.js:4`)? | 2 contexts, 2 Apps, 1 protocol, 1 pattern |
| `HTMLParser` | Does the context of a parser follow the call that parses, with its flags and into its result, in order; does output of one call get into another's; is what was returned final? | 2 parsers, 3 calls, depth 4, 2 pieces together |
| `FastTimers` | Are lists and stack sound, does a tick come to every timer of its list, does a timer trigger in time? | 3 timers, 3 sets, periods 2, 4, 8, times 0, 5, 11, 2 bits |
| `ConnectionFilter` (violation) | Is the response object of a filter valid until it is ended or its abort reported (`docs/index.d.ts:111`)? | 1 socket, 2 connections |
| `PathDecoding` | Does decoding give back what was encoded; does nothing but bytes come out? | texts of 3 and other paths of 4 bytes, 9 bytes with 4 digits |

Why the bounds are enough: a stale pointer needs one socket and a second request on it, a
mix-up of two objects needs two sockets, and a third request lets both happen at once, also
with a new connection at an old address. For the file processor two requests do, on one socket or on two, as everything
its run checks but liveness is proved for any number. Two files tell one's result from another's. Two threads suffice for a lost update, for a
holder that ends, waits for itself or is robbed of the mutex, and two bits with counters from -3 to 3 for every wrap in both directions,
with and without a sign. Depth 2 puts JavaScript inside a call made by
JavaScript, depth 3 an event of that inside a cork. For WebSockets, three at two addresses let one open
where another was while a third is being closed, and depth 6 holds a `protocol.close()` whose
socket is closing, its handler, a second close in there, and a handler of that; every action
that calls asks for the room it needs, so that the library can always finish. Routes of two Apps at two
patterns tell every mix-up of callbacks apart, two contexts let one end while the other registers
and serves, and two protocols let one stay bound while the other's context ends. `Routing` does not
check deadlock, as all contexts may have ended. Depth 4 puts a call inside a handler of another, with a handler or an
import of its own, and three calls at two parsers let a parser be used again both inside of a call and after
it; two pieces, in one call or in two, tell a missing, a doubled, a foreign and a misplaced one apart. Three timers make lists with a
first, a middle and a last element, periods 2, 4 and 8 let a timer move from list to list twice, 5 and 11 have
one and two components and a remainder, and 2 bits let every counter wrap; ages up to 13 are past every
latest time. Encoded texts of three bytes have up to nine, with an escape at the end, after another one, and beside a `%`
that is none. The bounds are
`MaxSockets` and `MaxDepth` of `WebSocket`, in the guards of `Opens`, `CallJSIf`, `StartClosing` and `ProtoClose`,
`MaxRequests` and `MaxDepth`, in the guards of `RequestOn`, `AnswerAtOnce`, `AppClose` and `CallJS`,
`MaxMeant`, in those of `setInteger` and `Increments`, `MaxCalls`, `MaxDepth` and `MaxPieces` of `HTMLParser`, in
those of `NewCall`, `Push`, `Appends` and `write`, `MaxSets` and `MaxAge` of `FastTimers`, in `setTimeout_`
and `TimePasses`, `MaxConnections` in `Connects`, and `MaxText` and `MaxUrl` in `Init` of `PathDecoding`. The sockets of
`HttpResponse`, threads, names, and the addresses, patterns and functions of `Routing` are symmetric, and so are parsers; the runs that check liveness, `FileProcessor` and `WebSocket`, use no symmetry, while the refinement
`HttpResponse` checks is one of safety alone, and treats all sockets alike.

Every property of a passing run is also shown to fail when one definition is replaced by
a mistaken one (`X_mistake`, defined before `X`, listed under "mutants").

## Fairness

`FPFairness` asks three things. JavaScript functions return, and `protocol.close()` goes on:
one thread runs them to completion (weak fairness). JavaScript completes every id it was told
of: the contract of `registerFileProcessor`; it is enabled only when JavaScript runs, and a
`protocol.close()` on the stack can suspend that again and again, hence strong fairness. Nothing
is asked of clients: they need not send, read or disconnect. `Fairness` of `WebSocket` asks that native
code goes on, and that the JavaScript function at each depth of the stack returns: it runs
finitely many statements, but other functions may run above it again and again, so its return is
enabled only at times, hence strong fairness. `HttpResponse` has no liveness
property, because JavaScript owes an HTTP request nothing; nor has `KVStore`: a `std::mutex` is
not fair, and nothing makes JavaScript unlock it. `HTMLParser`, `FastTimers`, `ConnectionFilter` and `PathDecoding`
state none: JavaScript need not return, and that ticks come on time is part of `TimePasses`.

## Findings

* `HttpResponseAppClose`: `protocol.close()` inside a route handler without abort handler closes
  the socket without a callback, and the response object keeps its pointer.
  `CarefulClose` is the discipline under which everything else is proved.
* `FileProcessorAbortedResult`: the branch that caches the result of an aborted request
  (`AppWrapper.h:431`) cannot be reached, as the abort handler has erased the entry.
* `RoutingForeignHandler`: all threads share one domain router, and a request that arrives in one
  thread runs the JavaScript handler of another. `Apart` is the discipline under which
  `NativesInUseAreAlive` is checked and proved.

* `ConnectionFilter`: the object a filter is called with keeps the pointer of its socket after that has
  disconnected; no abort is reported, and the next connection at the address is reached through it.

## Proofs

`HttpResponseProofs` proves, for any set of sockets, any number of requests and any depth of
nested calls:

* `TypeCorrect`: `Spec => []TypeOK`.
* `ObjectSafety`: `CarefulClose` implies `Spec => []ObjectLeadsToItsRequest`. The invariant is not
  inductive: when a socket closes, nothing in it says that the object on that socket will be
  nulled. `ObjectInv` adds that (1) the handler of a socket is none, or the one of the very
  object that leads there, and a socket with no pending request has none; (2) an object outside
  of its own route handler has a handler, and all of them do while a protocol closes its sockets
  (this is where `CarefulClose` enters); (3) a route handler on the stack is counted, so that the
  loop dispatches nothing meanwhile. With (2) and (3) the abort handler of a closing socket
  nulls its object; every other way to settle a request nulls it by hand.
* `AbortSafety` and `GuardSafety`: `AbortReported` and `PendingIsGuarded`, with `LifecycleInv`
  on top of `ObjectInv`: a pending response has its object and is waiting, and requests that have
  not arrived have no outcome.
* `Refinement`: `Spec => ImplementsLifecycle`, one lemma for each way a step maps to a step of
  `RequestLifecycle`.
* `ValiditySafety` (`ValidUntilAbortedOrEnded`): on top of the above, `WaitingHasObject` says that a request that waits is
  pending on a socket, and so has its object.
* `PointerSafety` (`PointerTakenOnlyBySettling`) follows from the invariants step by step; `RequestObjectSafety`
  (`RequestObjectOnStack`) needs no assumption, and is inductive with the types.

`FileProcessorProofs` proves of `FPSpec`, assuming `CarefulClose`, for any files and the same
constants: `FPTypeCorrect`, `EntrySafety` (`EntryLeadsToItsRequest`) and `ObjectSafetyBesideFiles`
(`ObjectLeadsToItsRequest` on sockets the file processor serves as well). The invariant `FPInv` puts
the table beside `ObjectInv`, and reuses the lemmas of `HttpResponseProofs` for the steps both
specifications have. An entry is safe because the abort handler of its socket is the one that
erases this very id: so no response object leads to that socket (an object's socket has the
object's handler), no step of JavaScript settles the request there, two entries never share a
socket, and whatever closes it erases the entry. `IdsAreTaken` bounds the counter by the
requests that have arrived, so that every id is within its type.
`AnswerSafety` (`SomebodyCanAnswer`) adds `AnswerInv`: what is pending has its object, or the abort handler of an id of its own with
an entry or a refused result; requests on different sockets differ, a socket's handler belongs to the request pending there, and ids
not yet given have no entry.
`FileRefinement` (`FPSpec => FileImplementsLifecycle`) needs `FileRefineInv` besides, which says that what is pending
waits and that a request that has not arrived has no outcome; each step then settles, hands over or announces one request, or
none. `CacheSafety` (`AnsweredFromCache`) comes from the same lemmas.

`KVStoreProofs` proves, for any threads, names and integers of any width: `TypeCorrect`, `MutualExclusion`, `CountersAreExact` and
`ReadsAreExact`, the last three as long as no thread has been careless, and `OnlyItsHolderStrands`
(`WaitersAreNotStranded`), whatever threads do. That counters are exact is not inductive: nothing in it says that the
value a thread works on is still the one stored. `StoreInv` adds `HolderHolds` (the mutex is with a
thread that has not unlocked it, and such a thread is careless if it waits or has ended: this is what strands others),
`HolderInside` (until somebody is careless, whoever is inside has the mutex) and `SeenIsStored` (what a thread has looked up is what is
stored); then an increment is exact by `AddToUint32`: reducing an operand to the width before an
addition or after it makes no difference.

`WebSocketProofs` proves, for any sockets, topics, numbers of WebSockets and depth: `SocketTypeCorrect`,
`SocketObjectSafety`, `OpenIsValid`, `ReportSafety` (`CloseIsReported`) and `ClosesAtOnce`
(`GivenUpIsBeingClosed`). None is inductive alone. `SocketInv` joins `ObjectLeadsToItsSocket` and
`ValidWhileOpen` with `SocketsHoldObjects` (a socket holds an object exactly while its phase is not none,
and no two hold the same), `EventsFollowPhase` (an object whose socket is open or closing has had
no close event, all others that opened have had one) and `FreshObjects` (what has not opened has
no pointer and no event). `ClosingOnStack` adds that a socket that is closing has its frame on the stack; it is
preserved because a pop takes only the frame on top, and the frame of a closing socket is popped
only when that socket has been reported. `NoCallAfterClose` (`NothingAfterClose`) follows from
`SocketInv` step by step (`CallsAreLive`): whatever a step calls belongs to an object whose close has not been
reported. `SocketRefinement` maps every step to one of
`SocketLifecycle!Safety`, with the life of an object read off its pointer, its phase and its close events
(`LifeOf`).

`RoutingProofs` proves, for any contexts, addresses, patterns and functions: `RoutingTypeCorrect`,
`BoundSafety` (`BoundAppIsAlive`), `CallbackSafety` (`RoutesSeeTheLatestCallback`) and, assuming `Apart`,
`NativeSafety` (`NativesInUseAreAlive`). `RoutingInv` adds `Ownership` (a running context owns exactly what
it has wrappers of, contexts share nothing, and one that does not run has no protocol: this is where
the order of the hook enters), `AppsHoldCallbacks` (an App has its own shared callback until its
context ends, holding what `onObject` was last given) and `RoutesHoldCallbacks` (an object route
looks at that callback and no other App's, also when its context is gone: the route keeps the cell
alive, so no new App gets it). `RoutesKeepWebApps` and `HandlersRunAtHome` say that a hook runs with a WebApp its
own context keeps.

`HTMLParserProofs` proves, for any parsers, flags, calls, depth and pieces, with no further assumption: `ParserTypeCorrect`,
`ContextAlwaysFollowsParse`, `NothingPointsIntoReturned`, `UndisturbedParsedAsAsked`, `ResultAlwaysWhatWasProduced` and
`ReturnedResultsStayFinal`. `StackInv` joins the first four with what they need of the stack: each call on it has
begun and runs, a call is on it once but for its handlers and imports, and a call that is not disturbed is the one
its parser's context points at; a call that starts puts whatever its parser was parsing into `disturbed`. `ParserInv`
adds the results: of a call nobody disturbed, pieces came only through its own frames (`ResultsComplete`), and a piece
meant for one call lands in no other (`ResultsOwn`), as the innermost call of a parser is the one its context points at, if it points at any that runs. That a returned result is
final follows from `NothingPointsIntoReturned`: every write goes where a context points.

`FastTimersProofs` proves, for arrays of any length, any components, periods and widths: `TimersTypeCorrect` and
`TimersSafety` (`TimersAreWellFormed`). `ListsAreLinked` is not enough: it allows a ring beside the list its head
leads to, which no tick would come to. `Ranked` excludes it: there are ranks that grow along the links, which putting a
timer in front and taking one out keep. What a tick has yet to come to is `RestFrom` its cursor: closed under next,
and under prev but for its first timer; so it begins with the timer of least rank, which can only be the cursor.
That JavaScript sets or clears a timer in a callback keeps this (`RestWithAdded`, `RestWithout`, `RestWithoutOther`).
`OffsetsAreCounted` bounds the timers that wait by the offsets handed out, so that the stack has room for one that
comes back.

`TimersTriggerInTime` (`TriggersInTime`) needs to know what a timer has yet to wait. `TimesInv` says so of each timer
with nothing left over: it has waited `age`, its next tick comes in `ComesIn`, and after that the ticks it has left
stand for `Most`, and for `Least` if each list it will be moved to ticks at once; with the first sum it is never past
`Latest`, with the second never short of `Latest` by more than `Short`. Time moves from one term to the next: when it passes,
from `ComesIn` to `age`; at a tick, from `Most` to `ComesIn` (`OneTickLess`, `NextOfLast`), and when nothing is left
the age alone is between the two (`NothingIsLeft`). `CallsOnTime` is what makes `ComesIn` right: a component that is
due divides the clock, and one that has just ticked is a whole period away. That a timer starts within these bounds is a fact about
`divideComponents`: what it counts adds up to the time, rounded up (`OwedIsLatest`, by summing `LeftStep`), and
its largest component is the first (`AllIsLeft`).

`PathDecodingProofs` proves, for any base, digits, blanks and signs, and texts and paths of any length: `DecodingTypeCorrect` and
`DecodingSafety` (`EncodedIsDecoded`). That what is decoded is the beginning of the text is not inductive: nothing in it says
how the path goes on. `DecodeInv` adds `RestIsEncoded`: what is left of the path is an encoding of what is left of the
text. `NextPiece` then tells what the loop sees: the next byte as itself, and then never a `%` with two bytes behind it, or its escape, whose
two digits are those that `strtoul` reads.

That recursive functions are what they are defined as (`LeftRecursion`, `SumRecursion`, `EncodingsRecursion`) needs
induction, which is not available as a rule with a predicate. Two of these proofs take the least counterexample instead; for sums,
`Counting` states induction with a set that is shown to have every number from 0 to n.

Assumptions on constants: the null pointer is no socket, bounds are natural numbers (at least
one nested call for requests), `CarefulClose` and `Apart` are Booleans, no integer stands for no value,
integers have at least one bit, and addresses of natives of different kinds differ.

For `HTMLParser` the bounds are natural numbers; for `FastTimers` there is an offset, a component and a number,
periods are positive, and no offset stands for none. `TimersTriggerInTime` needs two more, which TLC evaluates with
the others. `PeriodsAssumption`: the largest period is a multiple of each (1000 of 10, 50, 100, 500 and
1000), as the clock is counted up to it. `TicksAssumption`: no count of ticks reaches the end of its integer; with periods of
at least 10 ms and times that are `unsigned int` themselves, none does. It also asks that ages are
counted far enough. For `PathDecoding` a digit's value is below the base, `%`, blanks and signs are no digits,
and all are bytes.

Proved and in no run: `MutualExclusion`, and `ObjectSafetyBesideFiles` (the same property is checked of
`HttpResponse`).

Only model-checked: `ParkedIsResolved` and the fairness of `ImplementsSocketLifecycle`, whose safety half is
`SocketRefinement` (fairness and ENABLED are out of the prover's reach), and everything the mutants show. Every
invariant and every action property of the runs that pass is proved.

## Not modelled

* Buffers of native memory given to JavaScript (`onData`, messages, ping, pong, subscription): whether a callback's
  buffer is detached can be read off one function, and what it points to later is the library's.
* Conversions of arguments that run JavaScript, and views of strings that outlive their temporaries: below the level
  of the models.
* The contents of the file cache beyond which paths are in it.
* Listening, TLS, server names, child apps and descriptors, sends and getters: calls that hand their arguments to the
  library and keep nothing.
* `uws.js`: `DeclarativeResponse` only appends to an array, and what reads the instructions is the library, so that
  there is nothing to check the encoding against; lengths of one byte wrap around from 256 on.
* `getParts` (an external parser, no state), `host.cpp` and `build.c` (start and build the program), and the header vendored from V8.
* Data races inside the domain router and the maps of the key value store.
* Properties of the user data of an upgrade that are getters (`AppWrapper.h:1061-1077`): they could run JavaScript while the open
  handler copies them; `OpenHandler` is one step.
* `bind` with an object that is no App: `AppWrapper.h:1307-1315` takes the first internal field of any object.
* `protocol.close()` of another protocol: all sockets of a model belong to one.
* Getters in the result of a file process, and the results themselves beyond the file they are of.

## Plan

Done: `RequestLifecycle`, `HttpConnection`, `HttpResponse`, `FileProcessor`, `KVStore`, `SocketLifecycle`, `WebSocket`,
`Routing`, `HTMLParser`, `FastTimers`, `ConnectionFilter` and `PathDecoding`, with the theorems above.

Left: sockets that are open when their context ends (`Routing` with `HttpResponse`); objects of a filter beside those
of requests on the same socket.
