----------------------------- MODULE FileProcessor -----------------------------
(***************************************************************************)
(* The file processor of a WebApp (AppWrapper.h, Utilities.h): a request   *)
(* for a file that is not cached is parked in pendingFileProcesses under a *)
(* fresh id, JavaScript is told the id, and app.completeProcessing(id)     *)
(* caches the processed file and answers the parked request, now or later. *)
(*                                                                         *)
(* It shares the connections with the JavaScript route handlers of         *)
(* HttpResponse: a keep-alive connection may carry a request of either     *)
(* kind after the other, and a table entry, like a response object, holds  *)
(* nothing but the socket's address.                                       *)
(***************************************************************************)
EXTENDS HttpResponse

CONSTANTS
    Paths,   \* files requests ask for
    NoEntry  \* an id that is not in the table

Ids == Requests  \* a request takes at most one id

Entries == [res : Conns, path : Paths, req : Requests]

ASSUME EntryAssumption == NoEntry \notin Entries

VARIABLES
    pendingFileProcesses,   \* the table: id to parked request
    nextFileProcessId,      \* the next id
    fileProcessorCallback,  \* whether a file processor is registered
    fileCache,              \* files whose processed content is cached
    parked,                 \* each entry as it entered the table (history)
    delivered,              \* ids JavaScript gave a usable result for (history)
    rejected                \* ids whose result was refused (history)

fileVars == <<pendingFileProcesses, nextFileProcessId, fileProcessorCallback,
              fileCache, parked, delivered, rejected>>
fpVars   == <<vars, fileVars>>

\* Every variable has its type.
FPTypeOK ==
    /\ TypeOK
    /\ pendingFileProcesses \in [Ids -> Entries \union {NoEntry}]
    /\ nextFileProcessId \in 1 .. MaxRequests + 1
    /\ fileProcessorCallback \in BOOLEAN
    /\ fileCache \in SUBSET Paths
    /\ parked \in [Ids -> Entries \union {NoEntry}]
    /\ delivered \in SUBSET Ids
    /\ rejected \in SUBSET Ids

FPInit ==
    /\ Init
    /\ pendingFileProcesses = [id \in Ids |-> NoEntry]
    /\ nextFileProcessId = 1
    /\ fileProcessorCallback = FALSE
    /\ fileCache = {}
    /\ parked = [id \in Ids |-> NoEntry]
    /\ delivered = {}
    /\ rejected = {}

-------------------------------------------------------------------------------
(* registerFileProcessor(function) or (null); parked requests stay parked. *)
RegisterFileProcessor(on) ==
    /\ JsMayCall
    /\ fileProcessorCallback # on
    /\ fileProcessorCallback' = on
    /\ UNCHANGED <<vars, pendingFileProcesses, nextFileProcessId, fileCache,
                   parked, delivered, rejected>>

(* The WebApp answers by itself when the file is cached, or when the hook    *)
(* reports that no file processor is registered.                             *)
ServeWithoutProcessor(c, p) ==
    /\ p \in fileCache \/ ~fileProcessorCallback
    /\ AnswerAtOnce(c)
    /\ UNCHANGED fileVars

(* Mistakes, named as in HttpResponse. *)
ProcessFile_reusesId(c, p) ==
    LET id    == nextFileProcessId
        entry == [res |-> c, path |-> p, req |-> arrived + 1] IN
    /\ RequestOn(c)
    /\ p \notin fileCache
    /\ fileProcessorCallback
    /\ pendingFileProcesses' = [pendingFileProcesses EXCEPT ![id] = entry]
    /\ parked' = [parked EXCEPT ![id] = entry]
    /\ onAborted' = [onAborted EXCEPT ![c] = EraseHandler(id)]
    /\ CallJS
    /\ UNCHANGED <<objVars, nextFileProcessId, fileProcessorCallback, fileCache,
                   delivered, rejected>>

ProcessFile_notStored(c, p) ==
    LET id    == nextFileProcessId
        entry == [res |-> c, path |-> p, req |-> arrived + 1] IN
    /\ RequestOn(c)
    /\ p \notin fileCache
    /\ fileProcessorCallback
    /\ nextFileProcessId' = id + 1
    /\ parked' = [parked EXCEPT ![id] = entry]
    /\ onAborted' = [onAborted EXCEPT ![c] = EraseHandler(id)]
    /\ CallJS
    /\ UNCHANGED <<objVars, pendingFileProcesses, fileProcessorCallback, fileCache,
                   delivered, rejected>>

(* The hook parks the request, installs an abort handler that erases the     *)
(* entry, and calls the file processor with the id.                          *)
ProcessFile(c, p) ==
    LET id    == nextFileProcessId
        entry == [res |-> c, path |-> p, req |-> arrived + 1] IN
    /\ RequestOn(c)
    /\ p \notin fileCache
    /\ fileProcessorCallback
    /\ nextFileProcessId' = id + 1
    /\ pendingFileProcesses' = [pendingFileProcesses EXCEPT ![id] = entry]
    /\ parked' = [parked EXCEPT ![id] = entry]
    /\ onAborted' = [onAborted EXCEPT ![c] = EraseHandler(id)]
    /\ CallJS
    /\ UNCHANGED <<objVars, fileProcessorCallback, fileCache, delivered, rejected>>

-------------------------------------------------------------------------------
(* completeProcessing, for an id JavaScript has been given. *)

KnownId(id) == JsMayCall /\ id < nextFileProcessId

(* The id is not in the table: completed before, or aborted.  The call       *)
(* returns false.                                                            *)
CompleteUnknown(id) ==
    /\ KnownId(id)
    /\ pendingFileProcesses[id] = NoEntry
    /\ delivered' = delivered \union {id}
    /\ UNCHANGED <<vars, pendingFileProcesses, nextFileProcessId,
                   fileProcessorCallback, fileCache, parked, rejected>>

(* The content is cached for the file that was asked for last. *)
CompleteProcessing_latestPath(id, closes) ==
    LET entry == pendingFileProcesses[id] IN
    /\ KnownId(id)
    /\ entry # NoEntry
    /\ pendingFileProcesses' = [pendingFileProcesses EXCEPT ![id] = NoEntry]
    /\ fileCache' = fileCache \union {parked[nextFileProcessId - 1].path}
    /\ RespondOn(entry.res, closes)
    /\ ForgetWritable(entry.res)
    /\ delivered' = delivered \union {id}
    /\ UNCHANGED <<arrived, insideCorkCallback, resObject, reqObject, aborts,
                   nextFileProcessId, fileProcessorCallback, parked, rejected>>
    /\ stackUnchanged

CompleteProcessing_leavesEntry(id, closes) ==
    LET entry == pendingFileProcesses[id] IN
    /\ KnownId(id)
    /\ entry # NoEntry
    /\ fileCache' = fileCache \union {entry.path}
    /\ RespondOn(entry.res, closes)
    /\ ForgetWritable(entry.res)
    /\ delivered' = delivered \union {id}
    /\ UNCHANGED <<arrived, insideCorkCallback, resObject, reqObject, aborts,
                   pendingFileProcesses, nextFileProcessId, fileProcessorCallback,
                   parked, rejected>>
    /\ stackUnchanged

(* The entry leaves the table, the content enters the cache, and the parked  *)
(* response is served from the cache.                                        *)
CompleteProcessing(id, closes) ==
    LET entry == pendingFileProcesses[id] IN
    /\ KnownId(id)
    /\ entry # NoEntry
    /\ pendingFileProcesses' = [pendingFileProcesses EXCEPT ![id] = NoEntry]
    /\ fileCache' = fileCache \union {entry.path}
    /\ RespondOn(entry.res, closes)
    /\ ForgetWritable(entry.res)
    /\ delivered' = delivered \union {id}
    /\ UNCHANGED <<arrived, insideCorkCallback, resObject, reqObject, aborts,
                   nextFileProcessId, fileProcessorCallback, parked, rejected>>
    /\ stackUnchanged

(* The result is neither a string nor a buffer: the call throws, and the     *)
(* entry has left the table already.                                         *)
CompleteRejected(id) ==
    /\ KnownId(id)
    /\ pendingFileProcesses[id] # NoEntry
    /\ pendingFileProcesses' = [pendingFileProcesses EXCEPT ![id] = NoEntry]
    /\ rejected' = rejected \union {id}
    /\ UNCHANGED <<vars, nextFileProcessId, fileProcessorCallback, fileCache,
                   parked, delivered>>

-------------------------------------------------------------------------------
EraseOnAbort_missing(c) == UNCHANGED fileVars

(* The abort handler of a parked request runs as its socket closes. *)
EraseOnAbort(c) ==
    /\ pendingFileProcesses' = [id \in Ids |->
            IF onAborted[c] = EraseHandler(id)
            THEN NoEntry ELSE pendingFileProcesses[id]]
    /\ UNCHANGED <<nextFileProcessId, fileProcessorCallback, fileCache, parked,
                   delivered, rejected>>

FileStep ==
    \/ \E on \in BOOLEAN : RegisterFileProcessor(on)
    \/ \E c \in Conns, p \in Paths :
        \/ ServeWithoutProcessor(c, p)
        \/ ProcessFile(c, p)
    \/ \E id \in Ids :
        \/ CompleteUnknown(id)
        \/ \E closes \in BOOLEAN : CompleteProcessing(id, closes)
        \/ CompleteRejected(id)

FPNext ==
    \/ QuietStep /\ UNCHANGED fileVars
    \/ \E c \in Conns : Disconnect(c) /\ EraseOnAbort(c)
    \/ \E r \in Requests : ResClose(r) /\ EraseOnAbort(resObject[r])
    \/ \E c \in Conns : AppCloseSocket(c) /\ EraseOnAbort(c)
    \/ FileStep

FPSpec == FPInit /\ [][FPNext]_fpVars

(* JavaScript functions return, protocol.close() goes on, and JavaScript     *)
(* gives every id it was told of a result in the end.  It may do so only     *)
(* between two steps of a closing protocol, hence strong fairness.           *)
FPFairness ==
    /\ WF_fpVars(HandlerReturn /\ UNCHANGED fileVars)
    /\ WF_fpVars(CallbackReturn /\ UNCHANGED fileVars)
    /\ \A c \in Conns : WF_fpVars(AppCloseSocket(c) /\ EraseOnAbort(c))
    /\ \A id \in Ids : SF_fpVars(\/ \E closes \in BOOLEAN :
                                        CompleteProcessing(id, closes)
                                 \/ CompleteRejected(id))

FPFairSpec == FPSpec /\ FPFairness

-------------------------------------------------------------------------------
(* What must hold. *)

\* An entry of the table leads to the very request it was parked for, still
\* pending on its open socket, and that socket's abort handler is the one that
\* erases this entry.  completeProcessing therefore never answers a later
\* request of the connection.  (uWS_App_completeProcessing, fileProcessorHttp)
EntryLeadsToItsRequest ==
    \A id \in Ids : pendingFileProcesses[id] # NoEntry =>
        LET entry == pendingFileProcesses[id] IN
        /\ pending[entry.res] = entry.req
        /\ sock[entry.res] = "open"
        /\ onAborted[entry.res] = EraseHandler(id)
        /\ parked[id] = entry

\* A response that waits belongs to a live response object or to an entry of the
\* table, unless its result was refused: then nobody can answer it any more, but its
\* abort handler is still the one that erases its own entry, so that the library does
\* not terminate the process over it and a disconnect ends it.
\* (uWS_App_completeProcessing erases the entry before it looks at the result)
SomebodyCanAnswer ==
    ~terminated =>
        \A c \in Conns : pending[c] # NoRequest =>
            \/ resObject[pending[c]] = c
            \/ \E id \in Ids : /\ parked[id] # NoEntry
                               /\ parked[id].req = pending[c]
                               /\ onAborted[c] = EraseHandler(id)
                               /\ pendingFileProcesses[id] = parked[id] \/ id \in rejected

\* Whenever a parked request is answered, the file it asked for is cached.
\* (uWS_App_completeProcessing)
AnsweredFromCache ==
    [][\A id \in Ids :
        LET entry == pendingFileProcesses[id] IN
        entry # NoEntry /\ outcome'[entry.req] = "answered" =>
            entry.path \in fileCache']_fpVars

WaitsFor(id) == parked[id] # NoEntry /\ outcome[parked[id].req] = "waiting"

\* A parked request is answered or aborted in the end, unless its result was
\* refused or the process was terminated.  (under FPFairness)
ParkedIsResolved ==
    \A id \in Ids : WaitsFor(id) ~> ~WaitsFor(id) \/ id \in rejected \/ terminated

\* AppWrapper.h:432 "Request was aborted, but we can still store cache for
\* future requests": a usable result is cached even if its request is gone.
AbortedResultIsCached ==
    \A id \in delivered \ rejected : parked[id].path \in fileCache

(* Response objects and table entries together keep the promise of          *)
(* RequestLifecycle; a refused result abandons its request.                 *)
FileLifecycle ==
    INSTANCE RequestLifecycle WITH
        current    <- pending,
        phase      <- outcome,
        MayAbandon <- TRUE,
        handles    <- {r \in Requests :
                        \/ resObject[r] # NoConn
                        \/ \E id \in Ids : /\ pendingFileProcesses[id] # NoEntry
                                           /\ pendingFileProcesses[id].req = r}

\* Every behaviour is one of RequestLifecycle.
FileImplementsLifecycle == FileLifecycle!Spec
===============================================================================
