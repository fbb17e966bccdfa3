-------------------------- MODULE FileProcessorProofs --------------------------
(***************************************************************************)
(* Proofs about FileProcessor: response objects stay safe next to a file   *)
(* processor that answers requests of the same sockets, and an entry of    *)
(* the table leads to its own request.                                     *)
(***************************************************************************)
EXTENDS FileProcessor, HttpResponseProofs, Integers

(* An id is taken by a request that has arrived. *)
IdsAreTaken == nextFileProcessId <= arrived + 1

FPInv ==
    /\ FPTypeOK
    /\ ObjectInv
    /\ EntryLeadsToItsRequest
    /\ IdsAreTaken

-------------------------------------------------------------------------------
(* The table alone. *)

(* An entry is a record of a socket, a file and a request. *)
LEMMA EntryParts ==
    ASSUME FPTypeOK, NEW id \in Ids, pendingFileProcesses[id] # NoEntry
    PROVE  /\ pendingFileProcesses[id].res \in Conns
           /\ pendingFileProcesses[id].path \in Paths
           /\ pendingFileProcesses[id].req \in Requests
BY DEF FPTypeOK, Entries

(* No response object leads to the socket of an entry. *)
LEMMA EntryHasNoObject ==
    ASSUME FPTypeOK, ObjectInv, EntryLeadsToItsRequest,
           NEW id \in Ids, pendingFileProcesses[id] # NoEntry
    PROVE  \A r \in Requests : resObject[r] # pendingFileProcesses[id].res
<1>1. onAborted[pendingFileProcesses[id].res] = EraseHandler(id)
  BY DEF EntryLeadsToItsRequest
<1>2. pendingFileProcesses[id].res \in Conns
  BY EntryParts
<1> QED
  BY <1>1, <1>2, HandlersDiffer, ConnsAssumption
     DEF ObjectInv, HandlerFollowsObject, Ids

(* Two entries never share a socket. *)
LEMMA EntriesApart ==
    ASSUME EntryLeadsToItsRequest, NEW i \in Ids, NEW j \in Ids,
           pendingFileProcesses[i] # NoEntry, pendingFileProcesses[j] # NoEntry,
           pendingFileProcesses[i].res = pendingFileProcesses[j].res
    PROVE  i = j
BY HandlersDiffer DEF EntryLeadsToItsRequest, Ids

(* A step that leaves the table alone, and the sockets its entries are on. *)
LEMMA EntryFrame ==
    ASSUME FPTypeOK, EntryLeadsToItsRequest, UNCHANGED <<pendingFileProcesses, parked>>,
           \A id \in Ids : pendingFileProcesses[id] # NoEntry =>
               LET c == pendingFileProcesses[id].res IN
               /\ pending'[c] = pending[c]
               /\ sock'[c] = sock[c]
               /\ onAborted'[c] = onAborted[c]
    PROVE  EntryLeadsToItsRequest'
BY DEF EntryLeadsToItsRequest

LEMMA QuietKeepsEntries ==
    ASSUME FPTypeOK, ObjectInv, EntryLeadsToItsRequest, QuietStep, UNCHANGED fileVars
    PROVE  EntryLeadsToItsRequest'
<1> SUFFICES ASSUME NEW id \in Ids, pendingFileProcesses[id] # NoEntry
             PROVE  LET c == pendingFileProcesses[id].res IN
                    /\ pending'[c] = pending[c]
                    /\ sock'[c] = sock[c]
                    /\ onAborted'[c] = onAborted[c]
  BY EntryFrame DEF fileVars
<1> DEFINE c == pendingFileProcesses[id].res
<1> DEFINE Same == pending'[c] = pending[c] /\ sock'[c] = sock[c]
                   /\ onAborted'[c] = onAborted[c]
<1>1. /\ c \in Conns /\ sock[c] = "open" /\ pending[c] # NoRequest
      /\ \A r \in Requests : resObject[r] # c
  BY EntryParts, EntryHasNoObject, NoRequestIsNone DEF EntryLeadsToItsRequest
<1>2. /\ pending \in [Conns -> Requests \union {NoRequest}]
      /\ sock \in [Conns -> SockStates]
      /\ onAborted \in [Conns -> Handlers]
      /\ \A r \in Requests : resObject[r] # NoConn => resObject[r] \in Conns
  BY DEF FPTypeOK, TypeOK, ConnTypeOK, ObjTypeOK
<1> HIDE DEF c
<1>3. ASSUME NEW d \in Conns, Connect(d) PROVE Same
  BY <1>1, <1>2, <1>3 DEF Connect
<1>4. ASSUME NEW d \in Conns, RouteHandler(d) PROVE Same
  BY <1>1, <1>2, <1>4 DEF RouteHandler, RequestOn
<1>5. ASSUME NEW d \in Conns, AnswerAtOnce(d) \/ Writable(d) PROVE Same
  BY <1>5 DEF AnswerAtOnce, Writable
<1>6. ASSUME NEW d \in Conns, WebSocketClose(d) PROVE Same
  BY <1>1, <1>2, <1>6 DEF WebSocketClose
<1>7. ASSUME NEW r \in Requests, NEW closes \in BOOLEAN, InvalidateAndRespond(r, closes)
      PROVE  Same
  BY <1>1, <1>2, <1>7
     DEF InvalidateAndRespond, getHttpResponse, RespondOn, ForgetAbortHandler
<1>8. ASSUME NEW r \in Requests,
             \/ ResTryEndPartly(r) \/ ResWriteBackpressure(r) \/ ResOnWritable(r)
             \/ ResCork(r)
      PROVE  Same
  BY <1>8 DEF ResTryEndPartly, ResWriteBackpressure, ResOnWritable, ResCork, connVars
<1>9. ASSUME NEW r \in Requests, ResOnAborted(r) PROVE Same
  BY <1>1, <1>2, <1>9 DEF ResOnAborted, getHttpResponse
<1>10. ASSUME NEW r \in Requests, ResUpgrade(r) PROVE Same
  BY <1>1, <1>2, <1>10 DEF ResUpgrade, getHttpResponse, ForgetAbortHandler
<1>11. ASSUME HandlerReturn \/ CallbackReturn \/ AppClose PROVE Same
  BY <1>11 DEF HandlerReturn, CallbackReturn, AppClose
<1> HIDE DEF Same
<1>12. Same
  BY <1>3, <1>4, <1>5, <1>6, <1>7, <1>8, <1>9, <1>10, <1>11
     DEF QuietStep, ResEnd, ResEndWithoutBody, ResStreamFile, ResSendErrorPage,
         ResSendJSONError, ResTryEndDone
<1> QED
  BY <1>12 DEF c, Same

(* The socket at c closes, and its abort handler erases its entry. *)
LEMMA CloseKeepsEntries ==
    ASSUME FPTypeOK, EntryLeadsToItsRequest, NEW c \in Conns,
           NEW how \in {"closed", "aborted"},
           CloseOn(c, how), EraseOnAbort(c)
    PROVE  EntryLeadsToItsRequest'
<1> SUFFICES ASSUME NEW id \in Ids, pendingFileProcesses'[id] # NoEntry
             PROVE  LET entry == pendingFileProcesses'[id] IN
                    /\ pending'[entry.res] = entry.req
                    /\ sock'[entry.res] = "open"
                    /\ onAborted'[entry.res] = EraseHandler(id)
                    /\ parked'[id] = entry
  BY DEF EntryLeadsToItsRequest
<1>1. /\ pendingFileProcesses'[id] = pendingFileProcesses[id]
      /\ onAborted[c] # EraseHandler(id)
      /\ parked' = parked
  BY DEF EraseOnAbort
<1>2. /\ pendingFileProcesses[id] # NoEntry
      /\ pendingFileProcesses[id].res \in Conns \ {c}
  BY <1>1, EntryParts DEF EntryLeadsToItsRequest
<1> QED
  BY <1>1, <1>2
     DEF CloseOn, ForgetAbortHandler, EntryLeadsToItsRequest, FPTypeOK, TypeOK, ConnTypeOK

-------------------------------------------------------------------------------
(* What each step of the file processor preserves. *)

LEMMA QuietArrives ==
    ASSUME QuietStep
    PROVE  arrived' \in {arrived, arrived + 1}
<1>1. ASSUME NEW c \in Conns,
             Connect(c) \/ RouteHandler(c) \/ AnswerAtOnce(c) \/ Writable(c)
                 \/ WebSocketClose(c)
      PROVE  arrived' \in {arrived, arrived + 1}
  BY <1>1 DEF Connect, RouteHandler, RequestOn, AnswerAtOnce, Writable, WebSocketClose
<1>2. ASSUME NEW r \in Requests, NEW closes \in BOOLEAN, InvalidateAndRespond(r, closes)
      PROVE  arrived' \in {arrived, arrived + 1}
  BY <1>2 DEF InvalidateAndRespond
<1>3. ASSUME NEW r \in Requests,
             \/ ResTryEndPartly(r) \/ ResWriteBackpressure(r) \/ ResOnWritable(r)
             \/ ResCork(r) \/ ResOnAborted(r) \/ ResUpgrade(r)
      PROVE  arrived' \in {arrived, arrived + 1}
  BY <1>3 DEF ResTryEndPartly, ResWriteBackpressure, ResOnWritable, ResCork,
              ResOnAborted, ResUpgrade, connVars
<1>4. ASSUME HandlerReturn \/ CallbackReturn \/ AppClose
      PROVE  arrived' \in {arrived, arrived + 1}
  BY <1>4 DEF HandlerReturn, CallbackReturn, AppClose
<1> QED
  BY <1>1, <1>2, <1>3, <1>4
     DEF QuietStep, ResEnd, ResEndWithoutBody, ResStreamFile, ResSendErrorPage,
         ResSendJSONError, ResTryEndDone

LEMMA QuietKeepsFPInv ==
    ASSUME CarefulClose, FPInv, QuietStep, UNCHANGED fileVars
    PROVE  FPInv'
<1> USE DEF FPInv
<1>1. TypeOK' /\ ObjectInv' /\ EntryLeadsToItsRequest'
  BY TypeOKQuiet, ObjectInvQuiet, QuietKeepsEntries DEF FPTypeOK
<1>2. FPTypeOK'
  BY <1>1 DEF FPTypeOK, fileVars
<1>3. IdsAreTaken'
  <2>1. arrived' = arrived \/ arrived' = arrived + 1
    BY QuietArrives
  <2>2. nextFileProcessId' = nextFileProcessId
    BY DEF fileVars
  <2>3. nextFileProcessId <= arrived + 1
    BY DEF IdsAreTaken
  <2>4. arrived \in Nat /\ nextFileProcessId \in Nat
    BY RequestsAssumption DEF FPTypeOK, TypeOK, ConnTypeOK
  <2> HIDE DEF FPInv
  <2>5. nextFileProcessId <= arrived' + 1
    BY <2>1, <2>3, <2>4
  <2> QED
    BY <2>2, <2>5 DEF IdsAreTaken
<1> QED
  BY <1>1, <1>2, <1>3

LEMMA CloseKeepsFPInv ==
    ASSUME FPInv, NEW c \in Conns, NEW also \in SUBSET Requests,
           NEW how \in {"closed", "aborted"},
           CloseOn(c, how), RunAbortHandler(c, also), EraseOnAbort(c),
           \A r \in Requests : resObject[r] = c =>
               onAborted[c] = JsHandler(r) \/ r \in also,
           UNCHANGED <<arrived, handling, closeDepth, terminated, reqObject>>,
           closing' \subseteq closing
    PROVE  FPInv'
<1> USE DEF FPInv
<1>1. TypeOK'
  BY TypeOKClose DEF FPTypeOK
<1>2. ObjectInv'
  BY ObjectInvClose DEF FPTypeOK
<1>3. EntryLeadsToItsRequest'
  BY CloseKeepsEntries
<1>4. FPTypeOK'
  BY <1>1 DEF FPTypeOK, EraseOnAbort
<1>5. IdsAreTaken'
  BY DEF IdsAreTaken, EraseOnAbort
<1> QED
  BY <1>2, <1>3, <1>4, <1>5

LEMMA ProcessFileKeepsFPInv ==
    ASSUME FPInv, NEW c \in Conns, NEW p \in Paths, ProcessFile(c, p)
    PROVE  FPInv'
<1> DEFINE id    == nextFileProcessId
<1> DEFINE entry == [res |-> c, path |-> p, req |-> arrived + 1]
<1>1. /\ id \in Ids /\ arrived + 1 \in Requests /\ entry \in Entries
      /\ arrived \in Nat
  BY RequestsAssumption
     DEF FPInv, FPTypeOK, IdsAreTaken, TypeOK, ConnTypeOK, ProcessFile, RequestOn,
         Ids, Requests, Entries
<1>2. /\ pendingFileProcesses' = [pendingFileProcesses EXCEPT ![id] = entry]
      /\ parked' = [parked EXCEPT ![id] = entry]
      /\ onAborted' = [onAborted EXCEPT ![c] = EraseHandler(id)]
      /\ nextFileProcessId' = id + 1
      /\ UNCHANGED <<objVars, fileProcessorCallback, fileCache, delivered, rejected>>
      /\ CallJS
      /\ RequestOn(c)
  BY DEF ProcessFile
<1> HIDE DEF id
<1>3. TypeOK'
  BY <1>1, <1>2, HandlersExist
     DEF FPInv, FPTypeOK, TypeOK, ConnTypeOK, ObjTypeOK, objVars, RequestOn, CallJS,
         Outcomes, Requests, Ids
<1>4. FPTypeOK'
  <2>1. nextFileProcessId' \in 1 .. MaxRequests + 1
    BY <1>1, <1>2, RequestsAssumption DEF Ids, Requests
  <2> QED
    BY <1>1, <1>2, <1>3, <2>1 DEF FPInv, FPTypeOK
<1>5. ObjectInv'
  <2>1. \A r \in Requests : resObject[r] # c
    BY <1>1, <1>2, NoRequestIsNone, ConnsAssumption
       DEF FPInv, ObjectInv, ObjectLeadsToItsRequest, RequestOn
  <2>2. handling = NoRequest /\ ~terminated /\ closing = {} /\ insideCorkCallback = 0
    BY <1>2 DEF RequestOn, LoopMayDispatch, FPInv, ObjectInv, HandlerIsCounted
  <2>3. ObjectLeadsToItsRequest'
    BY <1>2, <2>1
       DEF FPInv, ObjectInv, ObjectLeadsToItsRequest, RequestOn, objVars,
           FPTypeOK, TypeOK, ConnTypeOK, ObjTypeOK
  <2>4. HandlerFollowsObject'
    BY <1>1, <1>2, <2>1, NoRequestIsNone
       DEF FPInv, ObjectInv, HandlerFollowsObject, RequestOn, objVars,
           FPTypeOK, TypeOK, ConnTypeOK, ObjTypeOK
  <2>5. ObjectIsGuarded'
    BY <1>2, <2>1, <2>2, NoRequestIsNone
       DEF FPInv, ObjectInv, ObjectIsGuarded, RequestOn, objVars,
           FPTypeOK, TypeOK, ConnTypeOK, ObjTypeOK
  <2>6. HandlerIsCounted'
    BY <1>2, <2>2 DEF HandlerIsCounted, CallJS
  <2> QED
    BY <2>3, <2>4, <2>5, <2>6 DEF ObjectInv
<1>6. EntryLeadsToItsRequest'
  <2>1. ASSUME NEW i \in Ids, pendingFileProcesses[i] # NoEntry
        PROVE  pendingFileProcesses[i].res \in Conns \ {c}
    BY <1>1, <1>2, <2>1, EntryParts, NoRequestIsNone
       DEF FPInv, EntryLeadsToItsRequest, RequestOn
  <2>2. entry.res = c /\ entry.req = arrived + 1
    OBVIOUS
  <2> HIDE DEF entry
  <2>3. ASSUME NEW i \in Ids, pendingFileProcesses'[i] # NoEntry
        PROVE  LET e == pendingFileProcesses'[i] IN
               /\ pending'[e.res] = e.req
               /\ sock'[e.res] = "open"
               /\ onAborted'[e.res] = EraseHandler(i)
               /\ parked'[i] = e
    <3>1. CASE i = id
      BY <1>1, <1>2, <2>2, <3>1
         DEF FPInv, FPTypeOK, TypeOK, ConnTypeOK, RequestOn
    <3>2. CASE i # id
      BY <1>1, <1>2, <2>1, <2>3, <3>2
         DEF FPInv, FPTypeOK, TypeOK, ConnTypeOK, RequestOn, EntryLeadsToItsRequest
    <3> QED
      BY <3>1, <3>2
  <2> QED
    BY <2>3 DEF EntryLeadsToItsRequest
<1>7. IdsAreTaken'
  BY <1>1, <1>2 DEF FPInv, IdsAreTaken, RequestOn, Ids, Requests, id
<1> QED
  BY <1>4, <1>5, <1>6, <1>7 DEF FPInv

(* An entry leaves the table. *)
LEMMA EraseKeepsEntries ==
    ASSUME FPTypeOK, EntryLeadsToItsRequest, NEW id \in Ids,
           pendingFileProcesses' = [pendingFileProcesses EXCEPT ![id] = NoEntry],
           parked' = parked,
           \A i \in Ids : i # id /\ pendingFileProcesses[i] # NoEntry =>
               LET c == pendingFileProcesses[i].res IN
               /\ pending'[c] = pending[c]
               /\ sock'[c] = sock[c]
               /\ onAborted'[c] = onAborted[c]
    PROVE  EntryLeadsToItsRequest'
BY DEF EntryLeadsToItsRequest, FPTypeOK

LEMMA CompleteKeepsFPInv ==
    ASSUME FPInv, NEW id \in Ids, NEW closes \in BOOLEAN,
           CompleteProcessing(id, closes)
    PROVE  FPInv'
<1> DEFINE c == pendingFileProcesses[id].res
<1>1. /\ c \in Conns
      /\ pendingFileProcesses[id].path \in Paths
      /\ pendingFileProcesses[id] # NoEntry
      /\ \A r \in Requests : resObject[r] # c
  BY EntryParts, EntryHasNoObject DEF FPInv, CompleteProcessing
<1>2. /\ RespondOn(c, closes) /\ ForgetWritable(c)
      /\ UNCHANGED <<arrived, insideCorkCallback, resObject, reqObject, aborts>>
      /\ UNCHANGED <<handling, closing, closeDepth, terminated>>
      /\ pendingFileProcesses' = [pendingFileProcesses EXCEPT ![id] = NoEntry]
      /\ fileCache' = fileCache \union {pendingFileProcesses[id].path}
      /\ delivered' = delivered \union {id}
      /\ UNCHANGED <<nextFileProcessId, fileProcessorCallback, parked, rejected>>
  BY DEF CompleteProcessing, stackUnchanged
<1>3. ASSUME NEW i \in Ids, i # id, pendingFileProcesses[i] # NoEntry
      PROVE  pendingFileProcesses[i].res \in Conns \ {c}
  BY <1>1, <1>3, EntryParts, EntriesApart DEF FPInv
<1> HIDE DEF c
<1>4. TypeOK'
  BY <1>1, <1>2, HandlersExist
     DEF FPInv, FPTypeOK, TypeOK, ConnTypeOK, ObjTypeOK, RespondOn, ForgetAbortHandler,
         ForgetWritable, Settled, Outcomes, SockStates
<1>5. FPTypeOK'
  BY <1>1, <1>2, <1>4 DEF FPInv, FPTypeOK
<1>6. ObjectInv'
  <2>1. /\ pending' = [pending EXCEPT ![c] = NoRequest]
        /\ onAborted' = [onAborted EXCEPT ![c] = NoHandler]
        /\ \A d \in Conns \ {c} : sock'[d] = sock[d]
    BY <1>1, <1>2
       DEF RespondOn, ForgetAbortHandler, FPInv, FPTypeOK, TypeOK, ConnTypeOK
  <2>2. insideCorkCallback' >= insideCorkCallback /\ insideCorkCallback' \in Nat
    BY <1>2 DEF FPInv, FPTypeOK, TypeOK, ConnTypeOK
  <2>3. TypeOK /\ ObjectInv
    BY DEF FPInv, FPTypeOK
  <2> QED
    BY <1>1, <1>2, <2>1, <2>2, <2>3, ObjectInvSettle
<1>7. EntryLeadsToItsRequest'
  BY <1>1, <1>2, <1>3, EraseKeepsEntries
     DEF FPInv, FPTypeOK, TypeOK, ConnTypeOK, RespondOn, ForgetAbortHandler
<1>8. IdsAreTaken'
  BY <1>2 DEF FPInv, IdsAreTaken
<1> QED
  BY <1>5, <1>6, <1>7, <1>8 DEF FPInv

(* A step that leaves sockets and objects alone. *)
LEMMA StillKeepsFPInv ==
    ASSUME FPInv, UNCHANGED vars, UNCHANGED <<nextFileProcessId, parked>>, FPTypeOK',
           \A id \in Ids : pendingFileProcesses'[id] \in {pendingFileProcesses[id], NoEntry}
    PROVE  FPInv'
<1>1. ObjectInv'
  BY DEF FPInv, vars, connVars, objVars, ObjectInv, ObjectLeadsToItsRequest,
         HandlerFollowsObject, ObjectIsGuarded, HandlerIsCounted
<1>2. EntryLeadsToItsRequest' /\ IdsAreTaken'
  BY DEF FPInv, vars, connVars, EntryLeadsToItsRequest, IdsAreTaken
<1> QED
  BY <1>1, <1>2 DEF FPInv

LEMMA AtOnceKeepsFPInv ==
    ASSUME CarefulClose, FPInv, NEW c \in Conns, NEW p \in Paths,
           ServeWithoutProcessor(c, p)
    PROVE  FPInv'
BY QuietKeepsFPInv DEF ServeWithoutProcessor, QuietStep

-------------------------------------------------------------------------------
LEMMA FPInvClosing ==
    ASSUME FPInv,
           \/ \E c \in Conns : Disconnect(c) /\ EraseOnAbort(c)
           \/ \E r \in Requests : ResClose(r) /\ EraseOnAbort(resObject[r])
           \/ \E c \in Conns : AppCloseSocket(c) /\ EraseOnAbort(c)
    PROVE  FPInv'
<1>0. TypeOK /\ ObjectInv
  BY DEF FPInv, FPTypeOK
<1>1. ASSUME NEW c \in Conns, Disconnect(c), EraseOnAbort(c) PROVE FPInv'
  <2>1. \A r \in Requests : resObject[r] = c => onAborted[c] = JsHandler(r)
    BY <1>0, <1>1, DisconnectGuarded
  <2> QED
    BY <1>1, <2>1, CloseKeepsFPInv DEF Disconnect, stackUnchanged
<1>2. ASSUME NEW r \in Requests, ResClose(r), EraseOnAbort(resObject[r]) PROVE FPInv'
  <2> DEFINE c == resObject[r]
  <2>1. c \in Conns /\ \A q \in Requests : resObject[q] = c => q \in {r}
    BY <1>0, <1>2, ResCloseOwn
  <2>2. /\ CloseOn(c, "closed") /\ RunAbortHandler(c, {r}) /\ EraseOnAbort(c)
        /\ UNCHANGED <<arrived, reqObject, handling, closing, closeDepth, terminated>>
    BY <1>2 DEF ResClose, stackUnchanged
  <2> HIDE DEF c
  <2> QED
    BY <2>1, <2>2, CloseKeepsFPInv
<1>3. ASSUME NEW c \in Conns, AppCloseSocket(c), EraseOnAbort(c) PROVE FPInv'
  <2>1. \A r \in Requests : resObject[r] = c => onAborted[c] = JsHandler(r)
    BY <1>0, <1>3, AppCloseGuarded
  <2> QED
    BY <1>3, <2>1, CloseKeepsFPInv DEF AppCloseSocket
<1> QED
  BY <1>1, <1>2, <1>3

LEMMA FPInvFileStep ==
    ASSUME CarefulClose, FPInv, FileStep
    PROVE  FPInv'
<1>1. ASSUME NEW on \in BOOLEAN, RegisterFileProcessor(on) PROVE FPInv'
  <2>1. FPTypeOK'
    BY <1>1
       DEF FPInv, FPTypeOK, RegisterFileProcessor, vars, connVars, objVars, TypeOK,
           ConnTypeOK, ObjTypeOK
  <2> QED
    BY <1>1, <2>1, StillKeepsFPInv DEF RegisterFileProcessor
<1>2. ASSUME NEW c \in Conns, NEW p \in Paths, ServeWithoutProcessor(c, p)
      PROVE  FPInv'
  BY <1>2, AtOnceKeepsFPInv
<1>3. ASSUME NEW c \in Conns, NEW p \in Paths, ProcessFile(c, p) PROVE FPInv'
  BY <1>3, ProcessFileKeepsFPInv
<1>4. ASSUME NEW id \in Ids, CompleteUnknown(id) PROVE FPInv'
  <2>1. FPTypeOK'
    BY <1>4
       DEF FPInv, FPTypeOK, CompleteUnknown, vars, connVars, objVars, TypeOK,
           ConnTypeOK, ObjTypeOK
  <2> QED
    BY <1>4, <2>1, StillKeepsFPInv DEF CompleteUnknown
<1>5. ASSUME NEW id \in Ids, NEW closes \in BOOLEAN, CompleteProcessing(id, closes)
      PROVE  FPInv'
  BY <1>5, CompleteKeepsFPInv
<1>6. ASSUME NEW id \in Ids, CompleteRejected(id) PROVE FPInv'
  <2>1. FPTypeOK'
    BY <1>6
       DEF FPInv, FPTypeOK, CompleteRejected, vars, connVars, objVars, TypeOK,
           ConnTypeOK, ObjTypeOK
  <2>2. \A i \in Ids : pendingFileProcesses'[i] \in {pendingFileProcesses[i], NoEntry}
    BY <1>6 DEF CompleteRejected, FPInv, FPTypeOK
  <2> QED
    BY <1>6, <2>1, <2>2, StillKeepsFPInv DEF CompleteRejected
<1> QED
  BY <1>1, <1>2, <1>3, <1>4, <1>5, <1>6 DEF FileStep

LEMMA FPInvNext ==
    ASSUME CarefulClose, FPInv, [FPNext]_fpVars
    PROVE  FPInv'
<1>1. CASE QuietStep /\ UNCHANGED fileVars
  BY <1>1, QuietKeepsFPInv
<1>2. CASE FileStep
  BY <1>2, FPInvFileStep
<1>3. CASE UNCHANGED fpVars
  <2>1. FPTypeOK'
    BY <1>3 DEF FPInv, FPTypeOK, fpVars, fileVars, vars, connVars, objVars, TypeOK,
                ConnTypeOK, ObjTypeOK
  <2> QED
    BY <1>3, <2>1, StillKeepsFPInv DEF fpVars, fileVars
<1> QED
  BY <1>1, <1>2, <1>3, FPInvClosing DEF FPNext

LEMMA FPInvInit == FPInit => FPInv
<1> SUFFICES ASSUME FPInit PROVE FPInv
  OBVIOUS
<1>1. TypeOK /\ ObjectInv
  BY TypeOKInit, ObjectInvInit DEF FPInit
<1>2. FPTypeOK
  <2>1. nextFileProcessId \in 1 .. MaxRequests + 1
    BY RequestsAssumption DEF FPInit
  <2>2. fileProcessorCallback \in BOOLEAN
    BY DEF FPInit
  <2> QED
    BY <1>1, <2>1, <2>2 DEF FPInit, FPTypeOK
<1>3. EntryLeadsToItsRequest
  BY DEF FPInit, EntryLeadsToItsRequest
<1>4. IdsAreTaken
  BY DEF FPInit, Init, ConnInit, IdsAreTaken
<1> QED
  BY <1>1, <1>2, <1>3, <1>4 DEF FPInv

LEMMA FPInvariant == ASSUME CarefulClose PROVE FPSpec => []FPInv
<1>1. FPInv /\ [FPNext]_fpVars => FPInv'
  BY FPInvNext
<1> QED
  BY <1>1, FPInvInit, PTL DEF FPSpec

\* Every variable of the file processor keeps its type; no id is taken twice
\* and none is beyond the requests that have arrived.
THEOREM FPTypeCorrect ==
    ASSUME CarefulClose
    PROVE  FPSpec => []FPTypeOK
<1>1. FPInv => FPTypeOK
  BY DEF FPInv
<1> QED
  BY <1>1, FPInvariant, PTL

\* An entry of the table leads to the request it was parked for, whatever route
\* handlers, aborts and completions happen on its socket before and after.
THEOREM EntrySafety ==
    ASSUME CarefulClose
    PROVE  FPSpec => []EntryLeadsToItsRequest
<1>1. FPInv => EntryLeadsToItsRequest
  BY DEF FPInv
<1> QED
  BY <1>1, FPInvariant, PTL

\* A response object leads to its own request also on sockets whose requests the
\* file processor answers.
THEOREM ObjectSafetyBesideFiles ==
    ASSUME CarefulClose
    PROVE  FPSpec => []ObjectLeadsToItsRequest
<1>1. FPInv => ObjectLeadsToItsRequest
  BY DEF FPInv, ObjectInv
<1> QED
  BY <1>1, FPInvariant, PTL

-------------------------------------------------------------------------------
(* Somebody can answer.  Besides FPInv this takes that a request waits on one  *)
(* connection only, that an abort handler is of the request that waits there,  *)
(* and that an id which is still free was never given away.                    *)

Answerable(c) ==
    \/ resObject[pending[c]] = c
    \/ \E id \in Ids : /\ parked[id] # NoEntry
                       /\ parked[id].req = pending[c]
                       /\ onAborted[c] = EraseHandler(id)
                       /\ pendingFileProcesses[id] = parked[id] \/ id \in rejected

RequestsApart ==
    /\ \A c \in Conns : pending[c] <= arrived
    /\ \A c, d \in Conns : pending[c] = pending[d] /\ pending[c] # NoRequest => c = d

HandlersAreOwn ==
    /\ \A c \in Conns, r \in Requests : onAborted[c] = JsHandler(r) => pending[c] = r
    /\ \A c \in Conns, id \in Ids : onAborted[c] = EraseHandler(id) =>
           parked[id] # NoEntry /\ parked[id].req = pending[c]

FreeIdsAreFresh == \A id \in Ids : id >= nextFileProcessId => parked[id] = NoEntry

AnswerInv ==
    /\ RequestsApart
    /\ HandlersAreOwn
    /\ FreeIdsAreFresh
    /\ \A c \in Conns : pending[c] # NoRequest => Answerable(c)

(* A step that neither lets a request begin nor settles one. *)
LEMMA AnswerFrame ==
    ASSUME FPInv, AnswerInv,
           UNCHANGED <<pending, resObject, nextFileProcessId, parked>>,
           arrived' \in {arrived, arrived + 1},
           \A c \in Conns : \/ onAborted'[c] = onAborted[c]
                            \/ \E r \in Requests : /\ pending[c] = r /\ resObject[r] = c
                                                   /\ onAborted'[c] = JsHandler(r),
           rejected \subseteq rejected',
           \A id \in Ids : pendingFileProcesses'[id] = pendingFileProcesses[id]
                           \/ id \in rejected'
    PROVE  AnswerInv'
<1>1. RequestsApart'
  <2>1. arrived \in Nat /\ \A c \in Conns : pending[c] \in Nat
    BY DEF FPInv, FPTypeOK, TypeOK, ConnTypeOK, Requests, NoRequest
  <2>2. \A c \in Conns : pending[c] <= arrived'
    BY <2>1 DEF AnswerInv, RequestsApart
  <2> QED
    BY <2>2 DEF AnswerInv, RequestsApart
<1>2. HandlersAreOwn'
  BY HandlersDiffer DEF AnswerInv, HandlersAreOwn, Ids
<1>3. FreeIdsAreFresh'
  BY DEF AnswerInv, FreeIdsAreFresh
<1>4. \A c \in Conns : pending'[c] # NoRequest => Answerable(c)'
  BY DEF AnswerInv, Answerable
<1> QED
  BY <1>1, <1>2, <1>3, <1>4 DEF AnswerInv

(* Whatever waited at c is over, and nothing else is touched. *)
LEMMA AnswerSettle ==
    ASSUME FPInv, AnswerInv, NEW c \in Conns,
           pending' = [pending EXCEPT ![c] = NoRequest],
           onAborted' = [onAborted EXCEPT ![c] = NoHandler],
           UNCHANGED <<arrived, nextFileProcessId, parked, rejected>>,
           \A r \in Requests : r # pending[c] => resObject'[r] = resObject[r],
           \A id \in Ids : \/ pendingFileProcesses'[id] = pendingFileProcesses[id]
                           \/ parked[id] # NoEntry /\ parked[id].req = pending[c]
    PROVE  AnswerInv'
<1>1. /\ \A d \in Conns : pending'[d] = IF d = c THEN NoRequest ELSE pending[d]
      /\ \A d \in Conns : onAborted'[d] = IF d = c THEN NoHandler ELSE onAborted[d]
      /\ arrived \in Nat /\ \A d \in Conns : pending[d] \in Requests \union {NoRequest}
  BY DEF FPInv, FPTypeOK, TypeOK, ConnTypeOK
<1>2. RequestsApart'
  BY <1>1 DEF AnswerInv, RequestsApart, NoRequest
<1>3. HandlersAreOwn'
  BY <1>1, HandlersDiffer DEF AnswerInv, HandlersAreOwn, Ids
<1>4. FreeIdsAreFresh'
  BY DEF AnswerInv, FreeIdsAreFresh
<1>5. \A d \in Conns : pending'[d] # NoRequest => Answerable(d)'
  <2> SUFFICES ASSUME NEW d \in Conns, pending'[d] # NoRequest
               PROVE  Answerable(d)'
    OBVIOUS
  <2>1. d # c /\ pending'[d] = pending[d] /\ pending[d] \in Requests
    BY <1>1
  <2>2. pending[d] # pending[c]
    BY <2>1, <1>1 DEF AnswerInv, RequestsApart
  <2>3. Answerable(d)
    BY <2>1, <1>1 DEF AnswerInv
  <2>4. CASE resObject[pending[d]] = d
    BY <2>1, <2>2, <2>4 DEF Answerable
  <2>5. ASSUME NEW id \in Ids, parked[id] # NoEntry, parked[id].req = pending[d],
               onAborted[d] = EraseHandler(id),
               pendingFileProcesses[id] = parked[id] \/ id \in rejected
        PROVE  Answerable(d)'
    BY <1>1, <2>1, <2>2, <2>5 DEF Answerable
  <2> QED
    BY <2>3, <2>4, <2>5 DEF Answerable
<1> QED
  BY <1>2, <1>3, <1>4, <1>5 DEF AnswerInv

(* A request arrives: JavaScript is given an object, or its id is. *)
LEMMA AnswerArrives ==
    ASSUME FPInv, AnswerInv, NEW c \in Conns, RequestOn(c),
           \A r \in Requests : r # arrived + 1 => resObject'[r] = resObject[r],
           rejected' = rejected,
           \/ /\ resObject'[arrived + 1] = c
              /\ UNCHANGED <<onAborted, nextFileProcessId, parked, pendingFileProcesses>>
           \/ \E id \in Ids, p \in Paths :
                LET entry == [res |-> c, path |-> p, req |-> arrived + 1] IN
                /\ id = nextFileProcessId /\ nextFileProcessId' = id + 1
                /\ pendingFileProcesses' = [pendingFileProcesses EXCEPT ![id] = entry]
                /\ parked' = [parked EXCEPT ![id] = entry]
                /\ onAborted' = [onAborted EXCEPT ![c] = EraseHandler(id)]
    PROVE  AnswerInv'
<1> DEFINE k == arrived + 1
<1>1. /\ pending' = [pending EXCEPT ![c] = k] /\ arrived' = k
      /\ pending[c] = NoRequest /\ arrived \in Nat /\ k \in Nat /\ k # NoRequest
  BY DEF RequestOn, FPInv, FPTypeOK, TypeOK, ConnTypeOK, NoRequest
<1>2. /\ \A d \in Conns : pending'[d] = IF d = c THEN k ELSE pending[d]
      /\ \A d \in Conns : pending[d] \in Nat
  BY <1>1 DEF FPInv, FPTypeOK, TypeOK, ConnTypeOK, Requests, NoRequest
<1>3. \A d \in Conns : pending[d] <= arrived
  BY DEF AnswerInv, RequestsApart
<1>4. \A d \in Conns : pending[d] # k /\ pending[d] <= k
  BY <1>1, <1>2, <1>3
<1>5. onAborted[c] = NoHandler
  BY <1>1 DEF FPInv, ObjectInv, HandlerFollowsObject
<1>6. RequestsApart'
  BY <1>1, <1>2, <1>4 DEF AnswerInv, RequestsApart
<1>7. \A d \in Conns : pending[d] # NoRequest => pending[d] \in Requests
  BY DEF FPInv, FPTypeOK, TypeOK, ConnTypeOK
<1>8. CASE /\ resObject'[k] = c
           /\ UNCHANGED <<onAborted, nextFileProcessId, parked, pendingFileProcesses>>
  <2> HIDE DEF k
  <2>1. HandlersAreOwn'
    BY <1>2, <1>5, <1>8, HandlersDiffer DEF AnswerInv, HandlersAreOwn, Ids
  <2>2. FreeIdsAreFresh'
    BY <1>8 DEF AnswerInv, FreeIdsAreFresh
  <2>3. \A d \in Conns : pending'[d] # NoRequest => Answerable(d)'
    <3> SUFFICES ASSUME NEW d \in Conns, pending'[d] # NoRequest
                 PROVE  Answerable(d)'
      OBVIOUS
    <3>1. CASE d = c
      BY <1>2, <1>8, <3>1 DEF Answerable
    <3>2. CASE d # c
      <4>1. pending'[d] = pending[d] /\ pending[d] \in Requests /\ pending[d] # k
        BY <1>2, <1>4, <1>7, <3>2
      <4>2. resObject'[pending[d]] = resObject[pending[d]]
        BY <4>1 DEF k
      <4>3. Answerable(d)
        BY <1>2, <3>2 DEF AnswerInv
      <4> QED
        BY <1>8, <4>1, <4>2, <4>3 DEF Answerable
    <3> QED
      BY <3>1, <3>2
  <2> QED
    BY <1>6, <2>1, <2>2, <2>3 DEF AnswerInv
<1>9. ASSUME NEW id \in Ids, NEW p \in Paths, NEW entry,
             entry = [res |-> c, path |-> p, req |-> k],
             id = nextFileProcessId, nextFileProcessId' = id + 1,
             pendingFileProcesses' = [pendingFileProcesses EXCEPT ![id] = entry],
             parked' = [parked EXCEPT ![id] = entry],
             onAborted' = [onAborted EXCEPT ![c] = EraseHandler(id)]
      PROVE  AnswerInv'
  <2>1. entry.req = k /\ entry # NoEntry
    <3>1. k \in Requests
      BY <1>1, RequestsAssumption DEF RequestOn, Requests
    <3> QED
      BY <1>9, <3>1, EntryAssumption DEF Entries
  <2>2. /\ \A i \in Ids : parked'[i] = IF i = id THEN entry ELSE parked[i]
        /\ \A i \in Ids : pendingFileProcesses'[i] =
                              IF i = id THEN entry ELSE pendingFileProcesses[i]
        /\ \A d \in Conns : onAborted'[d] = IF d = c THEN EraseHandler(id) ELSE onAborted[d]
    BY <1>9 DEF FPInv, FPTypeOK, TypeOK, ConnTypeOK
  <2>3. /\ parked[id] = NoEntry
        /\ \A i \in Ids : i >= nextFileProcessId' => i >= nextFileProcessId /\ i # id
    <3>1. id \in Nat /\ \A i \in Ids : i \in Nat
      BY DEF Ids, Requests
    <3> QED
      BY <1>9, <3>1 DEF AnswerInv, FreeIdsAreFresh
  <2> HIDE DEF k
  <2>4. HandlersAreOwn'
    <3>1. \A d \in Conns, r \in Requests : onAborted'[d] = JsHandler(r) => pending'[d] = r
      BY <1>2, <2>2, HandlersDiffer DEF AnswerInv, HandlersAreOwn, Ids
    <3>2. \A d \in Conns, i \in Ids : onAborted'[d] = EraseHandler(i) =>
              parked'[i] # NoEntry /\ parked'[i].req = pending'[d]
      <4> SUFFICES ASSUME NEW d \in Conns, NEW i \in Ids, onAborted'[d] = EraseHandler(i)
                   PROVE  parked'[i] # NoEntry /\ parked'[i].req = pending'[d]
        OBVIOUS
      <4>1. CASE d = c
        BY <1>2, <2>1, <2>2, <4>1, HandlersDiffer DEF Ids
      <4>2. CASE d # c
        BY <1>2, <2>2, <2>3, <4>2 DEF AnswerInv, HandlersAreOwn
      <4> QED
        BY <4>1, <4>2
    <3> QED
      BY <3>1, <3>2 DEF HandlersAreOwn
  <2>5. FreeIdsAreFresh'
    BY <2>2, <2>3 DEF AnswerInv, FreeIdsAreFresh
  <2>6. \A d \in Conns : pending'[d] # NoRequest => Answerable(d)'
    <3> SUFFICES ASSUME NEW d \in Conns, pending'[d] # NoRequest
                 PROVE  Answerable(d)'
      OBVIOUS
    <3>1. CASE d = c
      BY <1>2, <2>1, <2>2, <3>1 DEF Answerable
    <3>2. CASE d # c
      <4>1. pending'[d] = pending[d] /\ pending[d] \in Requests /\ pending[d] # k
        BY <1>2, <1>4, <1>7, <3>2
      <4>2. CASE resObject[pending[d]] = d
        BY <4>1, <4>2 DEF Answerable, k
      <4>3. ASSUME NEW i \in Ids, parked[i] # NoEntry, parked[i].req = pending[d],
                   onAborted[d] = EraseHandler(i),
                   pendingFileProcesses[i] = parked[i] \/ i \in rejected
            PROVE  Answerable(d)'
        BY <2>2, <2>3, <3>2, <4>1, <4>3 DEF Answerable
      <4> QED
        BY <1>2, <3>2, <4>2, <4>3 DEF AnswerInv, Answerable
    <3> QED
      BY <3>1, <3>2
  <2> QED
    BY <1>6, <2>4, <2>5, <2>6 DEF AnswerInv
<1> QED
  BY <1>8, <1>9

LEMMA AnswerQuiet ==
    ASSUME FPInv, AnswerInv, QuietStep, UNCHANGED fileVars
    PROVE  AnswerInv'
<1> DEFINE Still == UNCHANGED <<pending, resObject, onAborted>>
<1>0. /\ TypeOK /\ ObjectInv
      /\ UNCHANGED <<pendingFileProcesses, nextFileProcessId, parked, rejected>>
      /\ arrived' \in {arrived, arrived + 1}
  BY QuietArrives DEF FPInv, FPTypeOK, fileVars
<1>1. ASSUME Still PROVE AnswerInv'
  BY <1>0, <1>1, AnswerFrame
<1>2. ASSUME NEW c \in Conns, RouteHandler(c) PROVE AnswerInv'
  <2>1. /\ RequestOn(c) /\ onAborted' = onAborted
        /\ resObject' = [resObject EXCEPT ![arrived + 1] = c]
    BY <1>2 DEF RouteHandler
  <2>2. arrived + 1 \in Requests
    BY <1>0, <2>1, RequestsAssumption DEF RequestOn, Requests, TypeOK, ConnTypeOK
  <2>3. /\ \A r \in Requests : r # arrived + 1 => resObject'[r] = resObject[r]
        /\ resObject'[arrived + 1] = c
    BY <1>0, <2>1, <2>2 DEF TypeOK, ObjTypeOK
  <2> QED
    BY <1>0, <1>2, <2>1, <2>3, AnswerArrives
<1>3. ASSUME NEW c \in Conns,
             Connect(c) \/ AnswerAtOnce(c) \/ Writable(c) \/ WebSocketClose(c)
      PROVE  AnswerInv'
  BY <1>1, <1>3 DEF Connect, AnswerAtOnce, Writable, WebSocketClose, objVars
<1>4. ASSUME NEW r \in Requests, resObject[r] # NoConn,
             invalidateResObject(r),
             pending' = [pending EXCEPT ![resObject[r]] = NoRequest],
             onAborted' = [onAborted EXCEPT ![resObject[r]] = NoHandler],
             arrived' = arrived
      PROVE  AnswerInv'
  <2> DEFINE c == resObject[r]
  <2>1. c \in Conns /\ pending[c] = r
    BY <1>0, <1>4 DEF ObjectInv, ObjectLeadsToItsRequest, TypeOK, ObjTypeOK
  <2>2. \A q \in Requests : q # r => resObject'[q] = resObject[q]
    BY <1>0, <1>4 DEF invalidateResObject, TypeOK, ObjTypeOK
  <2> HIDE DEF c
  <2> QED
    BY <1>0, <1>4, <2>1, <2>2, AnswerSettle DEF c
<1>5. ASSUME NEW r \in Requests, NEW closes \in BOOLEAN, InvalidateAndRespond(r, closes)
      PROVE  AnswerInv'
  BY <1>4, <1>5 DEF InvalidateAndRespond, getHttpResponse, RespondOn, ForgetAbortHandler
<1>6. ASSUME NEW r \in Requests, ResUpgrade(r) PROVE AnswerInv'
  BY <1>4, <1>6 DEF ResUpgrade, getHttpResponse, ForgetAbortHandler
<1>7. ASSUME NEW r \in Requests,
             ResTryEndPartly(r) \/ ResWriteBackpressure(r) \/ ResOnWritable(r) \/ ResCork(r)
      PROVE  AnswerInv'
  BY <1>1, <1>7 DEF ResTryEndPartly, ResWriteBackpressure, ResOnWritable, ResCork,
     connVars, objVars
<1>8. ASSUME NEW r \in Requests, ResOnAborted(r) PROVE AnswerInv'
  <2> DEFINE c == resObject[r]
  <2>1. /\ c \in Conns /\ pending[c] = r
        /\ onAborted' = [onAborted EXCEPT ![c] = JsHandler(r)]
        /\ resObject[r] = c
        /\ UNCHANGED <<pending, resObject>>
    BY <1>0, <1>8 DEF ResOnAborted, getHttpResponse, ObjectInv, ObjectLeadsToItsRequest,
       TypeOK, ObjTypeOK, objVars
  <2>2. \A d \in Conns : onAborted'[d] = IF d = c THEN JsHandler(r) ELSE onAborted[d]
    BY <1>0, <2>1 DEF TypeOK, ConnTypeOK
  <2> HIDE DEF c
  <2> QED
    BY <1>0, <2>1, <2>2, AnswerFrame
<1>9. CASE HandlerReturn \/ CallbackReturn \/ AppClose
  BY <1>1, <1>9 DEF HandlerReturn, CallbackReturn, AppClose, objVars
<1> QED
  BY <1>2, <1>3, <1>5, <1>6, <1>7, <1>8, <1>9
     DEF QuietStep, ResEnd, ResEndWithoutBody, ResStreamFile, ResSendErrorPage,
         ResSendJSONError, ResTryEndDone

(* A socket is closed: the handler installed on it is of what waited there. *)
LEMMA AnswerCloses ==
    ASSUME FPInv, AnswerInv, NEW c \in Conns, NEW also \in SUBSET Requests, NEW how,
           CloseOn(c, how), RunAbortHandler(c, also), EraseOnAbort(c),
           also \subseteq {pending[c]}, arrived' = arrived
    PROVE  AnswerInv'
<1>1. /\ pending' = [pending EXCEPT ![c] = NoRequest]
      /\ onAborted' = [onAborted EXCEPT ![c] = NoHandler]
      /\ UNCHANGED <<nextFileProcessId, parked, rejected>>
  BY DEF CloseOn, ForgetAbortHandler, EraseOnAbort
<1>2. \A r \in Requests : r # pending[c] => resObject'[r] = resObject[r]
  <2>1. \A r \in Requests : onAborted[c] = JsHandler(r) => r = pending[c]
    BY DEF AnswerInv, HandlersAreOwn
  <2> QED
    BY <2>1 DEF RunAbortHandler
<1>3. \A id \in Ids : \/ pendingFileProcesses'[id] = pendingFileProcesses[id]
                      \/ parked[id] # NoEntry /\ parked[id].req = pending[c]
  <2>1. \A id \in Ids : onAborted[c] = EraseHandler(id) =>
            parked[id] # NoEntry /\ parked[id].req = pending[c]
    BY DEF AnswerInv, HandlersAreOwn
  <2> QED
    BY <2>1 DEF EraseOnAbort
<1> QED
  BY <1>1, <1>2, <1>3, AnswerSettle

LEMMA AnswerClosing ==
    ASSUME FPInv, AnswerInv,
           \/ \E c \in Conns : Disconnect(c) /\ EraseOnAbort(c)
           \/ \E r \in Requests : ResClose(r) /\ EraseOnAbort(resObject[r])
           \/ \E c \in Conns : AppCloseSocket(c) /\ EraseOnAbort(c)
    PROVE  AnswerInv'
<1>1. ASSUME NEW c \in Conns, Disconnect(c) \/ AppCloseSocket(c), EraseOnAbort(c)
      PROVE  AnswerInv'
  <2>1. CloseOn(c, "aborted") /\ RunAbortHandler(c, {}) /\ arrived' = arrived
    BY <1>1 DEF Disconnect, AppCloseSocket
  <2> QED
    BY <1>1, <2>1, AnswerCloses
<1>2. ASSUME NEW r \in Requests, ResClose(r), EraseOnAbort(resObject[r])
      PROVE  AnswerInv'
  <2> DEFINE c == resObject[r]
  <2>1. c \in Conns /\ pending[c] = r
    BY <1>2 DEF ResClose, getHttpResponse, FPInv, FPTypeOK, TypeOK, ObjTypeOK, ObjectInv,
       ObjectLeadsToItsRequest
  <2>2. /\ CloseOn(c, "closed") /\ RunAbortHandler(c, {r}) /\ arrived' = arrived
        /\ EraseOnAbort(c)
    BY <1>2 DEF ResClose
  <2> HIDE DEF c
  <2> QED
    BY <2>1, <2>2, AnswerCloses
<1> QED
  BY <1>1, <1>2

LEMMA AnswerFileStep ==
    ASSUME FPInv, AnswerInv, FileStep
    PROVE  AnswerInv'
<1>1. ASSUME NEW on \in BOOLEAN, RegisterFileProcessor(on) PROVE AnswerInv'
  BY <1>1, AnswerFrame DEF RegisterFileProcessor, vars, connVars, objVars
<1>2. ASSUME NEW c \in Conns, NEW p \in Paths, ServeWithoutProcessor(c, p)
      PROVE  AnswerInv'
  BY <1>2, AnswerQuiet DEF ServeWithoutProcessor, QuietStep
<1>3. ASSUME NEW c \in Conns, NEW p \in Paths, ProcessFile(c, p) PROVE AnswerInv'
  <2> DEFINE id == nextFileProcessId
             entry == [res |-> c, path |-> p, req |-> arrived + 1]
  <2>1. /\ RequestOn(c) /\ nextFileProcessId' = id + 1
        /\ pendingFileProcesses' = [pendingFileProcesses EXCEPT ![id] = entry]
        /\ parked' = [parked EXCEPT ![id] = entry]
        /\ onAborted' = [onAborted EXCEPT ![c] = EraseHandler(id)]
        /\ resObject' = resObject /\ rejected' = rejected
    BY <1>3 DEF ProcessFile, objVars
  <2>2. id \in Ids
    <3>1. id \in Nat /\ arrived \in Nat /\ id <= arrived + 1 /\ id >= 1
      BY RequestsAssumption DEF FPInv, FPTypeOK, TypeOK, ConnTypeOK, IdsAreTaken
    <3>2. arrived < MaxRequests
      BY <2>1 DEF RequestOn
    <3> QED
      BY <3>1, <3>2, RequestsAssumption DEF Ids, Requests
  <2>3. \E i \in Ids, q \in Paths :
            LET e == [res |-> c, path |-> q, req |-> arrived + 1] IN
            /\ i = nextFileProcessId /\ nextFileProcessId' = i + 1
            /\ pendingFileProcesses' = [pendingFileProcesses EXCEPT ![i] = e]
            /\ parked' = [parked EXCEPT ![i] = e]
            /\ onAborted' = [onAborted EXCEPT ![c] = EraseHandler(i)]
    BY <2>1, <2>2
  <2> QED
    BY <2>1, <2>3, AnswerArrives
<1>4. ASSUME NEW id \in Ids, CompleteUnknown(id) PROVE AnswerInv'
  BY <1>4, AnswerFrame DEF CompleteUnknown, vars, connVars, objVars
<1>5. ASSUME NEW id \in Ids, NEW closes \in BOOLEAN, CompleteProcessing(id, closes)
      PROVE  AnswerInv'
  <2> DEFINE entry == pendingFileProcesses[id]
             c == entry.res
  <2>1. /\ entry # NoEntry /\ c \in Conns
        /\ pending[c] = entry.req /\ parked[id] = entry
    BY <1>5, EntryParts DEF CompleteProcessing, FPInv, EntryLeadsToItsRequest
  <2>2. /\ pending' = [pending EXCEPT ![c] = NoRequest]
        /\ onAborted' = [onAborted EXCEPT ![c] = NoHandler]
        /\ UNCHANGED <<arrived, resObject, nextFileProcessId, parked, rejected>>
        /\ pendingFileProcesses' = [pendingFileProcesses EXCEPT ![id] = NoEntry]
    BY <1>5 DEF CompleteProcessing, RespondOn, ForgetAbortHandler
  <2>3. \A i \in Ids : \/ pendingFileProcesses'[i] = pendingFileProcesses[i]
                       \/ parked[i] # NoEntry /\ parked[i].req = pending[c]
    <3>1. \A i \in Ids : i # id => pendingFileProcesses'[i] = pendingFileProcesses[i]
      BY <2>2 DEF FPInv, FPTypeOK
    <3> QED
      BY <2>1, <3>1
  <2>4. \A r \in Requests : r # pending[c] => resObject'[r] = resObject[r]
    BY <2>2
  <2> HIDE DEF c
  <2> QED
    BY <2>1, <2>2, <2>3, <2>4, AnswerSettle
<1>6. ASSUME NEW id \in Ids, CompleteRejected(id) PROVE AnswerInv'
  <2>1. /\ UNCHANGED <<pending, resObject, onAborted, arrived, nextFileProcessId, parked>>
        /\ rejected' = rejected \union {id}
        /\ pendingFileProcesses' = [pendingFileProcesses EXCEPT ![id] = NoEntry]
    BY <1>6 DEF CompleteRejected, vars, connVars, objVars
  <2>2. \A i \in Ids : \/ pendingFileProcesses'[i] = pendingFileProcesses[i]
                       \/ i \in rejected'
    BY <2>1 DEF FPInv, FPTypeOK
  <2> QED
    BY <2>1, <2>2, AnswerFrame
<1> QED
  BY <1>1, <1>2, <1>3, <1>4, <1>5, <1>6 DEF FileStep

LEMMA AnswerNext ==
    ASSUME FPInv, AnswerInv, [FPNext]_fpVars
    PROVE  AnswerInv'
<1>1. CASE QuietStep /\ UNCHANGED fileVars
  BY <1>1, AnswerQuiet
<1>2. CASE FileStep
  BY <1>2, AnswerFileStep
<1>3. CASE UNCHANGED fpVars
  BY <1>3, AnswerFrame DEF fpVars, fileVars, vars, connVars, objVars
<1> QED
  BY <1>1, <1>2, <1>3, AnswerClosing DEF FPNext

LEMMA AnswerInit == FPInit => AnswerInv
BY HandlersDiffer
   DEF FPInit, Init, ConnInit, ObjInit, AnswerInv, RequestsApart, HandlersAreOwn,
       FreeIdsAreFresh, Answerable, NoRequest, Ids

\* As long as no result is refused, no response is left waiting with neither an object
\* nor an entry that could answer it.  One whose result was refused is, and nothing is
\* claimed of who answers it: it keeps the abort handler of its own id, with which the
\* library lets it wait and which a disconnect runs.
\* (fileProcessorHttp, uWS_App_completeProcessing)
THEOREM AnswerSafety ==
    ASSUME CarefulClose
    PROVE  FPSpec => []SomebodyCanAnswer
<1>1. FPInv /\ AnswerInv /\ [FPNext]_fpVars => AnswerInv'
  BY AnswerNext
<1>2. AnswerInv => SomebodyCanAnswer
  BY DEF AnswerInv, SomebodyCanAnswer, Answerable
<1> QED
  BY <1>1, <1>2, AnswerInit, FPInvariant, PTL DEF FPSpec

-------------------------------------------------------------------------------
(* The refinement of RequestLifecycle.  Its handles are the response objects    *)
(* and the entries of the table together; a handle is gone with the request     *)
(* it is for, because the invariants say so of the state after the step.        *)

FileHandles ==
    {r \in Requests : \/ resObject[r] # NoConn
                      \/ \E id \in Ids : /\ pendingFileProcesses[id] # NoEntry
                                         /\ pendingFileProcesses[id].req = r}

PendingWaits == \A c \in Conns : pending[c] # NoRequest => outcome[pending[c]] = "waiting"

CacheFollows ==
    \A id \in Ids :
        LET entry == pendingFileProcesses[id] IN
        entry # NoEntry /\ outcome'[entry.req] = "answered" => entry.path \in fileCache'

(* What a step has to show. *)
FileRefines ==
    /\ FileLifecycle!Next \/ UNCHANGED <<pending, outcome, FileHandles>>
    /\ PendingWaits'
    /\ NotYetArrived'
    /\ CacheFollows

FileRefineInv == FPInv /\ AnswerInv /\ PendingWaits /\ NotYetArrived

(* A handle is on a request that waits somewhere, also after a step. *)
LEMMA HandleWaits ==
    ASSUME FPInv', NEW r \in FileHandles'
    PROVE  \E c \in Conns : pending'[c] = r
<1>1. CASE resObject'[r] # NoConn
  BY <1>1 DEF FPInv, ObjectInv, ObjectLeadsToItsRequest, FPTypeOK, TypeOK, ObjTypeOK,
     FileHandles
<1>2. ASSUME NEW id \in Ids, pendingFileProcesses'[id] # NoEntry,
             pendingFileProcesses'[id].req = r
      PROVE  \E c \in Conns : pending'[c] = r
  <2>1. pendingFileProcesses'[id].res \in Conns
    BY <1>2 DEF FPInv, FPTypeOK, Entries
  <2> QED
    BY <1>2, <2>1 DEF FPInv, EntryLeadsToItsRequest
<1> QED
  BY <1>1, <1>2 DEF FileHandles

(* A parked request waits: it is not answered before a step. *)
LEMMA EntryWaits ==
    ASSUME FileRefineInv, NEW id \in Ids, pendingFileProcesses[id] # NoEntry
    PROVE  /\ pendingFileProcesses[id].req \in Requests
           /\ pendingFileProcesses[id].req <= arrived
           /\ outcome[pendingFileProcesses[id].req] = "waiting"
<1> DEFINE entry == pendingFileProcesses[id]
<1>1. entry.res \in Conns /\ entry.req \in Requests /\ pending[entry.res] = entry.req
  BY EntryParts DEF FileRefineInv, FPInv, EntryLeadsToItsRequest
<1>2. entry.req # NoRequest
  BY <1>1, NoRequestIsNone
<1> HIDE DEF entry
<1>3. entry.req <= arrived /\ outcome[entry.req] = "waiting"
  BY <1>1, <1>2 DEF FileRefineInv, AnswerInv, RequestsApart, PendingWaits
<1> QED
  BY <1>1, <1>3 DEF entry

(* Nothing happens to requests and handles. *)
LEMMA RefineFrame ==
    ASSUME FileRefineInv,
           UNCHANGED <<pending, outcome, arrived, resObject, pendingFileProcesses>>
    PROVE  FileRefines
<1>1. UNCHANGED <<pending, outcome, FileHandles>>
  BY DEF FileHandles
<1>2. PendingWaits' /\ NotYetArrived'
  BY DEF FileRefineInv, PendingWaits, NotYetArrived
<1>3. CacheFollows
  BY EntryWaits DEF CacheFollows
<1> QED
  BY <1>1, <1>2, <1>3 DEF FileRefines

(* Whatever waited at c is over. *)
LEMMA RefineSettle ==
    ASSUME FileRefineInv, FPInv', NEW c \in Conns,
           NEW how \in {"answered", "upgraded", "closed", "aborted"},
           pending' = [pending EXCEPT ![c] = NoRequest],
           outcome' = Settled(c, how),
           arrived' = arrived,
           \A r \in Requests : r # pending[c] => resObject'[r] = resObject[r],
           \A id \in Ids : \/ pendingFileProcesses'[id] = pendingFileProcesses[id]
                           \/ /\ pendingFileProcesses'[id] = NoEntry
                              /\ pendingFileProcesses[id].req = pending[c],
           pending[c] \in FileHandles \/ how = "aborted" \/ pending[c] = NoRequest,
           how = "answered" =>
               \A id \in Ids : pendingFileProcesses[id] # NoEntry
                               /\ pendingFileProcesses[id].req = pending[c] =>
                                   pendingFileProcesses[id].path \in fileCache'
    PROVE  FileRefines
<1> DEFINE r == pending[c]
<1>1. /\ \A d \in Conns : pending'[d] = IF d = c THEN NoRequest ELSE pending[d]
      /\ \A q \in Requests : outcome'[q] = IF q = r THEN how ELSE outcome[q]
      /\ \A d \in Conns : pending[d] \in Requests \union {NoRequest}
      /\ arrived \in Nat
  BY DEF FileRefineInv, FPInv, FPTypeOK, TypeOK, ConnTypeOK, Settled
<1>2. \A d \in Conns : d # c /\ pending[d] # NoRequest => pending[d] # r
  BY DEF FileRefineInv, AnswerInv, RequestsApart
<1>3. PendingWaits'
  BY <1>1, <1>2 DEF FileRefineInv, PendingWaits
<1>4. NotYetArrived'
  <2>1. r <= arrived
    BY DEF FileRefineInv, AnswerInv, RequestsApart
  <2>2. \A q \in Requests : q > arrived => q # r
    BY <1>1, <2>1 DEF Requests, NoRequest
  <2> HIDE DEF r
  <2> QED
    BY <1>1, <2>2 DEF FileRefineInv, NotYetArrived
<1>5. CacheFollows
  BY <1>1, EntryWaits DEF CacheFollows
<1>6. \A q \in Requests \ {r} : q \in FileHandles' <=> q \in FileHandles
  <2> SUFFICES ASSUME NEW q \in Requests, q # r
               PROVE  q \in FileHandles' <=> q \in FileHandles
    OBVIOUS
  <2>1. resObject'[q] = resObject[q]
    OBVIOUS
  <2>2. \A id \in Ids : (pendingFileProcesses'[id] # NoEntry
                            /\ pendingFileProcesses'[id].req = q)
                        <=> (pendingFileProcesses[id] # NoEntry
                            /\ pendingFileProcesses[id].req = q)
    OBVIOUS
  <2> HIDE DEF r
  <2> QED
    BY <2>1, <2>2 DEF FileHandles
<1>7. CASE r = NoRequest
  <2>1. pending' = pending /\ outcome' = outcome
    BY <1>7, NoRequestIsNone
       DEF FileRefineInv, FPInv, FPTypeOK, TypeOK, ConnTypeOK, Settled
  <2>2. FileHandles' = FileHandles
    BY <1>6, <1>7, NoRequestIsNone DEF FileHandles
  <2> QED
    BY <1>3, <1>4, <1>5, <2>1, <2>2 DEF FileRefines
<1>8. CASE r # NoRequest
  <2>1. r \in Requests
    BY <1>1, <1>8
  <2>2. r \notin FileHandles'
    <3>1. \A q \in FileHandles' : \E d \in Conns : pending'[d] = q
      BY HandleWaits
    <3> QED
      BY <1>1, <1>2, <1>8, <3>1
  <2>3. FileHandles' = FileHandles \ {r}
    BY <1>6, <2>2 DEF FileHandles
  <2>4. outcome' = [outcome EXCEPT ![r] = how]
    BY <2>1 DEF FileRefineInv, FPInv, FPTypeOK, TypeOK, ConnTypeOK, Settled
  <2>5. CASE how = "aborted"
    <3>1. FileLifecycle!Abort(c)
      BY <1>8, <2>3, <2>4, <2>5
         DEF FileLifecycle!Abort, FileLifecycle!NoRequest, NoRequest, FileHandles
    <3> QED
      BY <1>3, <1>4, <1>5, <3>1 DEF FileRefines, FileLifecycle!Next
  <2>6. CASE how # "aborted"
    <3>1. FileLifecycle!Settle(c, how)
      BY <1>8, <2>3, <2>4, <2>6
         DEF FileLifecycle!Settle, FileLifecycle!NoRequest, NoRequest, FileHandles
    <3>2. how \in FileLifecycle!BySettling
      BY <2>6 DEF FileLifecycle!BySettling
    <3> QED
      BY <1>3, <1>4, <1>5, <3>1, <3>2 DEF FileRefines, FileLifecycle!Next
  <2> QED
    BY <2>5, <2>6
<1> QED
  BY <1>7, <1>8

(* A request arrives: JavaScript is given an object, or its id is. *)
LEMMA RefineArrives ==
    ASSUME FileRefineInv, NEW c \in Conns, RequestOn(c),
           FileHandles' = FileHandles \union {arrived + 1}
    PROVE  FileRefines
<1>1. PICK r \in Requests : r = arrived + 1
  BY RequestsAssumption
     DEF Requests, RequestOn, FileRefineInv, FPInv, FPTypeOK, TypeOK, ConnTypeOK
<1>2. /\ pending' = [pending EXCEPT ![c] = r]
      /\ outcome' = [outcome EXCEPT ![r] = "waiting"]
      /\ arrived' = r /\ pending[c] = NoRequest
  BY <1>1 DEF RequestOn
<1>3. r > arrived /\ arrived \in Nat
  BY <1>1 DEF FileRefineInv, FPInv, FPTypeOK, TypeOK, ConnTypeOK
<1>4. outcome[r] = "none"
  BY <1>3 DEF FileRefineInv, NotYetArrived
<1>5. \A d \in Conns : pending'[d] = IF d = c THEN r ELSE pending[d]
  BY <1>2 DEF FileRefineInv, FPInv, FPTypeOK, TypeOK, ConnTypeOK
<1>6. \A q \in Requests : outcome'[q] = IF q = r THEN "waiting" ELSE outcome[q]
  BY <1>2 DEF FileRefineInv, FPInv, FPTypeOK, TypeOK, ConnTypeOK
<1>7. \A d \in Conns : pending[d] \in Requests \union {NoRequest}
  BY DEF FileRefineInv, FPInv, FPTypeOK, TypeOK, ConnTypeOK
<1>8. PendingWaits'
  BY <1>5, <1>6, <1>7 DEF FileRefineInv, PendingWaits
<1>9. NotYetArrived'
  <2>1. \A q \in Requests : q > r => q > arrived /\ q # r
    BY <1>1, <1>3 DEF Requests
  <2> QED
    BY <1>2, <1>6, <2>1 DEF FileRefineInv, NotYetArrived
<1>10. CacheFollows
  BY <1>6, EntryWaits DEF CacheFollows
<1>11. FileLifecycle!Arrive(c, r)
  BY <1>1, <1>2, <1>4
     DEF FileLifecycle!Arrive, FileLifecycle!NoRequest, NoRequest, FileHandles
<1> QED
  BY <1>8, <1>9, <1>10, <1>11 DEF FileRefines, FileLifecycle!Next

(* A request is answered as it arrives. *)
LEMMA RefineAtOnce ==
    ASSUME FileRefineInv, NEW c \in Conns, AnswerAtOnce(c), UNCHANGED fileVars
    PROVE  FileRefines
<1>1. PICK r \in Requests : r = arrived + 1
  BY RequestsAssumption
     DEF Requests, AnswerAtOnce, FileRefineInv, FPInv, FPTypeOK, TypeOK, ConnTypeOK
<1>2. /\ pending' = pending
      /\ outcome' = [outcome EXCEPT ![r] = "answered"]
      /\ arrived' = r /\ pending[c] = NoRequest
      /\ UNCHANGED <<resObject, pendingFileProcesses>>
  BY <1>1 DEF AnswerAtOnce, objVars, fileVars
<1>3. r > arrived /\ arrived \in Nat
  BY <1>1 DEF FileRefineInv, FPInv, FPTypeOK, TypeOK, ConnTypeOK
<1>4. outcome[r] = "none"
  BY <1>3 DEF FileRefineInv, NotYetArrived
<1>5. \A q \in Requests : outcome'[q] = IF q = r THEN "answered" ELSE outcome[q]
  BY <1>2 DEF FileRefineInv, FPInv, FPTypeOK, TypeOK, ConnTypeOK
<1>6. PendingWaits'
  <2>1. \A d \in Conns : pending[d] \in Requests \union {NoRequest}
    BY DEF FileRefineInv, FPInv, FPTypeOK, TypeOK, ConnTypeOK
  <2> QED
    BY <1>2, <1>4, <1>5, <2>1 DEF FileRefineInv, PendingWaits
<1>7. NotYetArrived'
  <2>1. \A q \in Requests : q > r => q > arrived /\ q # r
    BY <1>1, <1>3 DEF Requests
  <2> QED
    BY <1>2, <1>5, <2>1 DEF FileRefineInv, NotYetArrived
<1>8. CacheFollows
  <2> SUFFICES ASSUME NEW id \in Ids, pendingFileProcesses[id] # NoEntry
               PROVE  outcome'[pendingFileProcesses[id].req] # "answered"
    BY DEF CacheFollows
  <2> QED
    BY <1>4, <1>5, EntryWaits
<1>9. FileHandles' = FileHandles
  BY <1>2 DEF FileHandles
<1>10. FileLifecycle!AnswerAtOnce(c, r)
  BY <1>2, <1>4, <1>9
     DEF FileLifecycle!AnswerAtOnce, FileLifecycle!NoRequest, NoRequest, FileHandles
<1> QED
  BY <1>6, <1>7, <1>8, <1>10 DEF FileRefines, FileLifecycle!Next

(* A refused result leaves its request without a handle. *)
LEMMA RefineRefused ==
    ASSUME FileRefineInv, NEW id \in Ids, CompleteRejected(id)
    PROVE  FileRefines
<1> DEFINE entry == pendingFileProcesses[id]
           r == entry.req
<1>1. /\ pendingFileProcesses' = [pendingFileProcesses EXCEPT ![id] = NoEntry]
      /\ UNCHANGED <<pending, outcome, arrived, resObject>>
      /\ entry # NoEntry
  BY DEF CompleteRejected, vars, connVars, objVars
<1>2. entry.res \in Conns /\ r \in Requests /\ pending[entry.res] = r /\ r # NoRequest
  BY <1>1, EntryParts, NoRequestIsNone DEF FileRefineInv, FPInv, EntryLeadsToItsRequest
<1>3. \A i \in Ids : i # id /\ pendingFileProcesses[i] # NoEntry =>
          pendingFileProcesses[i].req # r
  <2> SUFFICES ASSUME NEW i \in Ids, i # id, pendingFileProcesses[i] # NoEntry,
                      pendingFileProcesses[i].req = r
               PROVE  FALSE
    OBVIOUS
  <2>1. /\ pendingFileProcesses[i].res \in Conns
        /\ pending[pendingFileProcesses[i].res] = r
    BY EntryParts DEF FileRefineInv, FPInv, EntryLeadsToItsRequest
  <2>2. pendingFileProcesses[i].res = entry.res
    BY <1>2, <2>1 DEF FileRefineInv, AnswerInv, RequestsApart
  <2> QED
    BY <1>1, <2>2, EntriesApart DEF FileRefineInv, FPInv
<1>4. resObject[r] = NoConn
  <2> SUFFICES ASSUME resObject[r] # NoConn PROVE FALSE
    OBVIOUS
  <2>1. resObject[r] \in Conns /\ pending[resObject[r]] = r
    BY <1>2 DEF FileRefineInv, FPInv, ObjectInv, ObjectLeadsToItsRequest, FPTypeOK,
       TypeOK, ObjTypeOK
  <2>2. resObject[r] = entry.res
    BY <1>2, <2>1 DEF FileRefineInv, AnswerInv, RequestsApart
  <2> QED
    BY <1>1, <1>2, <2>2, EntryHasNoObject DEF FileRefineInv, FPInv
<1>5. r \in FileHandles
  BY <1>1, <1>2 DEF FileHandles
<1>6. \A i \in Ids : pendingFileProcesses'[i] = IF i = id THEN NoEntry
                                                ELSE pendingFileProcesses[i]
  BY <1>1 DEF FileRefineInv, FPInv, FPTypeOK
<1> HIDE DEF r
<1>7. FileHandles' = FileHandles \ {r}
  <2>1. \A q \in Requests : q # r => (q \in FileHandles' <=> q \in FileHandles)
    BY <1>1, <1>6 DEF FileHandles, r
  <2>2. r \notin FileHandles'
    BY <1>1, <1>2, <1>3, <1>4, <1>6 DEF FileHandles
  <2> QED
    BY <2>1, <2>2 DEF FileHandles
<1>8. FileLifecycle!Next
  <2>1. PICK q \in Requests : q = r
    BY <1>2 DEF r
  <2>2. FileLifecycle!Abandon(q)
    BY <1>1, <1>5, <1>7, <2>1 DEF FileLifecycle!Abandon, FileHandles
  <2> QED
    BY <2>2 DEF FileLifecycle!Next
<1>9. PendingWaits' /\ NotYetArrived'
  BY <1>1 DEF FileRefineInv, PendingWaits, NotYetArrived
<1>10. CacheFollows
  BY <1>1, EntryWaits DEF CacheFollows
<1> QED
  BY <1>8, <1>9, <1>10 DEF FileRefines

LEMMA RefineQuiet ==
    ASSUME FileRefineInv, FPInv', QuietStep, UNCHANGED fileVars
    PROVE  FileRefines
<1>0. /\ TypeOK /\ ObjectInv /\ UNCHANGED pendingFileProcesses
  BY DEF FileRefineInv, FPInv, FPTypeOK, fileVars
<1>1. ASSUME NEW c \in Conns, RouteHandler(c) PROVE FileRefines
  <2>1. /\ RequestOn(c)
        /\ resObject' = [resObject EXCEPT ![arrived + 1] = c]
        /\ c # NoConn
    BY <1>1, ConnsAssumption DEF RouteHandler
  <2>2. arrived + 1 \in Requests
    BY <1>0, <2>1, RequestsAssumption DEF RequestOn, Requests, TypeOK, ConnTypeOK
  <2>3. \A r \in Requests : resObject'[r] = IF r = arrived + 1 THEN c ELSE resObject[r]
    BY <1>0, <2>1 DEF TypeOK, ObjTypeOK
  <2>4. FileHandles' = FileHandles \union {arrived + 1}
    BY <1>0, <2>1, <2>2, <2>3 DEF FileHandles
  <2> QED
    BY <2>1, <2>4, RefineArrives
<1>2. ASSUME NEW c \in Conns, AnswerAtOnce(c) PROVE FileRefines
  BY <1>2, RefineAtOnce
<1>3. ASSUME NEW c \in Conns, Connect(c) \/ Writable(c) \/ WebSocketClose(c)
      PROVE  FileRefines
  BY <1>0, <1>3, RefineFrame DEF Connect, Writable, WebSocketClose, objVars
<1>4. ASSUME NEW r \in Requests, NEW how \in {"answered", "upgraded"},
             resObject[r] # NoConn, invalidateResObject(r),
             pending' = [pending EXCEPT ![resObject[r]] = NoRequest],
             outcome' = Settled(resObject[r], how),
             arrived' = arrived
      PROVE  FileRefines
  <2> DEFINE c == resObject[r]
  <2>1. c \in Conns /\ pending[c] = r /\ r \in FileHandles
    BY <1>0, <1>4 DEF ObjectInv, ObjectLeadsToItsRequest, TypeOK, ObjTypeOK, FileHandles
  <2>2. \A q \in Requests : q # r => resObject'[q] = resObject[q]
    BY <1>0, <1>4 DEF invalidateResObject, TypeOK, ObjTypeOK
  <2>3. \A id \in Ids : pendingFileProcesses[id] # NoEntry =>
            pendingFileProcesses[id].req # r
    <3> SUFFICES ASSUME NEW id \in Ids, pendingFileProcesses[id] # NoEntry,
                        pendingFileProcesses[id].req = r
                 PROVE  FALSE
      OBVIOUS
    <3>1. /\ pendingFileProcesses[id].res \in Conns
          /\ pending[pendingFileProcesses[id].res] = r
      BY EntryParts DEF FileRefineInv, FPInv, EntryLeadsToItsRequest
    <3>2. pendingFileProcesses[id].res = c
      BY <2>1, <3>1, NoRequestIsNone DEF FileRefineInv, AnswerInv, RequestsApart
    <3> QED
      BY <3>2, EntryHasNoObject DEF FileRefineInv, FPInv
  <2> HIDE DEF c
  <2> QED
    BY <1>0, <1>4, <2>1, <2>2, <2>3, RefineSettle DEF c
<1>5. ASSUME NEW r \in Requests, NEW closes \in BOOLEAN, InvalidateAndRespond(r, closes)
      PROVE  FileRefines
  BY <1>4, <1>5 DEF InvalidateAndRespond, getHttpResponse, RespondOn
<1>6. ASSUME NEW r \in Requests, ResUpgrade(r) PROVE FileRefines
  BY <1>4, <1>6 DEF ResUpgrade, getHttpResponse
<1>7. ASSUME NEW r \in Requests,
             \/ ResTryEndPartly(r) \/ ResWriteBackpressure(r) \/ ResOnWritable(r)
             \/ ResOnAborted(r) \/ ResCork(r)
      PROVE  FileRefines
  BY <1>0, <1>7, RefineFrame
     DEF ResTryEndPartly, ResWriteBackpressure, ResOnWritable, ResOnAborted, ResCork,
         connVars, objVars
<1>8. CASE HandlerReturn \/ CallbackReturn \/ AppClose
  BY <1>0, <1>8, RefineFrame DEF HandlerReturn, CallbackReturn, AppClose, objVars
<1> QED
  BY <1>1, <1>2, <1>3, <1>5, <1>6, <1>7, <1>8
     DEF QuietStep, ResEnd, ResEndWithoutBody, ResStreamFile, ResSendErrorPage,
         ResSendJSONError, ResTryEndDone

(* A socket is closed. *)
LEMMA RefineCloses ==
    ASSUME FileRefineInv, FPInv', NEW c \in Conns, NEW also \in SUBSET Requests,
           NEW how \in {"closed", "aborted"},
           CloseOn(c, how), RunAbortHandler(c, also), EraseOnAbort(c),
           also \subseteq {pending[c]}, arrived' = arrived,
           how = "closed" => pending[c] \in FileHandles
    PROVE  FileRefines
<1>1. pending' = [pending EXCEPT ![c] = NoRequest] /\ outcome' = Settled(c, how)
  BY DEF CloseOn
<1>2. \A r \in Requests : r # pending[c] => resObject'[r] = resObject[r]
  <2>1. \A r \in Requests : onAborted[c] = JsHandler(r) => r = pending[c]
    BY DEF FileRefineInv, AnswerInv, HandlersAreOwn
  <2> QED
    BY <2>1 DEF RunAbortHandler
<1>3. \A id \in Ids : \/ pendingFileProcesses'[id] = pendingFileProcesses[id]
                      \/ /\ pendingFileProcesses'[id] = NoEntry
                         /\ pendingFileProcesses[id].req = pending[c]
  <2> SUFFICES ASSUME NEW id \in Ids, onAborted[c] = EraseHandler(id),
                      pendingFileProcesses[id] # NoEntry
               PROVE  pendingFileProcesses[id].req = pending[c]
    BY DEF EraseOnAbort
  <2>1. parked[id].req = pending[c] /\ parked[id] = pendingFileProcesses[id]
    BY DEF FileRefineInv, AnswerInv, HandlersAreOwn, FPInv, EntryLeadsToItsRequest
  <2> QED
    BY <2>1
<1>4. pending[c] \in FileHandles \/ how = "aborted" \/ pending[c] = NoRequest
  OBVIOUS
<1> QED
  BY <1>1, <1>2, <1>3, <1>4, RefineSettle

LEMMA RefineClosing ==
    ASSUME FileRefineInv, FPInv',
           \/ \E c \in Conns : Disconnect(c) /\ EraseOnAbort(c)
           \/ \E r \in Requests : ResClose(r) /\ EraseOnAbort(resObject[r])
           \/ \E c \in Conns : AppCloseSocket(c) /\ EraseOnAbort(c)
    PROVE  FileRefines
<1>1. ASSUME NEW c \in Conns, Disconnect(c) \/ AppCloseSocket(c), EraseOnAbort(c)
      PROVE  FileRefines
  <2>1. CloseOn(c, "aborted") /\ RunAbortHandler(c, {}) /\ arrived' = arrived
    BY <1>1 DEF Disconnect, AppCloseSocket
  <2> QED
    BY <1>1, <2>1, RefineCloses
<1>2. ASSUME NEW r \in Requests, ResClose(r), EraseOnAbort(resObject[r])
      PROVE  FileRefines
  <2> DEFINE c == resObject[r]
  <2>1. c \in Conns /\ pending[c] = r /\ r \in FileHandles
    BY <1>2 DEF ResClose, getHttpResponse, FileRefineInv, FPInv, FPTypeOK, TypeOK,
       ObjTypeOK, ObjectInv, ObjectLeadsToItsRequest, FileHandles
  <2>2. /\ CloseOn(c, "closed") /\ RunAbortHandler(c, {r}) /\ arrived' = arrived
        /\ EraseOnAbort(c)
    BY <1>2 DEF ResClose
  <2> HIDE DEF c
  <2> QED
    BY <2>1, <2>2, RefineCloses
<1> QED
  BY <1>1, <1>2

LEMMA RefineFileStep ==
    ASSUME FileRefineInv, FPInv', FileStep
    PROVE  FileRefines
<1>1. ASSUME NEW on \in BOOLEAN, RegisterFileProcessor(on) PROVE FileRefines
  BY <1>1, RefineFrame DEF RegisterFileProcessor, vars, connVars, objVars
<1>2. ASSUME NEW c \in Conns, NEW p \in Paths, ServeWithoutProcessor(c, p)
      PROVE  FileRefines
  BY <1>2, RefineAtOnce DEF ServeWithoutProcessor
<1>3. ASSUME NEW c \in Conns, NEW p \in Paths, ProcessFile(c, p) PROVE FileRefines
  <2> DEFINE id == nextFileProcessId
             entry == [res |-> c, path |-> p, req |-> arrived + 1]
  <2>1. /\ RequestOn(c) /\ resObject' = resObject
        /\ pendingFileProcesses' = [pendingFileProcesses EXCEPT ![id] = entry]
    BY <1>3 DEF ProcessFile, objVars
  <2>2. id \in Ids /\ arrived + 1 \in Requests
    <3>1. id \in Nat /\ arrived \in Nat /\ id <= arrived + 1 /\ id >= 1
      BY RequestsAssumption
         DEF FileRefineInv, FPInv, FPTypeOK, TypeOK, ConnTypeOK, IdsAreTaken
    <3>2. arrived < MaxRequests
      BY <2>1 DEF RequestOn
    <3> QED
      BY <3>1, <3>2, RequestsAssumption DEF Ids, Requests
  <2>3. pendingFileProcesses[id] = NoEntry
    <3>1. id \in Nat /\ parked[id] = NoEntry
      BY <2>2 DEF FileRefineInv, AnswerInv, FreeIdsAreFresh, Ids, Requests
    <3> QED
      BY <2>2, <3>1 DEF FileRefineInv, FPInv, EntryLeadsToItsRequest
  <2>4. entry # NoEntry /\ entry.req = arrived + 1
    BY <2>2, EntryAssumption DEF Entries
  <2>5. \A i \in Ids : pendingFileProcesses'[i] = IF i = id THEN entry
                                                  ELSE pendingFileProcesses[i]
    BY <2>1 DEF FileRefineInv, FPInv, FPTypeOK
  <2> HIDE DEF id, entry
  <2>6. FileHandles' = FileHandles \union {arrived + 1}
    BY <2>1, <2>2, <2>3, <2>4, <2>5 DEF FileHandles
  <2> QED
    BY <2>1, <2>6, RefineArrives
<1>4. ASSUME NEW id \in Ids, CompleteUnknown(id) PROVE FileRefines
  BY <1>4, RefineFrame DEF CompleteUnknown, vars, connVars, objVars
<1>5. ASSUME NEW id \in Ids, NEW closes \in BOOLEAN, CompleteProcessing(id, closes)
      PROVE  FileRefines
  <2> DEFINE entry == pendingFileProcesses[id]
             c == entry.res
  <2>1. /\ entry # NoEntry /\ c \in Conns /\ entry.req \in Requests
        /\ pending[c] = entry.req
    BY <1>5, EntryParts DEF CompleteProcessing, FileRefineInv, FPInv,
       EntryLeadsToItsRequest
  <2>2. /\ pending' = [pending EXCEPT ![c] = NoRequest]
        /\ outcome' = Settled(c, "answered")
        /\ UNCHANGED <<arrived, resObject>>
        /\ pendingFileProcesses' = [pendingFileProcesses EXCEPT ![id] = NoEntry]
        /\ fileCache' = fileCache \union {entry.path}
    BY <1>5 DEF CompleteProcessing, RespondOn
  <2>3. \A i \in Ids : \/ pendingFileProcesses'[i] = pendingFileProcesses[i]
                       \/ /\ pendingFileProcesses'[i] = NoEntry
                          /\ pendingFileProcesses[i].req = pending[c]
    <3>1. \A i \in Ids : pendingFileProcesses'[i] = IF i = id THEN NoEntry
                                                    ELSE pendingFileProcesses[i]
      BY <2>2 DEF FileRefineInv, FPInv, FPTypeOK
    <3> QED
      BY <2>1, <3>1
  <2>4. \A i \in Ids : pendingFileProcesses[i] # NoEntry
                       /\ pendingFileProcesses[i].req = pending[c] => i = id
    <3> SUFFICES ASSUME NEW i \in Ids, pendingFileProcesses[i] # NoEntry,
                        pendingFileProcesses[i].req = pending[c]
                 PROVE  i = id
      OBVIOUS
    <3>1. /\ pendingFileProcesses[i].res \in Conns
          /\ pending[pendingFileProcesses[i].res] = pending[c]
      BY EntryParts DEF FileRefineInv, FPInv, EntryLeadsToItsRequest
    <3>2. pendingFileProcesses[i].res = c
      BY <2>1, <3>1, NoRequestIsNone DEF FileRefineInv, AnswerInv, RequestsApart
    <3> QED
      BY <2>1, <3>2, EntriesApart DEF FileRefineInv, FPInv
  <2>5. \A i \in Ids : pendingFileProcesses[i] # NoEntry
                       /\ pendingFileProcesses[i].req = pending[c] =>
                            pendingFileProcesses[i].path \in fileCache'
    BY <2>2, <2>4
  <2>6. pending[c] \in FileHandles
    BY <2>1 DEF FileHandles
  <2>7. \A r \in Requests : r # pending[c] => resObject'[r] = resObject[r]
    BY <2>2
  <2> HIDE DEF c
  <2> QED
    BY <2>1, <2>2, <2>3, <2>5, <2>6, <2>7, RefineSettle
<1>6. ASSUME NEW id \in Ids, CompleteRejected(id) PROVE FileRefines
  BY <1>6, RefineRefused
<1> QED
  BY <1>1, <1>2, <1>3, <1>4, <1>5, <1>6 DEF FileStep

LEMMA RefineNext ==
    ASSUME FileRefineInv, FPInv', [FPNext]_fpVars
    PROVE  FileRefines
<1>1. CASE QuietStep /\ UNCHANGED fileVars
  BY <1>1, RefineQuiet
<1>2. CASE FileStep
  BY <1>2, RefineFileStep
<1>3. CASE UNCHANGED fpVars
  BY <1>3, RefineFrame DEF fpVars, fileVars, vars, connVars, objVars
<1> QED
  BY <1>1, <1>2, <1>3, RefineClosing DEF FPNext

LEMMA RefineInvariant ==
    ASSUME CarefulClose
    PROVE  FPSpec => []FileRefineInv
<1>1. FPInit => FileRefineInv
  <2>1. FPInit => PendingWaits /\ NotYetArrived
    BY DEF FPInit, Init, ConnInit, PendingWaits, NotYetArrived
  <2> QED
    BY <2>1, FPInvInit, AnswerInit DEF FileRefineInv
<1>2. FileRefineInv /\ [FPNext]_fpVars => FileRefineInv'
  BY FPInvNext, AnswerNext, RefineNext DEF FileRefineInv, FileRefines
<1> QED
  BY <1>1, <1>2, PTL DEF FPSpec

\* Response objects and table entries together implement RequestLifecycle: a request
\* of either kind is settled at most once, and only by whoever has its handle.
\* (HttpResponseWrapper, fileProcessorHttp, uWS_App_completeProcessing)
THEOREM FileRefinement ==
    ASSUME CarefulClose
    PROVE  FPSpec => FileImplementsLifecycle
<1>1. FPInit => FileLifecycle!Init
  BY DEF FPInit, Init, ConnInit, ObjInit, FileLifecycle!Init, FileLifecycle!NoRequest,
     NoRequest
<1>2. FileRefineInv /\ [FPNext]_fpVars => [FileLifecycle!Next]_(FileLifecycle!vars)
  <2>1. FileRefineInv /\ [FPNext]_fpVars => FileRefines
    BY FPInvNext, RefineNext DEF FileRefineInv
  <2> QED
    BY <2>1 DEF FileRefines, FileHandles, FileLifecycle!vars
<1> QED
  BY <1>1, <1>2, RefineInvariant, PTL DEF FileImplementsLifecycle, FileLifecycle!Spec, FPSpec

\* Whenever a parked request is answered, the file it asked for is cached.
\* (uWS_App_completeProcessing)
THEOREM CacheSafety ==
    ASSUME CarefulClose
    PROVE  FPSpec => AnsweredFromCache
<1>1. FileRefineInv /\ [FPNext]_fpVars => [CacheFollows]_fpVars
  BY FPInvNext, RefineNext DEF FileRefineInv, FileRefines
<1>2. [CacheFollows]_fpVars => [\A id \in Ids :
        LET entry == pendingFileProcesses[id] IN
        entry # NoEntry /\ outcome'[entry.req] = "answered" =>
            entry.path \in fileCache']_fpVars
  BY DEF CacheFollows
<1> QED
  BY <1>1, <1>2, RefineInvariant, PTL DEF AnsweredFromCache, FPSpec
===============================================================================
