-------------------------------- MODULE KVStore --------------------------------
(***************************************************************************)
(* The key value store of addon.cpp: maps of maps that every thread of the *)
(* process shares, and one mutex that only JavaScript locks and unlocks.   *)
(*                                                                         *)
(* The string store and the integer store have the same operations on maps *)
(* of the same shape; this is the integer one, which also has a width.  An *)
(* empty collection is the same here as none: the code tells them apart    *)
(* only by the length of an array of keys, which is left out.              *)
(*                                                                         *)
(* An operation enters the maps, looks its key up, and changes them as it  *)
(* leaves: one of two that were inside at the same time could undo what    *)
(* the other did.                                                          *)
(*                                                                         *)
(* JavaScript calls what it likes, when it likes.  Nothing in the code     *)
(* keeps it from an operation without the mutex, from locking twice, from  *)
(* unlocking what another thread has locked, or from ending a thread that  *)
(* has the mutex: a thread that does one of these is careless from then on. *)
(***************************************************************************)
EXTENDS Integers

CONSTANTS
    Threads,      \* threads that run JavaScript
    NoThread,     \* nobody
    Collections,  \* names of collections
    Keys,         \* names of keys
    Absent,       \* no value
    Numbers,      \* integers JavaScript passes
    Half,         \* integers are 0 .. 2 * Half - 1 here; 2^31 in the code
    MaxMeant      \* bound: counters stay within -MaxMeant .. MaxMeant

ASSUME ThreadsAssumption == NoThread \notin Threads
ASSUME AbsentAssumption  == Absent \notin Int
ASSUME NumbersAssumption == Numbers \subseteq Int
ASSUME HalfAssumption    == Half \in Nat \ {0}
ASSUME MeantAssumption   == MaxMeant \in Nat

VARIABLES
    kvStoreInteger,  \* the value of each key of each collection
    kvMutex,         \* the thread that has locked the mutex
    inside,          \* the operation each thread is inside of
    seen,            \* the value each thread has looked up
    result,          \* the last integer each thread was given
    waiting,         \* threads inside of lock()
    ended,           \* threads that have ended
    held,            \* threads that have locked and not unlocked since (history)
    careless,        \* threads that have misused the store (history)
    meant            \* the counters as unbounded integers (history)

mapVars  == <<kvStoreInteger, inside, seen, result, meant>>
lockVars == <<kvMutex, waiting, ended, held>>
vars     == <<mapVars, lockVars, careless>>

Places == Collections \X Keys

OnKey        == [name : {"get", "delete"}, at : Places]
WithInteger  == [name : {"set", "inc"}, at : Places, by : Numbers]
OnCollection == [name : {"getKeys", "deleteCollection"}, of : Collections]
Operations   == OnKey \union WithInteger \union OnCollection

NoOperation == [name |-> "none"]

(* JavaScript's integer becomes a uint32_t; a uint32_t becomes an int32_t. *)
ToUint32(n) == n % (2 * Half)
ToInt32(u)  == IF u < Half THEN u ELSE u - 2 * Half

\* Every variable has its type: what is stored is a uint32_t, what JavaScript
\* is given an int32_t.
TypeOK ==
    /\ kvStoreInteger \in [Places -> (0 .. 2 * Half - 1) \union {Absent}]
    /\ kvMutex \in Threads \union {NoThread}
    /\ inside \in [Threads -> Operations \union {NoOperation}]
    /\ seen \in [Threads -> 0 .. 2 * Half - 1]
    /\ result \in [Threads -> -Half .. Half - 1]
    /\ waiting \in SUBSET Threads
    /\ ended \in SUBSET Threads
    /\ held \in SUBSET Threads
    /\ careless \in SUBSET Threads
    /\ meant \in [Places -> Int]

Init ==
    /\ kvStoreInteger = [x \in Places |-> Absent]
    /\ kvMutex = NoThread
    /\ inside = [t \in Threads |-> NoOperation]
    /\ seen = [t \in Threads |-> 0]
    /\ result = [t \in Threads |-> 0]
    /\ waiting = {}
    /\ ended = {}
    /\ held = {}
    /\ careless = {}
    /\ meant = [x \in Places |-> 0]

-------------------------------------------------------------------------------
(* A thread that runs JavaScript and is not inside of a call. *)
Runs(t) == t \notin ended \union waiting /\ inside[t] = NoOperation

(* What JavaScript does in t is a mistake if this holds. *)
Misuse(t, wrong) == careless' = IF wrong THEN careless \union {t} ELSE careless

(* lock() blocks the thread, and its event loop with it. *)
lock(t) ==
    /\ Runs(t)
    /\ Misuse(t, t \in held)
    /\ waiting' = waiting \union {t}
    /\ UNCHANGED <<mapVars, kvMutex, ended, held>>

(* A definition whose name ends in an underscore and a word is a mistake. *)
LockReturns_busy(t) ==
    /\ t \in waiting
    /\ waiting' = waiting \ {t}
    /\ kvMutex' = t
    /\ held' = held \union {t}
    /\ UNCHANGED <<mapVars, ended, careless>>

(* lock() returns with the mutex once that is free.  A std::mutex does not    *)
(* know its thread: it is not free for the one that has locked it either.     *)
LockReturns(t) ==
    /\ t \in waiting
    /\ kvMutex = NoThread
    /\ waiting' = waiting \ {t}
    /\ kvMutex' = t
    /\ held' = held \union {t}
    /\ UNCHANGED <<mapVars, ended, careless>>

unlock_keeps(t) ==
    /\ Runs(t)
    /\ Misuse(t, t \notin held)
    /\ held' = held \ {t}
    /\ UNCHANGED <<mapVars, kvMutex, waiting, ended>>

(* Unlocking what another thread has locked is undefined; what the mutexes of  *)
(* the platforms do is to release it all the same.                            *)
unlock(t) ==
    /\ Runs(t)
    /\ Misuse(t, t \notin held)
    /\ kvMutex' = NoThread
    /\ held' = held \ {t}
    /\ UNCHANGED <<mapVars, waiting, ended>>

(* A thread ends between two calls; a mutex it has locked stays locked. *)
ThreadEnds(t) ==
    /\ Runs(t)
    /\ Misuse(t, t \in held)
    /\ ended' = ended \union {t}
    /\ UNCHANGED <<mapVars, kvMutex, waiting, held>>

(* Looking a key up; what is not there is zero. *)
LookUp(x) == IF kvStoreInteger[x] = Absent THEN 0 ELSE kvStoreInteger[x]

(* Two threads inside of the maps that carelessness has let in there together *)
(* are undefined behaviour, which is not followed.                            *)
Enter(t, op) ==
    /\ Runs(t)
    /\ Misuse(t, t \notin held)
    /\ careless' # {} => \A u \in Threads : inside[u] = NoOperation
    /\ inside' = [inside EXCEPT ![t] = op]
    /\ seen' = [seen EXCEPT ![t] = IF op \in OnCollection THEN 0 ELSE LookUp(op.at)]
    /\ UNCHANGED <<kvStoreInteger, result, meant, lockVars>>

(* The operation of t ends. *)
Leaves(t, name) ==
    /\ inside[t].name = name
    /\ inside' = [inside EXCEPT ![t] = NoOperation]
    /\ seen' = [seen EXCEPT ![t] = 0]
    /\ UNCHANGED <<lockVars, careless>>

-------------------------------------------------------------------------------
(* A key that was read exists from then on. *)
getInteger_unsigned(t) ==
    /\ Leaves(t, "get")
    /\ kvStoreInteger' = [kvStoreInteger EXCEPT ![inside[t].at] = seen[t]]
    /\ result' = [result EXCEPT ![t] = seen[t]]
    /\ UNCHANGED meant

getInteger(t) ==
    /\ Leaves(t, "get")
    /\ kvStoreInteger' = [kvStoreInteger EXCEPT ![inside[t].at] = seen[t]]
    /\ result' = [result EXCEPT ![t] = ToInt32(seen[t])]
    /\ UNCHANGED meant

setInteger(t) ==
    LET op == inside[t] IN
    /\ Leaves(t, "set")
    /\ op.by \in -MaxMeant .. MaxMeant
    /\ kvStoreInteger' = [kvStoreInteger EXCEPT ![op.at] = ToUint32(op.by)]
    /\ meant' = [meant EXCEPT ![op.at] = op.by]
    /\ UNCHANGED result

(* What an increment stores and what it returns. *)
Increments(t, stored, returned) ==
    LET op == inside[t] IN
    /\ Leaves(t, "inc")
    /\ meant[op.at] + op.by \in -MaxMeant .. MaxMeant
    /\ kvStoreInteger' = [kvStoreInteger EXCEPT ![op.at] = stored]
    /\ result' = [result EXCEPT ![t] = ToInt32(returned)]
    /\ meant' = [meant EXCEPT ![op.at] = @ + op.by]

incInteger_post(t) ==
    Increments(t, ToUint32(seen[t] + inside[t].by), seen[t])

incInteger_saturates(t) ==
    LET sum   == seen[t] + ToUint32(inside[t].by)
        value == IF sum > 2 * Half - 1 THEN 2 * Half - 1 ELSE sum IN
    Increments(t, value, value)

(* The sum wraps, and JavaScript is given the new value. *)
incInteger(t) ==
    LET value == ToUint32(seen[t] + inside[t].by) IN
    Increments(t, value, value)

deleteInteger(t) ==
    /\ Leaves(t, "delete")
    /\ kvStoreInteger' = [kvStoreInteger EXCEPT ![inside[t].at] = Absent]
    /\ meant' = [meant EXCEPT ![inside[t].at] = 0]
    /\ UNCHANGED result

(* Walks over the collection, and inserts it if need be. *)
getIntegerKeys(t) ==
    /\ Leaves(t, "getKeys")
    /\ UNCHANGED <<kvStoreInteger, result, meant>>

deleteIntegerCollection(t) ==
    LET gone(x) == x[1] = inside[t].of IN
    /\ Leaves(t, "deleteCollection")
    /\ kvStoreInteger' =
            [x \in Places |-> IF gone(x) THEN Absent ELSE kvStoreInteger[x]]
    /\ meant' = [x \in Places |-> IF gone(x) THEN 0 ELSE meant[x]]
    /\ UNCHANGED result

Next ==
    \E t \in Threads :
        \/ lock(t)
        \/ LockReturns(t)
        \/ unlock(t)
        \/ ThreadEnds(t)
        \/ \E op \in Operations : Enter(t, op)
        \/ getInteger(t)
        \/ setInteger(t)
        \/ incInteger(t)
        \/ deleteInteger(t)
        \/ getIntegerKeys(t)
        \/ deleteIntegerCollection(t)

Spec == Init /\ [][Next]_vars

-------------------------------------------------------------------------------
(* Without a lock in C++, two threads are kept out of the same map only by   *)
(* what JavaScript does.  As long as it locks and unlocks with care:         *)

Careful == careless = {}

\* At most one thread is inside the maps, reading operations included: they
\* insert what they look for.
AtMostOneInside ==
    Careful => \A t, u \in Threads :
        inside[t] # NoOperation /\ inside[u] # NoOperation => t = u

\* No update of a counter is lost, whatever threads do to it while none of them
\* has been careless: it is what the same operations make of an unbounded
\* integer, up to the width.  (uWS_incInteger, uWS_lock, uWS_unlock)
CountersExact ==
    Careful => \A x \in Places :
        IF kvStoreInteger[x] = Absent
        THEN meant[x] = 0
        ELSE kvStoreInteger[x] = ToUint32(meant[x])

\* While nobody has been careless, JavaScript is given the counter itself, negative
\* ones too, as long as it fits 32 bits with a sign, also if it did not fit in
\* between.  (uWS_getInteger, uWS_incInteger)
SmallCountersReadExactly ==
    [][Careful => \A t \in Threads :
        inside[t].name \in {"get", "inc"} /\ inside'[t] = NoOperation
            => LET counter == meant'[inside[t].at] IN
               counter \in -Half .. Half - 1 => result'[t] = counter]_vars

\* Whoever waits for the mutex waits for a thread that can still unlock it, unless
\* that very thread has been careless: it waits for itself, or has ended without
\* unlocking.  No carelessness of others blocks the event loops of all threads for
\* good.  (uWS_lock, uWS_unlock)
WaitersAreNotStranded ==
    waiting # {} /\ kvMutex \in waiting \union ended => kvMutex \in careless
===============================================================================
