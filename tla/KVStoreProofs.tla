---------------------------- MODULE KVStoreProofs ----------------------------
(***************************************************************************)
(* Theorems about KVStore: its types; that counters are exact as long as   *)
(* nobody has been careless; and who can strand the threads that wait for  *)
(* the mutex: for any number of threads, any collections and keys, and     *)
(* integers of any width.                                                  *)
(***************************************************************************)
EXTENDS KVStore, TLAPS

USE ThreadsAssumption, AbsentAssumption, NumbersAssumption, HalfAssumption,
    MeantAssumption

Uint32 == 0 .. 2 * Half - 1

(* A conversion gives an integer of the width. *)
LEMMA Uint32Range == \A n \in Int : ToUint32(n) \in Uint32
  BY DEF ToUint32, Uint32

LEMMA Int32Range == \A u \in Uint32 : ToInt32(u) \in -Half .. Half - 1
  BY DEF ToInt32, Uint32

(* What fits the width is left as it is. *)
LEMMA ZeroToUint32 == ToUint32(0) = 0
  BY DEF ToUint32

LEMMA SmallToUint32 ==
    \A u \in Uint32 : ToUint32(u) = u
  BY DEF ToUint32, Uint32

(* Division: quotient and remainder, and that there is only one of each. *)
LEMMA Division ==
    ASSUME NEW n \in Int, NEW w \in Nat \ {0}
    PROVE  /\ n \div w \in Int
           /\ n % w \in 0 .. w - 1
           /\ n = w * (n \div w) + (n % w)
  OBVIOUS

LEMMA ProductApart ==
    ASSUME NEW w \in Nat \ {0}, NEW d \in Int, d # 0
    PROVE  w * d >= w \/ w * d <= - w
  <1>1. CASE d >= 1
    <2>1. PICK e \in Nat : d = e + 1
      BY <1>1
    <2>2. w * d = w * e + w /\ w * e >= 0
      BY <2>1
    <2> QED
      BY <2>2
  <1>2. CASE d <= -1
    <2>1. PICK e \in Nat : d = - e - 1
      BY <1>2
    <2>2. w * d = - (w * e) - w /\ w * e >= 0
      BY <2>1
    <2> QED
      BY <2>2
  <1> QED
    BY <1>1, <1>2

LEMMA RemainderIsUnique ==
    ASSUME NEW w \in Nat \ {0}, NEW k \in Int, NEW s \in 0 .. w - 1
    PROVE  (w * k + s) % w = s
  <1> DEFINE x == w * k + s
             q == x \div w
             d == k - q
  <1>1. x \in Int
    OBVIOUS
  <1>2. q \in Int /\ x % w \in 0 .. w - 1 /\ x = w * q + (x % w)
    BY <1>1, Division
  <1>3. w * d = w * k - w * q
    BY <1>2
  <1>4. w * d = (x % w) - s
    BY <1>2, <1>3
  <1>5. d \in Int /\ w * d < w /\ w * d > - w
    BY <1>2, <1>4
  <1>6. d = 0
    <2> HIDE DEF d
    <2> QED
      BY <1>5, ProductApart
  <1> QED
    BY <1>2, <1>4, <1>6

(* It does not matter whether an operand is converted before it is added. *)
LEMMA AddToUint32 ==
    ASSUME NEW n \in Int, NEW m \in Int
    PROVE  ToUint32(ToUint32(n) + m) = ToUint32(n + m)
  <1> DEFINE w == 2 * Half
             p == n \div w
             r == n % w
             q == (r + m) \div w
             s == (r + m) % w
  <1>1. w \in Nat \ {0}
    OBVIOUS
  <1> HIDE DEF w
  <1>2. p \in Int /\ r \in Int /\ n = w * p + r
    BY <1>1, Division
  <1> HIDE DEF p, r
  <1>3. q \in Int /\ s \in 0 .. w - 1 /\ r + m = w * q + s
    BY <1>1, <1>2, Division
  <1> HIDE DEF q, s
  <1>4. w * (p + q) = w * p + w * q
    BY <1>1, <1>2, <1>3
  <1>5. n + m = w * (p + q) + s
    BY <1>1, <1>2, <1>3, <1>4
  <1>6. p + q \in Int
    BY <1>2, <1>3
  <1>7. (w * (p + q) + s) % w = s
    BY <1>1, <1>3, <1>6, RemainderIsUnique, Zenon
  <1>8. (n + m) % w = s
    BY <1>5, <1>7, Zenon
  <1> QED
    BY <1>8 DEF ToUint32, w, r, s

-------------------------------------------------------------------------------
(* What an operation stores and returns has its width. *)
LEMMA TypeInit == Init => TypeOK
  BY DEF Init, TypeOK, Places, NoOperation

LEMMA OperationFields ==
    ASSUME TypeOK, NEW t \in Threads
    PROVE  /\ inside[t].name \in {"get", "delete"} => inside[t] \in OnKey
           /\ inside[t].name \in {"set", "inc"} => inside[t] \in WithInteger
           /\ inside[t].name \in {"getKeys", "deleteCollection"}
                  => inside[t] \in OnCollection
  BY DEF TypeOK, Operations, OnKey, WithInteger, OnCollection, NoOperation

(* What a thread does to the mutex, and its end. *)
MutexStep(t) == lock(t) \/ LockReturns(t) \/ unlock(t) \/ ThreadEnds(t)

LEMMA TypeStep == TypeOK /\ [Next]_vars => TypeOK'
  <1> SUFFICES ASSUME TypeOK, [Next]_vars PROVE TypeOK'
    OBVIOUS
  <1>1. CASE UNCHANGED vars
    BY <1>1 DEF TypeOK, vars, mapVars, lockVars
  <1>2. ASSUME NEW t \in Threads, MutexStep(t) PROVE TypeOK'
    BY <1>2 DEF TypeOK, MutexStep, lock, LockReturns, unlock, ThreadEnds, Misuse, mapVars
  <1>4. ASSUME NEW t \in Threads, NEW op \in Operations, Enter(t, op) PROVE TypeOK'
    <2>1. (IF op \in OnCollection THEN 0 ELSE LookUp(op.at)) \in 0 .. 2 * Half - 1
      BY DEF TypeOK, LookUp, Operations, OnKey, WithInteger
    <2> QED
      BY <1>4, <2>1 DEF TypeOK, Enter, Misuse, lockVars
  <1>5. ASSUME NEW t \in Threads, getInteger(t) PROVE TypeOK'
    <2>1. inside[t] \in OnKey
      BY <1>5, OperationFields DEF getInteger, Leaves
    <2>2. inside[t].at \in Places
      BY <2>1 DEF OnKey
    <2>3. ToInt32(seen[t]) \in -Half .. Half - 1
      BY Int32Range DEF TypeOK, Uint32
    <2> QED
      BY <1>5, <2>2, <2>3 DEF TypeOK, getInteger, Leaves, lockVars
  <1>6. ASSUME NEW t \in Threads, setInteger(t) PROVE TypeOK'
    <2>1. inside[t] \in WithInteger
      BY <1>6, OperationFields DEF setInteger, Leaves
    <2>2. inside[t].at \in Places /\ inside[t].by \in Int
      BY <2>1 DEF WithInteger
    <2>3. ToUint32(inside[t].by) \in 0 .. 2 * Half - 1
      BY <2>2, Uint32Range DEF Uint32
    <2> QED
      BY <1>6, <2>2, <2>3 DEF TypeOK, setInteger, Leaves, lockVars
  <1>7. ASSUME NEW t \in Threads, incInteger(t) PROVE TypeOK'
    <2> DEFINE value == ToUint32(seen[t] + inside[t].by)
    <2>1. inside[t] \in WithInteger
      BY <1>7, OperationFields DEF incInteger, Increments, Leaves
    <2>2. inside[t].at \in Places /\ inside[t].by \in Int
      BY <2>1 DEF WithInteger
    <2>3. value \in 0 .. 2 * Half - 1
      BY <2>2, Uint32Range DEF Uint32, TypeOK
    <2>4. ToInt32(value) \in -Half .. Half - 1
      BY <2>3, Int32Range DEF Uint32
    <2>5. Increments(t, value, value)
      BY <1>7 DEF incInteger
    <2>6. meant' \in [Places -> Int]
      BY <2>2, <2>5 DEF TypeOK, Increments
    <2> HIDE DEF value
    <2> QED
      BY <2>2, <2>3, <2>4, <2>5, <2>6 DEF TypeOK, Increments, Leaves, lockVars
  <1>8. ASSUME NEW t \in Threads, deleteInteger(t) PROVE TypeOK'
    <2>1. inside[t] \in OnKey
      BY <1>8, OperationFields DEF deleteInteger, Leaves
    <2> QED
      BY <1>8, <2>1 DEF TypeOK, deleteInteger, Leaves, OnKey, lockVars
  <1>9. ASSUME NEW t \in Threads, getIntegerKeys(t) PROVE TypeOK'
    BY <1>9 DEF TypeOK, getIntegerKeys, Leaves, lockVars
  <1>10. ASSUME NEW t \in Threads, deleteIntegerCollection(t) PROVE TypeOK'
    BY <1>10 DEF TypeOK, deleteIntegerCollection, Leaves, lockVars
  <1> QED
    BY <1>1, <1>2, <1>4, <1>5, <1>6, <1>7, <1>8, <1>9, <1>10 DEF Next, MutexStep

(* Every variable keeps its type, also if JavaScript does not lock. *)
THEOREM TypeCorrect == Spec => []TypeOK
  BY TypeInit, TypeStep, PTL DEF Spec

-------------------------------------------------------------------------------
(* The mutex is with a thread that has not unlocked it, and such a thread is     *)
(* careless if it waits or has ended; no thread does both.                      *)
HolderHolds ==
    /\ waiting \intersect ended = {}
    /\ kvMutex # NoThread => kvMutex \in held
    /\ held \intersect (waiting \union ended) \subseteq careless

(* While nobody is careless, whoever has not unlocked the mutex has it, and so   *)
(* has whoever is inside.                                                       *)
HolderInside ==
    Careful => /\ \A t \in held : kvMutex = t
               /\ \A t \in Threads : inside[t] # NoOperation => t \in held

(* What a thread has looked up is what is stored: nobody changed it since. *)
SeenIsStored ==
    Careful => \A t \in Threads :
        inside[t] \in OnKey \union WithInteger => seen[t] = LookUp(inside[t].at)

StoreInv == TypeOK /\ HolderHolds /\ HolderInside /\ SeenIsStored /\ CountersExact

LEMMA StoreInit == Init => StoreInv
  BY TypeInit DEF Init, StoreInv, HolderHolds, HolderInside, SeenIsStored, CountersExact,
     NoOperation, OnKey, WithInteger

(* A thread that leaves was inside, and no other one is while nobody is careless. *)
Leaving(t) ==
    /\ inside[t] # NoOperation
    /\ inside' = [inside EXCEPT ![t] = NoOperation]
    /\ UNCHANGED <<lockVars, careless>>

LEMMA NobodyElseInside ==
    ASSUME StoreInv, Careful, NEW t \in Threads, Leaving(t)
    PROVE  \A u \in Threads : inside'[u] = NoOperation
  BY DEF StoreInv, HolderInside, Leaving, TypeOK

LEMMA LeavingKeepsHolder ==
    ASSUME StoreInv, NEW t \in Threads, Leaving(t)
    PROVE  HolderHolds' /\ HolderInside' /\ SeenIsStored'
  <1>1. HolderHolds'
    BY DEF StoreInv, HolderHolds, Leaving, lockVars
  <1>2. CASE Careful
    <2>1. \A u \in Threads : inside'[u] = NoOperation
      BY <1>2, NobodyElseInside
    <2> QED
      BY <1>1, <1>2, <2>1 DEF StoreInv, HolderInside, SeenIsStored, NoOperation, OnKey,
         WithInteger, Leaving, lockVars
  <1>3. CASE ~Careful
    BY <1>1, <1>3 DEF HolderInside, SeenIsStored, Careful, Leaving
  <1> QED
    BY <1>2, <1>3

LEMMA CareDoesNotReturn ==
    ASSUME NEW t \in Threads, NEW wrong \in BOOLEAN, Misuse(t, wrong), Careful'
    PROVE  Careful /\ ~wrong
  BY DEF Misuse, Careful

(* A thread that is not inside can change the mutex and nothing else. *)
LEMMA OutsideKeepsStore ==
    ASSUME StoreInv, NEW t \in Threads, MutexStep(t)
    PROVE  HolderHolds' /\ HolderInside' /\ SeenIsStored' /\ CountersExact'
  <1>1. HolderHolds'
    <2>1. CASE lock(t)
      BY <2>1 DEF StoreInv, HolderHolds, lock, Misuse, Runs
    <2>2. CASE LockReturns(t)
      <3>1. /\ held' = held \union {t} /\ kvMutex' = t /\ waiting' = waiting \ {t}
            /\ ended' = ended /\ careless' = careless
        BY <2>2 DEF LockReturns
      <3>2. t \notin ended
        BY <2>2 DEF LockReturns, StoreInv, HolderHolds
      <3> QED
        BY <3>1, <3>2 DEF StoreInv, HolderHolds
    <2>3. CASE unlock(t)
      BY <2>3 DEF StoreInv, HolderHolds, unlock, Misuse
    <2>4. CASE ThreadEnds(t)
      BY <2>4 DEF StoreInv, HolderHolds, ThreadEnds, Misuse, Runs
    <2> QED
      BY <2>1, <2>2, <2>3, <2>4 DEF MutexStep
  <1>2. Careful' => Careful
    BY DEF MutexStep, lock, LockReturns, unlock, ThreadEnds, Misuse, Careful
  <1>3. HolderInside'
    <2> SUFFICES ASSUME Careful' PROVE HolderInside'
      BY DEF HolderInside
    <2>1. CASE lock(t)
      BY <1>2, <2>1 DEF StoreInv, HolderInside, lock, mapVars
    <2>2. CASE LockReturns(t)
      <3>1. held = {}
        BY <1>2, <2>2 DEF StoreInv, TypeOK, HolderInside, LockReturns
      <3>2. held' = {t} /\ kvMutex' = t /\ inside' = inside
        BY <2>2, <3>1 DEF LockReturns, mapVars
      <3>3. \A u \in Threads : inside[u] = NoOperation
        BY <1>2, <3>1 DEF StoreInv, HolderInside
      <3> QED
        BY <3>2, <3>3 DEF HolderInside
    <2>3. CASE unlock(t)
      <3>1. t \in held /\ Careful
        BY <1>2, <2>3 DEF unlock, Misuse, Careful
      <3>2. held = {t}
        BY <3>1 DEF StoreInv, HolderInside
      <3>3. held' = {} /\ inside' = inside /\ inside[t] = NoOperation
        BY <2>3, <3>2 DEF unlock, Runs, mapVars
      <3> QED
        BY <3>1, <3>2, <3>3 DEF StoreInv, HolderInside
    <2>4. CASE ThreadEnds(t)
      BY <1>2, <2>4 DEF StoreInv, HolderInside, ThreadEnds, mapVars
    <2> QED
      BY <2>1, <2>2, <2>3, <2>4 DEF MutexStep
  <1>4. UNCHANGED mapVars
    BY DEF MutexStep, lock, LockReturns, unlock, ThreadEnds
  <1> QED
    BY <1>1, <1>2, <1>3, <1>4 DEF StoreInv, SeenIsStored, CountersExact, LookUp, mapVars

LEMMA EnterKeepsStore ==
    ASSUME StoreInv, NEW t \in Threads, NEW op \in Operations, Enter(t, op)
    PROVE  HolderHolds' /\ HolderInside' /\ SeenIsStored' /\ CountersExact'
  <1>1. UNCHANGED <<kvStoreInteger, meant, lockVars>> /\ (Careful' => Careful /\ t \in held)
    BY DEF Enter, Misuse, Careful
  <1>2. HolderHolds'
    BY <1>1 DEF StoreInv, HolderHolds, Enter, Misuse, lockVars
  <1>3. HolderInside'
    BY <1>1 DEF StoreInv, HolderInside, Enter, TypeOK, lockVars
  <1>4. SeenIsStored'
    <2> SUFFICES ASSUME Careful', NEW u \in Threads, inside'[u] \in OnKey \union WithInteger
                 PROVE  seen'[u] = LookUp(inside'[u].at)
      BY <1>1 DEF SeenIsStored, LookUp
    <2>1. CASE u = t
      <3>1. inside'[t] = op /\ op \notin OnCollection
        BY <2>1 DEF Enter, StoreInv, TypeOK, OnKey, WithInteger, OnCollection
      <3> QED
        BY <2>1, <3>1 DEF Enter, StoreInv, TypeOK
    <2>2. CASE u # t
      BY <1>1, <2>2 DEF Enter, StoreInv, TypeOK, SeenIsStored
    <2> QED
      BY <2>1, <2>2
  <1> QED
    BY <1>1, <1>2, <1>3, <1>4 DEF StoreInv, CountersExact

(* What a thread leaves with is the counter, up to the width. *)
LEMMA SeenIsMeant ==
    ASSUME StoreInv, Careful, NEW t \in Threads, inside[t] \in OnKey \union WithInteger
    PROVE  /\ inside[t].at \in Places
           /\ seen[t] = ToUint32(meant[inside[t].at])
  <1>1. inside[t].at \in Places
    BY DEF OnKey, WithInteger
  <1> QED
    BY <1>1, ZeroToUint32 DEF StoreInv, SeenIsStored, CountersExact, LookUp

LEMMA GetKeepsStore ==
    ASSUME StoreInv, Careful, NEW t \in Threads, getInteger(t)
    PROVE  CountersExact'
  <1>1. inside[t] \in OnKey
    BY OperationFields DEF StoreInv, getInteger, Leaves
  <1>2. inside[t].at \in Places /\ seen[t] = ToUint32(meant[inside[t].at])
    BY <1>1, SeenIsMeant
  <1>3. seen[t] # Absent
    BY DEF StoreInv, TypeOK
  <1> QED
    BY <1>2, <1>3 DEF StoreInv, TypeOK, CountersExact, getInteger

LEMMA SetKeepsStore ==
    ASSUME StoreInv, Careful, NEW t \in Threads, setInteger(t)
    PROVE  CountersExact'
  <1>1. inside[t] \in WithInteger
    BY OperationFields DEF StoreInv, setInteger, Leaves
  <1>2. inside[t].at \in Places /\ inside[t].by \in Int
    BY <1>1 DEF WithInteger
  <1>3. ToUint32(inside[t].by) # Absent
    BY <1>2, Uint32Range DEF Uint32
  <1> QED
    BY <1>2, <1>3 DEF StoreInv, TypeOK, CountersExact, setInteger

LEMMA IncKeepsStore ==
    ASSUME StoreInv, Careful, NEW t \in Threads, incInteger(t)
    PROVE  CountersExact'
  <1> DEFINE x == inside[t].at
             by == inside[t].by
  <1>1. inside[t] \in WithInteger
    BY OperationFields DEF StoreInv, incInteger, Increments, Leaves
  <1>2. x \in Places /\ by \in Int /\ seen[t] = ToUint32(meant[x])
    BY <1>1, SeenIsMeant DEF WithInteger
  <1>3. meant[x] \in Int
    BY <1>2 DEF StoreInv, TypeOK
  <1>4. ToUint32(seen[t] + by) = ToUint32(meant[x] + by)
    BY <1>2, <1>3, AddToUint32
  <1>5. ToUint32(seen[t] + by) # Absent
    BY <1>2, <1>3, <1>4, Uint32Range DEF Uint32
  <1>6. /\ kvStoreInteger' = [kvStoreInteger EXCEPT ![x] = ToUint32(seen[t] + by)]
        /\ meant' = [meant EXCEPT ![x] = meant[x] + by]
    BY <1>2 DEF StoreInv, TypeOK, incInteger, Increments
  <1> HIDE DEF x, by
  <1> QED
    BY <1>2, <1>4, <1>5, <1>6 DEF StoreInv, TypeOK, CountersExact

LEMMA DeleteKeepsStore ==
    ASSUME StoreInv, Careful, NEW t \in Threads,
           deleteInteger(t) \/ deleteIntegerCollection(t) \/ getIntegerKeys(t)
    PROVE  CountersExact'
  BY DEF StoreInv, TypeOK, CountersExact, deleteInteger, deleteIntegerCollection,
     getIntegerKeys

(* Nothing is claimed of the counters once somebody has been careless. *)
LEMMA CarelessIsExempt ==
    ASSUME NEW t \in Threads, Leaving(t), ~Careful
    PROVE  CountersExact'
  BY DEF CountersExact, Careful, Leaving

LEMMA StoreStep == StoreInv /\ [Next]_vars => StoreInv'
  <1> SUFFICES ASSUME StoreInv, [Next]_vars PROVE StoreInv'
    OBVIOUS
  <1>1. TypeOK'
    BY TypeStep DEF StoreInv
  <1>2. CASE UNCHANGED vars
    BY <1>1, <1>2 DEF StoreInv, HolderHolds, HolderInside, SeenIsStored, CountersExact,
       LookUp, Careful, vars, mapVars, lockVars
  <1>3. ASSUME NEW t \in Threads, MutexStep(t) PROVE StoreInv'
    BY <1>1, <1>3, OutsideKeepsStore DEF StoreInv
  <1>4. ASSUME NEW t \in Threads, NEW op \in Operations, Enter(t, op) PROVE StoreInv'
    BY <1>1, <1>4, EnterKeepsStore DEF StoreInv
  <1>5. ASSUME NEW t \in Threads, getInteger(t) PROVE StoreInv'
    <2>1. Leaving(t)
      BY <1>5 DEF getInteger, Leaves, Leaving, NoOperation
    <2> QED
      BY <1>1, <1>5, <2>1, LeavingKeepsHolder, GetKeepsStore, CarelessIsExempt DEF StoreInv
  <1>6. ASSUME NEW t \in Threads, setInteger(t) PROVE StoreInv'
    <2>1. Leaving(t)
      BY <1>6 DEF setInteger, Leaves, Leaving, NoOperation
    <2> QED
      BY <1>1, <1>6, <2>1, LeavingKeepsHolder, SetKeepsStore, CarelessIsExempt DEF StoreInv
  <1>7. ASSUME NEW t \in Threads, incInteger(t) PROVE StoreInv'
    <2>1. Leaving(t)
      BY <1>7 DEF incInteger, Increments, Leaves, Leaving, NoOperation
    <2> QED
      BY <1>1, <1>7, <2>1, LeavingKeepsHolder, IncKeepsStore, CarelessIsExempt DEF StoreInv
  <1>8. ASSUME NEW t \in Threads,
               deleteInteger(t) \/ deleteIntegerCollection(t) \/ getIntegerKeys(t)
        PROVE  StoreInv'
    <2>1. Leaving(t)
      BY <1>8 DEF deleteInteger, deleteIntegerCollection, getIntegerKeys, Leaves,
         Leaving, NoOperation
    <2> QED
      BY <1>1, <1>8, <2>1, LeavingKeepsHolder, DeleteKeepsStore, CarelessIsExempt
      DEF StoreInv
  <1> QED
    BY <1>2, <1>3, <1>4, <1>5, <1>6, <1>7, <1>8 DEF Next, MutexStep

LEMMA StoreAlways == Spec => []StoreInv
  BY StoreInit, StoreStep, PTL DEF Spec

-------------------------------------------------------------------------------
\* As long as nobody has been careless, no two threads are inside the maps at a
\* time: the undefined behaviour of two threads in one map does not come up.
THEOREM MutualExclusion == Spec => []AtMostOneInside
<1>1. StoreInv => AtMostOneInside
  BY DEF StoreInv, HolderInside, AtMostOneInside
<1> QED
  BY <1>1, StoreAlways, PTL

\* As long as nobody has been careless, every counter is what the same operations
\* make of an unbounded integer, reduced to the width: no update is lost.
THEOREM CountersAreExact == Spec => []CountersExact
<1>1. StoreInv => CountersExact
  BY DEF StoreInv
<1> QED
  BY <1>1, StoreAlways, PTL

\* A thread that waits for the mutex is stranded only by the carelessness of the one
\* that has it, whatever else threads do to the mutex.
THEOREM OnlyItsHolderStrands == Spec => []WaitersAreNotStranded
<1>1. StoreInv => WaitersAreNotStranded
  BY DEF StoreInv, TypeOK, HolderHolds, WaitersAreNotStranded
<1> QED
  BY <1>1, StoreAlways, PTL

(* The two conversions together leave an integer that fits as it is. *)
LEMMA SignedToUint32 ==
    ASSUME NEW n \in -Half .. Half - 1
    PROVE  ToInt32(ToUint32(n)) = n
  BY DEF ToInt32, ToUint32

ReadsExactly(t) ==
    inside[t].name \in {"get", "inc"} /\ inside'[t] = NoOperation
        => LET counter == meant'[inside[t].at] IN
           counter \in -Half .. Half - 1 => result'[t] = counter

LEMMA GetReadsExactly ==
    ASSUME StoreInv, Careful, NEW t \in Threads, getInteger(t)
    PROVE  ReadsExactly(t)
  <1>1. inside[t] \in OnKey
    BY OperationFields DEF StoreInv, getInteger, Leaves
  <1>2. seen[t] = ToUint32(meant[inside[t].at])
    BY <1>1, SeenIsMeant
  <1>3. meant' = meant /\ result'[t] = ToInt32(seen[t])
    BY DEF StoreInv, TypeOK, getInteger
  <1> QED
    BY <1>2, <1>3, SignedToUint32 DEF ReadsExactly

LEMMA IncReadsExactly ==
    ASSUME StoreInv, Careful, NEW t \in Threads, incInteger(t)
    PROVE  ReadsExactly(t)
  <1> DEFINE x == inside[t].at
             by == inside[t].by
  <1>1. inside[t] \in WithInteger
    BY OperationFields DEF StoreInv, incInteger, Increments, Leaves
  <1>2. x \in Places /\ by \in Int /\ seen[t] = ToUint32(meant[x])
    BY <1>1, SeenIsMeant DEF WithInteger
  <1>3. meant[x] \in Int
    BY <1>2 DEF StoreInv, TypeOK
  <1>4. ToUint32(seen[t] + by) = ToUint32(meant[x] + by)
    BY <1>2, <1>3, AddToUint32
  <1>5. /\ result'[t] = ToInt32(ToUint32(seen[t] + by))
        /\ meant'[x] = meant[x] + by
    BY <1>2 DEF StoreInv, TypeOK, incInteger, Increments
  <1>6. meant'[x] \in -Half .. Half - 1 => result'[t] = meant'[x]
    BY <1>4, <1>5, SignedToUint32
  <1> QED
    BY <1>6 DEF ReadsExactly

LEMMA StepReadsExactly ==
    ASSUME StoreInv, Careful, [Next]_vars
    PROVE  \A t \in Threads : ReadsExactly(t)
  <1> SUFFICES ASSUME NEW t \in Threads, inside[t].name \in {"get", "inc"},
                      inside'[t] = NoOperation
               PROVE  ReadsExactly(t)
    BY DEF ReadsExactly
  <1>1. inside[t] # NoOperation
    BY DEF NoOperation
  <1>2. CASE UNCHANGED vars
    BY <1>1, <1>2 DEF vars, mapVars
  <1>3. ASSUME NEW u \in Threads, MutexStep(u) PROVE FALSE
    BY <1>1, <1>3 DEF MutexStep, lock, LockReturns, unlock, ThreadEnds, mapVars
  <1>4. ASSUME NEW u \in Threads, NEW op \in Operations, Enter(u, op) PROVE FALSE
    BY <1>1, <1>4 DEF Enter, Runs, StoreInv, TypeOK, Operations, OnKey, WithInteger,
       OnCollection, NoOperation
  <1>5. ASSUME NEW u \in Threads, getInteger(u) PROVE ReadsExactly(t)
    <2>1. u = t
      BY <1>1, <1>5 DEF getInteger, Leaves, StoreInv, TypeOK
    <2> QED
      BY <1>5, <2>1, GetReadsExactly
  <1>6. ASSUME NEW u \in Threads, incInteger(u) PROVE ReadsExactly(t)
    <2>1. u = t
      BY <1>1, <1>6 DEF incInteger, Increments, Leaves, StoreInv, TypeOK
    <2> QED
      BY <1>6, <2>1, IncReadsExactly
  <1>7. ASSUME NEW u \in Threads,
               \/ setInteger(u) \/ deleteInteger(u)
               \/ getIntegerKeys(u) \/ deleteIntegerCollection(u)
        PROVE  FALSE
    <2>1. u = t
      BY <1>1, <1>7 DEF setInteger, deleteInteger, getIntegerKeys,
         deleteIntegerCollection, Leaves, StoreInv, TypeOK
    <2> QED
      BY <1>7, <2>1 DEF setInteger, deleteInteger, getIntegerKeys,
         deleteIntegerCollection, Leaves
  <1> QED
    BY <1>2, <1>3, <1>4, <1>5, <1>6, <1>7 DEF Next, MutexStep

\* As long as nobody has been careless, what getInteger and incInteger return is
\* the counter itself whenever that fits 32 bits with a sign.
THEOREM ReadsAreExact == Spec => SmallCountersReadExactly
<1>1. StoreInv /\ [Next]_vars => [Careful => \A t \in Threads : ReadsExactly(t)]_vars
  BY StepReadsExactly
<1>2. Spec => [][Careful => \A t \in Threads : ReadsExactly(t)]_vars
  BY <1>1, StoreAlways, PTL DEF Spec
<1> QED
  BY <1>2 DEF SmallCountersReadExactly, ReadsExactly
===============================================================================
