--------------------------- MODULE FastTimersProofs ---------------------------
(***************************************************************************)
(* Theorems about FastTimers, for arrays of any length, any components and *)
(* periods, and integers of any width: the lists and the stack of offsets  *)
(* stay sound, a tick misses no timer of its list, and a timer triggers in *)
(* time.                                                                   *)
(***************************************************************************)
EXTENDS FastTimers, FiniteSetTheorems, WellFoundedInduction, TLAPS

USE SizeAssumption, ComponentsAssumption, WideAssumption, DelaysAssumption

-------------------------------------------------------------------------------
(* Numbers. *)

LEMMA SmallestExists ==
    ASSUME NEW T, T \subseteq Nat, T # {}
    PROVE  \E m \in T : \A n \in T : m <= n
<1> DEFINE R == OpToRel(<, Nat)
<1>1. PICK m \in T : \A n \in T : ~ (<<n, m>> \in R)
  BY NatLessThanWellFounded, WFMin
<1>2. \A n \in T : ~ (n < m)
  BY <1>1 DEF OpToRel
<1> QED
  BY <1>2

(* What holds of 0, and of the next number with every number, holds of all of   *)
(* them; stated with a set for what holds.                                      *)
LEMMA Counting ==
    ASSUME NEW n \in Nat, NEW T, 0 \in T, \A k \in 0 .. n - 1 : k \in T => k + 1 \in T
    PROVE  0 .. n \subseteq T
<1> SUFFICES ASSUME (0 .. n) \ T # {} PROVE FALSE
  OBVIOUS
<1>1. PICK m \in (0 .. n) \ T : \A k \in (0 .. n) \ T : m <= k
  <2>1. (0 .. n) \ T \subseteq Nat
    OBVIOUS
  <2> QED
    BY <2>1, SmallestExists
<1>2. m - 1 \in 0 .. n - 1 /\ m - 1 \in T
  BY <1>1
<1>3. m - 1 + 1 = m
  BY <1>1
<1> QED
  BY <1>1, <1>2, <1>3

LEMMA ModType ==
    ASSUME NEW a \in Int, NEW b \in Nat \ {0}
    PROVE  a % b \in Nat /\ a % b \in 0 .. b - 1
OBVIOUS

LEMMA DivType ==
    ASSUME NEW a \in Nat, NEW b \in Nat \ {0}
    PROVE  a \div b \in Nat
OBVIOUS

(* The largest of a set of components. *)
LEMMA LargestIsOne ==
    ASSUME NEW set \in SUBSET Offsets
    PROVE  /\ Largest(set) \in Offsets
           /\ set # {} => Largest(set) \in set
           /\ \A d \in set : d <= Largest(set)
<1>1. CASE set = {}
  BY <1>1 DEF Largest, Offsets
<1>2. CASE set # {}
  <2> DEFINE T == {Components - d : d \in set}
  <2>1. T \subseteq Nat /\ T # {}
    <3>1. \A d \in set : Components - d \in Nat
      BY DEF Offsets
    <3> QED
      BY <1>2, <3>1
  <2>2. PICK m \in T : \A n \in T : m <= n
    BY <2>1, SmallestExists
  <2>3. PICK c \in set : m = Components - c
    OBVIOUS
  <2>4. \A d \in set : d <= c
    <3> SUFFICES ASSUME NEW d \in set PROVE d <= c
      OBVIOUS
    <3>1. m <= Components - d
      BY <2>2
    <3> QED
      BY <2>3, <3>1 DEF Offsets
  <2>5. Largest(set) \in set /\ \A d \in set : d <= Largest(set)
    BY <1>2, <2>4 DEF Largest
  <2> QED
    BY <2>5
<1> QED
  BY <1>1, <1>2

(* What is left below a component is defined by what is left below the next:   *)
(* so it is for a function that agrees with the recursion from some component  *)
(* on, and there is one that does from component 0 on.                         *)
LEMMA LeftRecursion ==
    ASSUME NEW ms \in Nat
    PROVE  LeftBelow(ms) = [c \in 0 .. Components |->
               IF c = Components THEN ms
               ELSE LeftBelow(ms)[c + 1] % componentMultiplierMs[c]]
<1> DEFINE All == 0 .. Components
           Agrees(f, n) == /\ f[Components] = ms
                           /\ \A c \in All : c < Components /\ Components - n <= c =>
                                  f[c] = f[c + 1] % componentMultiplierMs[c]
           Bad == {n \in All : ~ \E f \in [All -> Nat] : Agrees(f, n)}
<1>1. Bad = {}
  <2> SUFFICES ASSUME Bad # {} PROVE FALSE
    OBVIOUS
  <2>1. PICK n \in Bad : \A k \in Bad : n <= k
    <3>1. Bad \subseteq Nat
      OBVIOUS
    <3> HIDE DEF Bad
    <3> QED
      BY <3>1, SmallestExists
  <2>2. n # 0
    <3>1. [c \in All |-> ms] \in [All -> Nat] /\ Agrees([c \in All |-> ms], 0)
      OBVIOUS
    <3> QED
      BY <3>1
  <2>3. n - 1 \in All /\ n - 1 \notin Bad
    <3>1. n \in Nat \ {0} /\ n <= Components
      BY <2>2
    <3>2. n - 1 \notin Bad
      <4> HIDE DEF Bad
      <4> QED
        BY <2>1, <3>1
    <3> HIDE DEF Bad
    <3> QED
      BY <3>1, <3>2
  <2>4. PICK f \in [All -> Nat] : Agrees(f, n - 1)
    BY <2>3
  <2> DEFINE k == Components - n
             g == [f EXCEPT ![k] = f[k + 1] % componentMultiplierMs[k]]
  <2>5. k \in All /\ k < Components /\ k + 1 \in All
    BY <2>2
  <2>6. f[k + 1] % componentMultiplierMs[k] \in Nat
    <3> HIDE DEF Bad, Agrees, k
    <3>1. f[k + 1] \in Nat
      BY <2>4, <2>5
    <3>2. componentMultiplierMs[k] \in Nat \ {0}
      <4>1. k \in 0 .. Components - 1
        BY <2>5
      <4> QED
        BY <4>1
    <3>3. \A a \in Nat, b \in Nat \ {0} : a % b \in Nat
      BY ModType
    <3> QED
      BY <3>1, <3>2, <3>3, Zenon
  <2>7. g \in [All -> Nat]
    BY <2>5, <2>6
  <2>8. Agrees(g, n)
    <3>1. g[Components] = ms
      BY <2>4, <2>5
    <3>2. ASSUME NEW c \in All, c < Components, Components - n <= c
          PROVE  g[c] = g[c + 1] % componentMultiplierMs[c]
      <4>1. c + 1 \in All /\ c + 1 # k
        BY <3>2
      <4>2. CASE c = k
        BY <2>5, <4>1, <4>2
      <4>3. CASE c # k
        BY <2>4, <3>2, <4>1, <4>3
      <4> QED
        BY <4>2, <4>3
    <3> QED
      BY <3>1, <3>2
  <2> HIDE DEF g
  <2> QED
    BY <2>7, <2>8
<1>2. PICK f \in [All -> Nat] : Agrees(f, Components)
  <2>1. Components \in All
    OBVIOUS
  <2> HIDE DEF Agrees
  <2> QED
    BY <1>1, <2>1
<1> DEFINE Rec(f_) == [c \in 0 .. Components |->
               IF c = Components THEN ms ELSE f_[c + 1] % componentMultiplierMs[c]]
<1>3. f = Rec(f)
  BY <1>2
<1>4. LeftBelow(ms) = CHOOSE g : g = Rec(g)
  BY DEF LeftBelow
<1> HIDE DEF Rec
<1>5. (CHOOSE g : g = Rec(g)) = Rec(CHOOSE g : g = Rec(g))
  BY <1>3
<1>6. LeftBelow(ms) = Rec(LeftBelow(ms))
  BY <1>4, <1>5
<1> QED
  BY <1>6 DEF Rec

LEMMA LeftType ==
    ASSUME NEW ms \in Nat
    PROVE  \A c \in 0 .. Components : LeftBelow(ms)[c] \in Nat
<1> DEFINE left == LeftBelow(ms)
           Bad == {n \in 0 .. Components : left[Components - n] \notin Nat}
<1>1. left = [c \in 0 .. Components |->
                  IF c = Components THEN ms ELSE left[c + 1] % componentMultiplierMs[c]]
  BY LeftRecursion
<1> HIDE DEF left
<1>2. Bad = {}
  <2> SUFFICES ASSUME Bad # {} PROVE FALSE
    OBVIOUS
  <2>1. PICK n \in Bad : \A k \in Bad : n <= k
    <3>1. Bad \subseteq Nat
      OBVIOUS
    <3> HIDE DEF Bad
    <3> QED
      BY <3>1, SmallestExists
  <2>2. n # 0
    BY <1>1
  <2>3. n - 1 \in 0 .. Components /\ n - 1 \notin Bad
    <3>1. n \in Nat \ {0} /\ n <= Components
      BY <2>2
    <3>2. n - 1 \notin Bad
      <4> HIDE DEF Bad
      <4> QED
        BY <2>1, <3>1
    <3> HIDE DEF Bad
    <3> QED
      BY <3>1, <3>2
  <2>4. left[Components - n + 1] \in Nat
    <3>1. Components - (n - 1) = Components - n + 1
      OBVIOUS
    <3> QED
      BY <2>3, <3>1
  <2>5. /\ Components - n \in 0 .. Components - 1
        /\ componentMultiplierMs[Components - n] \in Nat \ {0}
    BY <2>2
  <2>6. left[Components - n] = left[Components - n + 1] % componentMultiplierMs[Components - n]
    BY <1>1, <2>5
  <2>7. left[Components - n] \in Nat
    <3> HIDE DEF Bad
    <3>1. left[Components - n + 1] % componentMultiplierMs[Components - n] \in Nat
      <4>1. \A a \in Nat, b \in Nat \ {0} : a % b \in Nat
        BY ModType
      <4> QED
        BY <2>4, <2>5, <4>1, Zenon
    <3> QED
      BY <2>6, <3>1
  <2> QED
    BY <2>7
<1>3. \A c \in 0 .. Components : left[c] \in Nat
  <2> SUFFICES ASSUME NEW c \in 0 .. Components PROVE left[c] \in Nat
    OBVIOUS
  <2>1. Components - c \in 0 .. Components /\ Components - (Components - c) = c
    OBVIOUS
  <2>2. Components - c \notin Bad
    BY <1>2
  <2> QED
    BY <2>1, <2>2
<1> QED
  BY <1>3 DEF left

(* However a time is divided, every component fits. *)
LEMMA DividedType ==
    ASSUME NEW ms \in Nat, NEW old \in [Offsets -> 0 .. Wide - 1]
    PROVE  divideComponents(old, ms) \in [Offsets -> 0 .. Wide - 1]
<1> SUFFICES ASSUME NEW c \in Offsets
             PROVE  divideComponents(old, ms)[c] \in 0 .. Wide - 1
  BY DEF divideComponents
<1> DEFINE n == IF c \in Divides(ms)
                THEN LeftBelow(ms)[c + 1] \div componentMultiplierMs[c] ELSE old[c]
           m == IF c = 0 /\ overshoot(ms) > 0 THEN 1 ELSE 0
<1>1. n \in Nat
  <2>1. LeftBelow(ms)[c + 1] \in Nat /\ componentMultiplierMs[c] \in Nat \ {0}
    BY LeftType DEF Offsets
  <2>2. LeftBelow(ms)[c + 1] \div componentMultiplierMs[c] \in Nat
    BY <2>1, DivType
  <2> QED
    BY <2>2
<1>2. m \in Nat
  OBVIOUS
<1>3. divideComponents(old, ms)[c] = (n + m) % Wide
  BY DEF divideComponents
<1> HIDE DEF n, m
<1> QED
  BY <1>1, <1>2, <1>3, ModType

-------------------------------------------------------------------------------
(* Lists.  ListsAreLinked alone allows a ring besides the list that its head    *)
(* leads to, which no tick would ever come to; so timers have ranks that grow   *)
(* along the links.                                                            *)

ListType == [next : [Timers -> Links], prev : [Timers -> Links],
             head : [Offsets -> Links], componentOffset : [Timers -> Offsets]]

(* The timers of a list, where A are the timers that wait. *)
In(l, A, c) == {t \in A : l.componentOffset[t] = c}

Linked(l, A) ==
    \A c \in Offsets :
        /\ l.head[c] \in In(l, A, c) \union {UINT_MAX}
        /\ \A t \in In(l, A, c) :
            /\ l.next[t] \in In(l, A, c) \union {UINT_MAX}
            /\ l.prev[t] \in In(l, A, c) \union {UINT_MAX}
            /\ l.prev[t] = UINT_MAX <=> l.head[c] = t
            /\ \A u \in In(l, A, c) : l.next[t] = u <=> l.prev[u] = t

RankedBy(l, A, rank) ==
    \A t \in A : l.next[t] # UINT_MAX => rank[t] < rank[l.next[t]]

Ranked(l, A) == \E rank \in [Timers -> Nat] : RankedBy(l, A, rank)

(* What the links of a timer that waits are, without naming its list. *)
LEMMA LinksOf ==
    ASSUME NEW l \in ListType, NEW A \in SUBSET Timers, Linked(l, A), NEW t \in A
    PROVE  /\ l.next[t] \in A \union {UINT_MAX}
           /\ l.prev[t] \in A \union {UINT_MAX}
           /\ \A u \in A : l.next[t] = u <=> l.prev[u] = t
           /\ \A u \in A : l.next[t] = u => l.componentOffset[u] = l.componentOffset[t]
           /\ l.prev[t] = UINT_MAX <=> l.head[l.componentOffset[t]] = t
<1> DEFINE c == l.componentOffset[t]
<1>1. c \in Offsets /\ t \in In(l, A, c)
  BY DEF ListType, In
<1>2. In(l, A, c) \subseteq A
  BY DEF In
<1>3. \A u \in A : l.prev[u] = t => u \in In(l, A, c)
  <2> SUFFICES ASSUME NEW u \in A, l.prev[u] = t PROVE u \in In(l, A, c)
    OBVIOUS
  <2>1. l.componentOffset[u] \in Offsets /\ u \in In(l, A, l.componentOffset[u])
    BY DEF ListType, In
  <2>2. t \in In(l, A, l.componentOffset[u])
    BY <2>1 DEF Linked
  <2> QED
    BY <2>2 DEF In
<1>4. \A u \in A : l.next[t] = u => u \in In(l, A, c)
  BY <1>1 DEF Linked
<1>5. \A u \in In(l, A, c) : l.componentOffset[u] = c
  BY DEF In
<1> HIDE DEF c
<1>6. l.next[t] \in A \union {UINT_MAX} /\ l.prev[t] \in A \union {UINT_MAX}
  BY <1>1, <1>2 DEF Linked
<1>7. \A u \in A : l.next[t] = u <=> l.prev[u] = t
  BY <1>1, <1>3, <1>4 DEF Linked
<1>8. \A u \in A : l.next[t] = u => l.componentOffset[u] = c
  BY <1>4, <1>5
<1>9. l.prev[t] = UINT_MAX <=> l.head[c] = t
  BY <1>1 DEF Linked
<1> QED
  BY <1>6, <1>7, <1>8, <1>9 DEF c

(* A timer is put before all others of a list. *)
LEMMA AddedType ==
    ASSUME NEW l \in ListType, NEW t \in Timers, NEW c \in Offsets
    PROVE  addTimerToList(l, t, c) \in ListType
BY DEF addTimerToList, ListType, Links

LEMMA AddedLinks ==
    ASSUME NEW l \in ListType, NEW A \in SUBSET Timers, Linked(l, A),
           NEW t \in Timers, t \notin A, NEW c \in Offsets
    PROVE  Linked(addTimerToList(l, t, c), A \union {t})
<1> DEFINE m == addTimerToList(l, t, c)
           B == A \union {t}
<1>1. /\ \A u \in Timers : m.next[u] = IF u = t THEN l.head[c] ELSE l.next[u]
      /\ \A u \in Timers : m.prev[u] = IF u = t THEN UINT_MAX
                                       ELSE IF u = l.head[c] THEN t ELSE l.prev[u]
      /\ \A d \in Offsets : m.head[d] = IF d = c THEN t ELSE l.head[d]
      /\ \A u \in Timers : m.componentOffset[u] = IF u = t THEN c ELSE l.componentOffset[u]
  BY DEF addTimerToList, ListType
<1>2. \A d \in Offsets : In(m, B, d) = IF d = c THEN In(l, A, d) \union {t} ELSE In(l, A, d)
  BY <1>1 DEF In
<1>3. \A d \in Offsets : In(l, A, d) \subseteq Timers /\ t \notin In(l, A, d)
  BY DEF In
<1> HIDE DEF m, B
<1>4. ASSUME NEW d \in Offsets, d # c
      PROVE  /\ m.head[d] \in In(m, B, d) \union {UINT_MAX}
             /\ \A u \in In(m, B, d) :
                 /\ m.next[u] \in In(m, B, d) \union {UINT_MAX}
                 /\ m.prev[u] \in In(m, B, d) \union {UINT_MAX}
                 /\ m.prev[u] = UINT_MAX <=> m.head[d] = u
                 /\ \A v \in In(m, B, d) : m.next[u] = v <=> m.prev[v] = u
  <2>1. In(m, B, d) = In(l, A, d)
    BY <1>2, <1>4
  <2>2. \A u \in In(l, A, d) : u # l.head[c]
    <3>1. l.head[c] \in In(l, A, c) \union {UINT_MAX}
      BY DEF Linked
    <3> QED
      BY <1>3, <1>4, <3>1 DEF In
  <2>3. \A u \in In(l, A, d) : m.next[u] = l.next[u] /\ m.prev[u] = l.prev[u]
    BY <1>1, <1>3, <2>2
  <2> QED
    BY <1>1, <1>4, <2>1, <2>3 DEF Linked
<1>5. /\ m.head[c] \in In(m, B, c) \union {UINT_MAX}
      /\ \A u \in In(m, B, c) :
          /\ m.next[u] \in In(m, B, c) \union {UINT_MAX}
          /\ m.prev[u] \in In(m, B, c) \union {UINT_MAX}
          /\ m.prev[u] = UINT_MAX <=> m.head[c] = u
          /\ \A v \in In(m, B, c) : m.next[u] = v <=> m.prev[v] = u
  <2> DEFINE L == In(l, A, c)
  <2>1. In(m, B, c) = L \union {t} /\ L \subseteq Timers /\ t \notin L /\ t # UINT_MAX
    BY <1>2, <1>3
  <2>2. l.head[c] \in L \union {UINT_MAX} /\ UINT_MAX \notin L
    BY <2>1 DEF Linked
  <2>3. \A u \in L : /\ l.next[u] \in L \union {UINT_MAX}
                     /\ l.prev[u] \in L \union {UINT_MAX}
                     /\ l.prev[u] = UINT_MAX <=> l.head[c] = u
                     /\ \A v \in L : l.next[u] = v <=> l.prev[v] = u
    BY DEF Linked
  <2>4. m.next[t] = l.head[c] /\ m.prev[t] = UINT_MAX /\ m.head[c] = t
    BY <1>1
  <2>5. \A u \in L : /\ m.next[u] = l.next[u]
                     /\ m.prev[u] = IF u = l.head[c] THEN t ELSE l.prev[u]
    BY <1>1, <2>1
  <2> HIDE DEF L
  <2>6. m.head[c] \in L \union {t}
    BY <2>4
  <2>7. ASSUME NEW u \in L \union {t}
        PROVE  /\ m.next[u] \in L \union {t, UINT_MAX}
               /\ m.prev[u] \in L \union {t, UINT_MAX}
               /\ m.prev[u] = UINT_MAX <=> m.head[c] = u
    <3>1. CASE u = t
      BY <2>2, <2>4, <3>1
    <3>2. CASE u \in L
      BY <2>1, <2>2, <2>3, <2>4, <2>5, <3>2
    <3> QED
      BY <3>1, <3>2
  <2>8. ASSUME NEW u \in L \union {t}, NEW v \in L \union {t}
        PROVE  m.next[u] = v <=> m.prev[v] = u
    <3>1. CASE u = t
      BY <2>1, <2>2, <2>3, <2>4, <2>5, <3>1
    <3>2. CASE u \in L /\ v = t
      BY <2>1, <2>2, <2>3, <2>4, <2>5, <3>2
    <3>3. CASE u \in L /\ v \in L
      BY <2>1, <2>2, <2>3, <2>4, <2>5, <3>3
    <3> QED
      BY <3>1, <3>2, <3>3
  <2> QED
    BY <2>1, <2>6, <2>7, <2>8
<1>6. Linked(m, B)
  BY <1>4, <1>5 DEF Linked
<1> QED
  BY <1>6 DEF m, B

LEMMA AddedRanks ==
    ASSUME NEW l \in ListType, NEW A \in SUBSET Timers, Linked(l, A), Ranked(l, A),
           NEW t \in Timers, t \notin A, NEW c \in Offsets
    PROVE  Ranked(addTimerToList(l, t, c), A \union {t})
<1> DEFINE m == addTimerToList(l, t, c)
<1>1. PICK rank \in [Timers -> Nat] : RankedBy(l, A, rank)
  BY DEF Ranked
<1> DEFINE above == [u \in Timers |-> IF u = t THEN 0 ELSE rank[u] + 1]
<1>2. above \in [Timers -> Nat]
  OBVIOUS
<1>3. ASSUME NEW u \in A \union {t}, m.next[u] # UINT_MAX
      PROVE  above[u] < above[m.next[u]]
  <2>1. m.next[u] = IF u = t THEN l.head[c] ELSE l.next[u]
    BY DEF addTimerToList, ListType
  <2>2. CASE u = t
    <3>1. l.head[c] \in A
      BY <1>3, <2>1, <2>2 DEF Linked, In
    <3> QED
      BY <2>1, <2>2, <3>1
  <2>3. CASE u # t
    <3>1. u \in A /\ m.next[u] = l.next[u] /\ l.next[u] \in A
      BY SMTT(30), <1>3, <2>1, <2>3, LinksOf
    <3>2. rank[u] < rank[l.next[u]]
      BY <1>1, <1>3, <3>1 DEF RankedBy
    <3>3. rank[u] \in Nat /\ rank[l.next[u]] \in Nat
      BY <3>1
    <3> QED
      BY <2>3, <3>1, <3>2, <3>3
  <2> QED
    BY <2>2, <2>3
<1> HIDE DEF above, m
<1>4. RankedBy(m, A \union {t}, above)
  BY <1>3 DEF RankedBy
<1> QED
  BY <1>2, <1>4 DEF Ranked, m

(* A timer leaves its list: its neighbours are linked to each other. *)
LEMMA RemovedType ==
    ASSUME NEW l \in ListType, NEW t \in Timers, NEW c \in Offsets
    PROVE  removeTimerFromList(l, t, c) \in ListType
<1>1. l.next[t] \in Links /\ l.prev[t] \in Links
  BY DEF ListType
<1>2. (IF l.prev[t] = UINT_MAX THEN [l.head EXCEPT ![c] = l.next[t]] ELSE l.head)
          \in [Offsets -> Links]
  BY <1>1 DEF ListType
<1> QED
  BY <1>1, <1>2 DEF removeTimerFromList, ListType

LEMMA RemovedFields ==
    ASSUME NEW l \in ListType, NEW t \in Timers, NEW c \in Offsets
    PROVE  LET m == removeTimerFromList(l, t, c) IN
           /\ \A u \in Timers : m.next[u] = IF u = l.prev[t] THEN l.next[t] ELSE l.next[u]
           /\ \A u \in Timers : m.prev[u] = IF u = l.next[t] THEN l.prev[t] ELSE l.prev[u]
           /\ \A d \in Offsets : m.head[d] = IF d = c /\ l.prev[t] = UINT_MAX
                                             THEN l.next[t] ELSE l.head[d]
           /\ m.componentOffset = l.componentOffset
BY DEF removeTimerFromList, ListType

LEMMA RemovedLinks ==
    ASSUME NEW l \in ListType, NEW A \in SUBSET Timers, Linked(l, A), Ranked(l, A),
           NEW t \in A
    PROVE  Linked(removeTimerFromList(l, t, l.componentOffset[t]), A \ {t})
<1> DEFINE c == l.componentOffset[t]
           m == removeTimerFromList(l, t, c)
           B == A \ {t}
<1>1. c \in Offsets /\ t \in Timers
  BY DEF ListType
<1>2. /\ \A u \in Timers : m.next[u] = IF u = l.prev[t] THEN l.next[t] ELSE l.next[u]
      /\ \A u \in Timers : m.prev[u] = IF u = l.next[t] THEN l.prev[t] ELSE l.prev[u]
      /\ \A d \in Offsets : m.head[d] = IF d = c /\ l.prev[t] = UINT_MAX
                                        THEN l.next[t] ELSE l.head[d]
      /\ m.componentOffset = l.componentOffset
  BY <1>1, RemovedFields
<1>3. \A d \in Offsets : In(m, B, d) = In(l, A, d) \ {t}
  BY <1>2 DEF In
<1>4. \A d \in Offsets : In(l, A, d) \subseteq Timers /\ (t \in In(l, A, d) <=> d = c)
  BY <1>1 DEF In
<1>5. \A u \in A : l.next[u] # u
  <2>1. PICK rank \in [Timers -> Nat] : RankedBy(l, A, rank)
    BY DEF Ranked
  <2> SUFFICES ASSUME NEW u \in A, l.next[u] = u PROVE FALSE
    OBVIOUS
  <2>2. rank[u] < rank[u] /\ rank[u] \in Nat
    BY <2>1 DEF RankedBy
  <2> QED
    BY <2>2
<1>6. \A d, e \in Offsets : d # e => In(l, A, d) \intersect In(l, A, e) = {}
  BY DEF In
<1>7. \A d \in Offsets : In(l, A, d) \subseteq A
  BY DEF In
<1> HIDE DEF m, B, c
<1>8. ASSUME NEW d \in Offsets, d # c
      PROVE  /\ m.head[d] \in In(m, B, d) \union {UINT_MAX}
             /\ \A u \in In(m, B, d) :
                 /\ m.next[u] \in In(m, B, d) \union {UINT_MAX}
                 /\ m.prev[u] \in In(m, B, d) \union {UINT_MAX}
                 /\ m.prev[u] = UINT_MAX <=> m.head[d] = u
                 /\ \A v \in In(m, B, d) : m.next[u] = v <=> m.prev[v] = u
  <2>1. In(m, B, d) = In(l, A, d)
    BY <1>3, <1>4, <1>8
  <2>2. \A u \in In(l, A, d) : u # l.next[t] /\ u # l.prev[t]
    <3>1. t \in In(l, A, c)
      BY <1>1, <1>4
    <3>2. l.next[t] \in In(l, A, c) \union {UINT_MAX} /\ l.prev[t] \in In(l, A, c) \union {UINT_MAX}
      BY <1>1, <3>1 DEF Linked
    <3>3. UINT_MAX \notin In(l, A, d)
      BY <1>4
    <3> QED
      BY <1>1, <1>6, <1>8, <3>2, <3>3
  <2>3. \A u \in In(l, A, d) : m.next[u] = l.next[u] /\ m.prev[u] = l.prev[u]
    BY <1>2, <1>4, <2>2
  <2>4. m.head[d] = l.head[d]
    BY <1>2, <1>8
  <2> QED
    BY <2>1, <2>3, <2>4 DEF Linked
<1>9. /\ m.head[c] \in In(m, B, c) \union {UINT_MAX}
      /\ \A u \in In(m, B, c) :
          /\ m.next[u] \in In(m, B, c) \union {UINT_MAX}
          /\ m.prev[u] \in In(m, B, c) \union {UINT_MAX}
          /\ m.prev[u] = UINT_MAX <=> m.head[c] = u
          /\ \A v \in In(m, B, c) : m.next[u] = v <=> m.prev[v] = u
  <2> DEFINE L == In(l, A, c)
  <2>1. In(m, B, c) = L \ {t} /\ L \subseteq Timers /\ t \in L /\ UINT_MAX \notin L
    BY <1>1, <1>3, <1>4
  <2>2. l.head[c] \in L \union {UINT_MAX}
    BY <1>1 DEF Linked
  <2>3. \A u \in L : /\ l.next[u] \in L \union {UINT_MAX}
                     /\ l.prev[u] \in L \union {UINT_MAX}
                     /\ l.prev[u] = UINT_MAX <=> l.head[c] = u
                     /\ \A v \in L : l.next[u] = v <=> l.prev[v] = u
    BY <1>1 DEF Linked
  <2>4. m.head[c] = IF l.prev[t] = UINT_MAX THEN l.next[t] ELSE l.head[c]
    BY <1>1, <1>2
  <2>5. \A u \in L : /\ m.next[u] = IF u = l.prev[t] THEN l.next[t] ELSE l.next[u]
                     /\ m.prev[u] = IF u = l.next[t] THEN l.prev[t] ELSE l.prev[u]
                     /\ l.next[u] # u
    BY <1>2, <1>5, <1>7, <1>1, <2>1
  <2> HIDE DEF L
  <2>6. m.head[c] \in (L \ {t}) \union {UINT_MAX}
    BY <2>1, <2>2, <2>3, <2>4, <2>5
  <2>7. ASSUME NEW u \in L \ {t} PROVE m.next[u] \in (L \ {t}) \union {UINT_MAX}
    BY <2>1, <2>3, <2>5
  <2>8. ASSUME NEW u \in L \ {t} PROVE m.prev[u] \in (L \ {t}) \union {UINT_MAX}
    BY <2>1, <2>3, <2>5
  <2>9. ASSUME NEW u \in L \ {t} PROVE m.prev[u] = UINT_MAX <=> m.head[c] = u
    BY <2>1, <2>2, <2>3, <2>4, <2>5
  <2>10. ASSUME NEW u \in L \ {t}, NEW v \in L \ {t} PROVE m.next[u] = v <=> m.prev[v] = u
    <3>1. CASE u = l.prev[t]
      BY <2>1, <2>3, <2>5, <3>1
    <3>2. CASE u # l.prev[t]
      BY <2>1, <2>3, <2>5, <3>2
    <3> QED
      BY <3>1, <3>2
  <2> QED
    BY <2>1, <2>6, <2>7, <2>8, <2>9, <2>10
<1>10. Linked(m, B)
  BY <1>8, <1>9 DEF Linked
<1> QED
  BY <1>10 DEF m, B, c

LEMMA RemovedRanks ==
    ASSUME NEW l \in ListType, NEW A \in SUBSET Timers, Linked(l, A), Ranked(l, A),
           NEW t \in A
    PROVE  Ranked(removeTimerFromList(l, t, l.componentOffset[t]), A \ {t})
<1> DEFINE m == removeTimerFromList(l, t, l.componentOffset[t])
<1>1. PICK rank \in [Timers -> Nat] : RankedBy(l, A, rank)
  BY DEF Ranked
<1>2. l.componentOffset[t] \in Offsets
  BY DEF ListType
<1>3. ASSUME NEW u \in A \ {t}, m.next[u] # UINT_MAX
      PROVE  rank[u] < rank[m.next[u]]
  <2>1. m.next[u] = IF u = l.prev[t] THEN l.next[t] ELSE l.next[u]
    BY <1>2, RemovedFields
  <2>2. \A v \in A : l.next[v] # UINT_MAX =>
            l.next[v] \in A /\ rank[v] < rank[l.next[v]]
    BY <1>1, LinksOf DEF RankedBy
  <2>3. CASE u = l.prev[t]
    <3>1. l.next[u] = t
      BY <2>3, LinksOf
    <3>2. /\ rank[u] < rank[t] /\ rank[t] < rank[l.next[t]] /\ l.next[t] \in A
      BY <1>3, <2>1, <2>2, <2>3, <3>1
    <3>3. rank[u] \in Nat /\ rank[t] \in Nat /\ rank[l.next[t]] \in Nat
      BY <3>2
    <3> QED
      BY <2>1, <2>3, <3>2, <3>3
  <2>4. CASE u # l.prev[t]
    BY <1>3, <2>1, <2>2, <2>4
  <2> QED
    BY <2>3, <2>4
<1> HIDE DEF m
<1>4. RankedBy(m, A \ {t}, rank)
  BY <1>3 DEF RankedBy
<1> QED
  BY <1>4 DEF Ranked, m

-------------------------------------------------------------------------------
(* The rest of a list from a timer x on: S are the timers a tick has yet to     *)
(* come to.                                                                    *)

RestFrom(l, S, x) ==
    /\ x \in S \union {UINT_MAX}
    /\ \A t \in S : l.next[t] \in S \union {UINT_MAX}
    /\ \A t \in S \ {x} : l.prev[t] \in S

(* It begins at x, as the timer of least rank has nothing before it. *)
LEMMA RestBegins ==
    ASSUME NEW l \in ListType, NEW A \in SUBSET Timers, Linked(l, A), Ranked(l, A),
           NEW S \in SUBSET A, NEW x, RestFrom(l, S, x)
    PROVE  /\ S = {} => x = UINT_MAX
           /\ S # {} => x \in S /\ \A t \in S : l.next[t] # x
<1>1. S = {} => x = UINT_MAX
  BY DEF RestFrom
<1>2. ASSUME S # {} PROVE x \in S /\ \A t \in S : l.next[t] # x
  <2>1. PICK rank \in [Timers -> Nat] : RankedBy(l, A, rank)
    BY DEF Ranked
  <2> DEFINE R == {rank[t] : t \in S}
  <2>2. R \subseteq Nat /\ R # {}
    BY <1>2
  <2>3. PICK m \in R : \A n \in R : m <= n
    BY <2>2, SmallestExists
  <2>4. PICK t \in S : m = rank[t]
    OBVIOUS
  <2>5. \A u \in S : rank[t] <= rank[u] /\ rank[u] \in Nat
    BY <2>3, <2>4
  <2>6. \A u \in S : l.next[u] # t
    <3> SUFFICES ASSUME NEW u \in S, l.next[u] = t PROVE FALSE
      OBVIOUS
    <3>1. rank[u] < rank[t]
      BY <2>1 DEF RankedBy
    <3> QED
      BY <2>5, <3>1
  <2>7. t = x
    <3> SUFFICES ASSUME t # x PROVE FALSE
      OBVIOUS
    <3>1. l.prev[t] \in S
      BY DEF RestFrom
    <3>2. l.next[l.prev[t]] = t
      BY <3>1, LinksOf
    <3> QED
      BY <2>6, <3>1, <3>2
  <2> QED
    BY <2>6, <2>7
<1> QED
  BY <1>1, <1>2

(* The tick goes on to the next timer. *)
LEMMA RestAfter ==
    ASSUME NEW l \in ListType, NEW A \in SUBSET Timers, Linked(l, A), Ranked(l, A),
           NEW S \in SUBSET A, NEW x \in S, RestFrom(l, S, x)
    PROVE  RestFrom(l, S \ {x}, l.next[x])
<1>1. \A t \in S : l.next[t] # x
  BY RestBegins
<1>2. l.next[x] \in (S \ {x}) \union {UINT_MAX}
  BY <1>1 DEF RestFrom
<1>3. \A t \in S \ {x} : l.next[t] \in (S \ {x}) \union {UINT_MAX}
  BY <1>1 DEF RestFrom
<1>4. \A t \in (S \ {x}) \ {l.next[x]} : l.prev[t] \in S \ {x}
  BY LinksOf DEF RestFrom
<1> QED
  BY <1>2, <1>3, <1>4 DEF RestFrom

(* A timer is set meanwhile. *)
LEMMA RestWithAdded ==
    ASSUME NEW l \in ListType, NEW A \in SUBSET Timers, Linked(l, A),
           NEW S \in SUBSET A, NEW x, RestFrom(l, S, x),
           NEW t \in Timers, t \notin A, NEW c \in Offsets
    PROVE  RestFrom(addTimerToList(l, t, c), S, x)
<1> DEFINE m == addTimerToList(l, t, c)
<1>1. \A u \in A : /\ m.next[u] = l.next[u]
                   /\ u # l.head[c] => m.prev[u] = l.prev[u]
  BY DEF addTimerToList, ListType
<1>2. \A u \in S \ {x} : u # l.head[c]
  <2> SUFFICES ASSUME NEW u \in S \ {x}, u = l.head[c] PROVE FALSE
    OBVIOUS
  <2>1. l.head[c] \in In(l, A, c)
    BY DEF Linked, In
  <2>2. l.prev[u] = UINT_MAX
    BY <2>1 DEF Linked
  <2>3. l.prev[u] \in Timers
    BY DEF RestFrom
  <2> QED
    BY <2>2, <2>3
<1> HIDE DEF m
<1>3. RestFrom(m, S, x)
  BY <1>1, <1>2 DEF RestFrom
<1> QED
  BY <1>3 DEF m

(* A timer that is not of the rest is cleared, or has triggered. *)
LEMMA RestWithoutOther ==
    ASSUME NEW l \in ListType, NEW A \in SUBSET Timers, Linked(l, A),
           NEW S \in SUBSET A, NEW x, RestFrom(l, S, x), NEW t \in A \ S
    PROVE  RestFrom(removeTimerFromList(l, t, l.componentOffset[t]), S, x)
<1> DEFINE m == removeTimerFromList(l, t, l.componentOffset[t])
<1>1. l.componentOffset[t] \in Offsets
  BY DEF ListType
<1>2. /\ \A u \in A : m.next[u] = IF u = l.prev[t] THEN l.next[t] ELSE l.next[u]
      /\ \A u \in A : m.prev[u] = IF u = l.next[t] THEN l.prev[t] ELSE l.prev[u]
  BY <1>1, RemovedFields
<1>3. \A u \in S : u # l.prev[t]
  <2> SUFFICES ASSUME NEW u \in S, u = l.prev[t] PROVE FALSE
    OBVIOUS
  <2>1. l.next[u] = t
    BY LinksOf
  <2> QED
    BY <2>1 DEF RestFrom
<1>4. \A u \in S \ {x} : u # l.next[t]
  <2> SUFFICES ASSUME NEW u \in S \ {x}, u = l.next[t] PROVE FALSE
    OBVIOUS
  <2>1. l.prev[u] = t
    BY LinksOf
  <2> QED
    BY <2>1 DEF RestFrom
<1> HIDE DEF m
<1>5. RestFrom(m, S, x)
  BY <1>2, <1>3, <1>4 DEF RestFrom
<1> QED
  BY <1>5 DEF m

(* A timer of the rest is cleared, or moves. *)
LEMMA RestWithout ==
    ASSUME NEW l \in ListType, NEW A \in SUBSET Timers, Linked(l, A), Ranked(l, A),
           NEW S \in SUBSET A, NEW x, RestFrom(l, S, x), NEW t \in S
    PROVE  RestFrom(removeTimerFromList(l, t, l.componentOffset[t]), S \ {t},
                    IF t = x THEN l.next[x] ELSE x)
<1> DEFINE m == removeTimerFromList(l, t, l.componentOffset[t])
           y == IF t = x THEN l.next[x] ELSE x
<1>1. l.componentOffset[t] \in Offsets
  BY DEF ListType
<1>2. /\ \A u \in A : m.next[u] = IF u = l.prev[t] THEN l.next[t] ELSE l.next[u]
      /\ \A u \in A : m.prev[u] = IF u = l.next[t] THEN l.prev[t] ELSE l.prev[u]
  BY <1>1, RemovedFields
<1>3. \A u \in S : l.next[u] # x /\ x \in S
  BY RestBegins
<1>4. l.next[t] # t
  <2>1. PICK rank \in [Timers -> Nat] : RankedBy(l, A, rank)
    BY DEF Ranked
  <2> SUFFICES ASSUME l.next[t] = t PROVE FALSE
    OBVIOUS
  <2>2. rank[t] < rank[t] /\ rank[t] \in Nat
    BY <2>1 DEF RankedBy
  <2> QED
    BY <2>2
<1>5. \A u \in S : /\ l.next[u] \in S \union {UINT_MAX}
                   /\ u # x => l.prev[u] \in S
                   /\ \A v \in S : l.next[u] = v <=> l.prev[v] = u
  BY LinksOf DEF RestFrom
<1>6. y \in (S \ {t}) \union {UINT_MAX}
  BY <1>3, <1>4, <1>5
<1>7. ASSUME NEW u \in S \ {t} PROVE m.next[u] \in (S \ {t}) \union {UINT_MAX}
  <2>1. l.next[u] = t => u = l.prev[t]
    BY <1>5
  <2> HIDE DEF m
  <2> QED
    BY <1>2, <1>4, <1>5, <2>1
<1>8. ASSUME NEW u \in (S \ {t}) \ {y} PROVE m.prev[u] \in S \ {t}
  <2>1. CASE u = l.next[t]
    <3>1. t # x
      BY <1>8, <2>1
    <3>2. l.prev[t] \in S /\ l.prev[t] # t
      BY <1>4, <1>5, <3>1
    <3> HIDE DEF m, y
    <3> QED
      BY <1>2, <2>1, <3>2
  <2>2. CASE u # l.next[t]
    <3>1. u # x
      BY <1>3, <1>8
    <3>2. l.prev[u] \in S /\ l.prev[u] # t
      BY <1>5, <2>2, <3>1
    <3> HIDE DEF m, y
    <3> QED
      BY <1>2, <2>2, <3>2
  <2> QED
    BY <2>1, <2>2
<1> HIDE DEF m, y
<1>9. RestFrom(m, S \ {t}, y)
  BY <1>6, <1>7, <1>8 DEF RestFrom
<1> QED
  BY <1>9 DEF m, y

-------------------------------------------------------------------------------
(* The invariant. *)

(* Offsets of timers that wait have been handed out, and not returned. *)
OffsetsAreCounted == Cardinality(armed) <= freeTimersHead

(* Where the running tick goes on. *)
Cursor == IF ticking.phase = "callback" THEN lists.next[ticking.iterator]
          ELSE ticking.iterator

TickFollowsList ==
    /\ ticking.phase = "none" => unvisited = {}
    /\ ticking.phase # "none" =>
        /\ unvisited \subseteq In(lists, armed, ticking.component)
        /\ RestFrom(lists, unvisited, Cursor)
    /\ ticking.phase = "callback" =>
        ticking.iterator \in In(lists, armed, ticking.component) \ unvisited

TimersInv ==
    /\ TypeOK
    /\ OffsetsAreFree
    /\ OffsetsAreCounted
    /\ Linked(lists, armed)
    /\ Ranked(lists, armed)
    /\ TickFollowsList

LEMMA ArmedIsFinite ==
    ASSUME armed \subseteq Timers
    PROVE  IsFiniteSet(armed) /\ Cardinality(armed) \in Nat
<1>1. IsFiniteSet(Timers)
  BY FS_Interval DEF Timers
<1> QED
  BY <1>1, FS_Subset, FS_CardinalityType

LEMMA ListsType == ASSUME TypeOK PROVE lists \in ListType
BY DEF TypeOK, ListType

LEMMA TimersInit == Init => TimersInv
<1> SUFFICES ASSUME Init PROVE TimersInv
  OBVIOUS
<1> USE DEF Init
<1>1. TypeOK
  <2>1. lists \in [next : [Timers -> Links], prev : [Timers -> Links],
                   head : [Offsets -> Links], componentOffset : [Timers -> Offsets]]
    BY DEF Timers, Offsets, Links
  <2>2. ticking \in Ticks
    BY DEF Ticks, Offsets, Links
  <2>3. freeTimers \in [Timers -> Timers] /\ freeTimersHead \in 0 .. Size
        /\ sets \in 0 .. MaxSets
    BY DEF Timers
  <2>4. components \in [Timers -> [Offsets -> 0 .. Wide - 1]]
    BY DEF Timers, Offsets
  <2>5. age \in [Timers -> 0 .. MaxAge] /\ asked \in [Timers -> Delays \union {0}]
    OBVIOUS
  <2> QED
    BY <2>1, <2>2, <2>3, <2>4, <2>5 DEF TypeOK
<1>2. OffsetsAreFree
  BY DEF OffsetsAreFree, Timers
<1>3. OffsetsAreCounted
  BY FS_EmptySet DEF OffsetsAreCounted
<1>4. Linked(lists, armed)
  BY DEF Linked, In
<1>5. Ranked(lists, armed)
  <2>1. [t \in Timers |-> 0] \in [Timers -> Nat]
        /\ RankedBy(lists, armed, [t \in Timers |-> 0])
    BY DEF RankedBy
  <2> QED
    BY <2>1 DEF Ranked
<1>6. TickFollowsList
  BY DEF TickFollowsList
<1> QED
  BY <1>1, <1>2, <1>3, <1>4, <1>5, <1>6 DEF TimersInv

-------------------------------------------------------------------------------
(* Every step preserves it. *)

LEMMA SetKeeps ==
    ASSUME TimersInv, NEW ms \in Delays, setTimeout_(ms)
    PROVE  TimersInv'
<1>1. PICK t \in Timers : t = freeTimers[freeTimersHead]
  <2>1. freeTimers \in [Timers -> Timers]
    BY DEF TimersInv, TypeOK
  <2>2. freeTimersHead \in 0 .. Size /\ freeTimersHead < Size
    BY DEF setTimeout_, TimersInv, TypeOK
  <2>3. freeTimersHead \in Timers
    BY <2>2 DEF Timers
  <2> QED
    BY <2>1, <2>3
<1> DEFINE c == Largest(Divides(ms))
<1>2. /\ MayCall /\ freeTimersHead < Size /\ sets < MaxSets
      /\ sets' = sets + 1 /\ freeTimersHead' = freeTimersHead + 1
      /\ components' = [components EXCEPT ![t] = divideComponents(@, ms)]
      /\ lists' = addTimerToList(lists, t, c)
      /\ armed' = armed \union {t}
      /\ asked' = [asked EXCEPT ![t] = ms]
      /\ age' = [age EXCEPT ![t] = 0]
      /\ clean' \subseteq clean \union {t}
      /\ UNCHANGED <<freeTimers, ticking, due, clock, unvisited>>
  BY <1>1 DEF setTimeout_, systemVars
<1>3. c \in Offsets
  <2>1. Divides(ms) \subseteq Offsets
    BY DEF Divides
  <2> QED
    BY <2>1, LargestIsOne
<1>4. ms \in Nat
  OBVIOUS
<1> HIDE DEF c
<1>5. /\ lists \in ListType /\ armed \subseteq Timers
      /\ Linked(lists, armed) /\ Ranked(lists, armed)
  BY ListsType DEF TimersInv, TypeOK
<1>6. t \notin armed
  BY <1>1, <1>2 DEF TimersInv, TypeOK, OffsetsAreFree
<1>7. TypeOK'
  <2>1. divideComponents(components[t], ms) \in [Offsets -> 0 .. Wide - 1]
    BY <1>4, DividedType DEF TimersInv, TypeOK
  <2>2. components' \in [Timers -> [Offsets -> 0 .. Wide - 1]]
    BY <1>2, <2>1 DEF TimersInv, TypeOK
  <2>3. lists' \in ListType
    BY <1>2, <1>3, <1>5, AddedType
  <2>4. sets' \in 0 .. MaxSets /\ freeTimersHead' \in 0 .. Size
    BY <1>2 DEF TimersInv, TypeOK
  <2>5. asked' \in [Timers -> Delays \union {0}] /\ age' \in [Timers -> 0 .. MaxAge]
    BY <1>2 DEF TimersInv, TypeOK
  <2> QED
    BY <1>2, <2>2, <2>3, <2>4, <2>5 DEF TimersInv, TypeOK, ListType
<1>8. OffsetsAreFree'
  <2> SUFFICES ASSUME NEW i \in freeTimersHead + 1 .. Size - 1
               PROVE  /\ freeTimers[i] \notin armed \union {t}
                      /\ \A j \in freeTimersHead + 1 .. Size - 1 :
                            freeTimers[i] = freeTimers[j] => i = j
    BY <1>2 DEF OffsetsAreFree
  <2>1. freeTimersHead \in Nat /\ freeTimersHead \in freeTimersHead .. Size - 1
        /\ i # freeTimersHead /\ i \in freeTimersHead .. Size - 1
    BY <1>2 DEF TimersInv, TypeOK
  <2>2. \A j \in freeTimersHead + 1 .. Size - 1 : j \in freeTimersHead .. Size - 1
    BY <2>1
  <2> QED
    BY <1>1, <2>1, <2>2 DEF TimersInv, OffsetsAreFree
<1>9. OffsetsAreCounted'
  <2>1. Cardinality(armed') = Cardinality(armed) + 1
    BY <1>2, <1>5, <1>6, ArmedIsFinite, FS_AddElement
  <2>2. freeTimersHead \in Nat /\ Cardinality(armed) \in Nat
    BY <1>5, ArmedIsFinite DEF TimersInv, TypeOK
  <2> QED
    BY <1>2, <2>1, <2>2 DEF TimersInv, OffsetsAreCounted
<1>10. Linked(lists', armed') /\ Ranked(lists', armed')
  BY <1>2, <1>3, <1>5, <1>6, AddedLinks, AddedRanks
<1>11. TickFollowsList'
  <2>1. CASE ticking.phase = "none"
    BY <1>2, <2>1 DEF TimersInv, TickFollowsList
  <2>2. CASE ticking.phase = "callback"
    <3> DEFINE i == ticking.iterator
               k == ticking.component
    <3>1. /\ unvisited \subseteq In(lists, armed, k)
          /\ RestFrom(lists, unvisited, lists.next[i])
          /\ i \in In(lists, armed, k) \ unvisited
      BY <2>2 DEF TimersInv, TickFollowsList, Cursor
    <3>2. In(lists, armed, k) \subseteq In(lists', armed', k)
      <4>1. \A u \in armed : lists'.componentOffset[u] = lists.componentOffset[u]
        BY <1>2, <1>5, <1>6 DEF addTimerToList, ListType
      <4> QED
        BY <1>2, <4>1 DEF In
    <3>3. lists'.next[i] = lists.next[i]
      BY <1>2, <1>5, <1>6, <3>1 DEF addTimerToList, ListType, In
    <3>4. RestFrom(lists', unvisited, lists.next[i])
      <4>1. unvisited \subseteq armed
        BY <3>1 DEF In
      <4> QED
        BY <1>2, <1>3, <1>5, <1>6, <3>1, <4>1, RestWithAdded
    <3> QED
      BY <1>2, <2>2, <3>1, <3>2, <3>3, <3>4 DEF TickFollowsList, Cursor
  <2> QED
    BY <1>2, <2>1, <2>2 DEF MayCall, TimersInv, TypeOK, Ticks
<1> QED
  BY <1>7, <1>8, <1>9, <1>10, <1>11 DEF TimersInv

LEMMA ClearKeeps ==
    ASSUME TimersInv, NEW t \in Timers, clearTimeout_(t)
    PROVE  TimersInv'
<1> DEFINE c == lists.componentOffset[t]
<1>1. /\ MayCall /\ t \in armed
      /\ ticking.phase = "callback" => t # ticking.iterator
      /\ lists' = removeTimerFromList(lists, t, c)
      /\ freeTimersHead' = freeTimersHead - 1
      /\ freeTimers' = [freeTimers EXCEPT ![freeTimersHead - 1] = t]
      /\ armed' = armed \ {t}
      /\ asked' = [asked EXCEPT ![t] = 0]
      /\ age' = [age EXCEPT ![t] = 0]
      /\ clean' = clean \ {t}
      /\ unvisited' = unvisited \ {t}
      /\ UNCHANGED <<sets, components, ticking, due, clock>>
  BY DEF clearTimeout_, Forgets, systemVars
<1>2. /\ lists \in ListType /\ armed \subseteq Timers
      /\ Linked(lists, armed) /\ Ranked(lists, armed)
  BY ListsType DEF TimersInv, TypeOK
<1>3. c \in Offsets
  BY <1>2 DEF ListType
<1>4. Cardinality(armed') = Cardinality(armed) - 1 /\ Cardinality(armed) \in Nat
  BY <1>1, <1>2, ArmedIsFinite, FS_RemoveElement
<1>5. Cardinality(armed) > 0
  <2>1. armed # {} /\ IsFiniteSet(armed)
    BY <1>1, <1>2, ArmedIsFinite
  <2> QED
    BY <1>4, <2>1, FS_EmptySet
<1>6. freeTimersHead - 1 \in 0 .. Size - 1 /\ freeTimersHead \in Nat
  BY <1>4, <1>5 DEF TimersInv, TypeOK, OffsetsAreCounted
<1>7. TypeOK'
  <2>1. lists' \in ListType
    BY <1>1, <1>2, <1>3, RemovedType
  <2>2. freeTimers' \in [Timers -> Timers] /\ freeTimersHead' \in 0 .. Size
    <3>1. freeTimers \in [Timers -> Timers]
      BY DEF TimersInv, TypeOK
    <3>2. freeTimers' \in [Timers -> Timers]
      BY <1>1, <3>1
    <3>3. freeTimersHead' \in 0 .. Size
      BY <1>1, <1>6
    <3> QED
      BY <3>2, <3>3
  <2>3. asked' \in [Timers -> Delays \union {0}] /\ age' \in [Timers -> 0 .. MaxAge]
    BY <1>1 DEF TimersInv, TypeOK
  <2> QED
    BY <1>1, <2>1, <2>2, <2>3 DEF TimersInv, TypeOK, ListType
<1>8. OffsetsAreFree'
  <2> DEFINE h == freeTimersHead - 1
  <2>1. \A i \in h .. Size - 1 : i # h => i \in freeTimersHead .. Size - 1
    BY <1>6
  <2>2. \A i \in h .. Size - 1 : freeTimers'[i] = IF i = h THEN t ELSE freeTimers[i]
    <3>1. freeTimers \in [Timers -> Timers]
      BY DEF TimersInv, TypeOK
    <3>2. \A i \in h .. Size - 1 : i \in Timers
      BY <1>6 DEF Timers
    <3> HIDE DEF h
    <3>3. freeTimers' = [freeTimers EXCEPT ![h] = t]
      BY <1>1 DEF h
    <3> QED
      BY <3>1, <3>2, <3>3
  <2>3. \A i \in freeTimersHead .. Size - 1 : freeTimers[i] \notin armed
    BY DEF TimersInv, OffsetsAreFree
  <2> SUFFICES ASSUME NEW i \in h .. Size - 1
               PROVE  /\ freeTimers'[i] \notin armed'
                      /\ \A j \in h .. Size - 1 : freeTimers'[i] = freeTimers'[j] => i = j
    BY <1>1 DEF OffsetsAreFree
  <2>4. freeTimers'[i] \notin armed'
    BY <1>1, <2>1, <2>2, <2>3
  <2>5. ASSUME NEW j \in h .. Size - 1, freeTimers'[i] = freeTimers'[j] PROVE i = j
    <3> HIDE DEF h
    <3>1. CASE i = h \/ j = h
      BY <1>1, <2>1, <2>2, <2>3, <2>5, <3>1
    <3>2. CASE i # h /\ j # h
      BY <2>1, <2>2, <2>5, <3>2 DEF TimersInv, OffsetsAreFree
    <3> QED
      BY <3>1, <3>2
  <2> QED
    BY <2>4, <2>5
<1>9. OffsetsAreCounted'
  BY <1>1, <1>4, <1>6 DEF TimersInv, OffsetsAreCounted
<1>10. Linked(lists', armed') /\ Ranked(lists', armed')
  BY <1>1, <1>2, RemovedLinks, RemovedRanks
<1>11. TickFollowsList'
  <2>1. CASE ticking.phase = "none"
    BY <1>1, <2>1 DEF TimersInv, TickFollowsList
  <2>2. CASE ticking.phase = "callback"
    <3> DEFINE i == ticking.iterator
               k == ticking.component
               x == lists.next[i]
    <3>1. /\ unvisited \subseteq In(lists, armed, k)
          /\ RestFrom(lists, unvisited, x)
          /\ i \in In(lists, armed, k) \ unvisited /\ i # t
      BY <1>1, <2>2 DEF TimersInv, TickFollowsList, Cursor
    <3>2. unvisited \subseteq armed /\ i \in armed
      BY <3>1 DEF In
    <3>3. In(lists', armed', k) = In(lists, armed, k) \ {t}
      <4>1. lists'.componentOffset = lists.componentOffset
        BY <1>1, <1>2, <1>3, RemovedFields
      <4> QED
        BY <1>1, <4>1 DEF In
    <3>4. lists'.next[i] = IF i = lists.prev[t] THEN lists.next[t] ELSE x
      BY <1>1, <1>2, <1>3, <3>2, RemovedFields
    <3>5. i = lists.prev[t] <=> x = t
      BY <1>1, <1>2, <3>2, LinksOf
    <3>6. RestFrom(lists', unvisited \ {t}, lists'.next[i])
      <4>1. CASE t \in unvisited
        <5>1. lists'.next[i] = IF t = x THEN lists.next[x] ELSE x
          BY <3>4, <3>5
        <5> HIDE DEF x
        <5> QED
          BY <1>1, <1>2, <3>1, <3>2, <4>1, <5>1, RestWithout
      <4>2. CASE t \notin unvisited
        <5>1. x # t
          BY <3>1, <4>2 DEF RestFrom
        <5>2. unvisited \ {t} = unvisited /\ lists'.next[i] = x
          BY <3>4, <3>5, <4>2, <5>1
        <5> HIDE DEF x
        <5> QED
          BY <1>1, <1>2, <3>1, <3>2, <4>2, <5>2, RestWithoutOther
      <4> QED
        BY <4>1, <4>2
    <3> QED
      BY <1>1, <2>2, <3>1, <3>3, <3>6 DEF TickFollowsList, Cursor
  <2> QED
    BY <1>1, <2>1, <2>2 DEF MayCall, TimersInv, TypeOK, Ticks
<1> QED
  BY <1>7, <1>8, <1>9, <1>10, <1>11 DEF TimersInv

LEMMA TimePassesKeeps == ASSUME TimersInv, TimePasses PROVE TimersInv'
<1>1. /\ age' = [t \in Timers |-> IF t \in armed /\ age[t] < MaxAge THEN age[t] + 1
                                  ELSE age[t]]
      /\ clock' = (clock + 1) % Period
      /\ due' \subseteq Offsets
      /\ UNCHANGED <<freeTimers, freeTimersHead, sets, components, lists, ticking,
                     armed, asked, clean, unvisited>>
  BY DEF TimePasses, allocVars
<1>2. age' \in [Timers -> 0 .. MaxAge]
  <2>1. age \in [Timers -> 0 .. MaxAge]
    BY DEF TimersInv, TypeOK
  <2> QED
    BY <1>1, <2>1
<1>3. clock' \in Nat
  <2>1. clock + 1 \in Int
    BY DEF TimersInv, TypeOK
  <2>2. Period \in Nat \ {0}
    <3>1. Components - 1 \in 0 .. Components - 1
      OBVIOUS
    <3> QED
      BY <3>1 DEF Period
  <2>3. \A a \in Int, b \in Nat \ {0} : a % b \in Nat
    BY ModType
  <2> QED
    BY <1>1, <2>1, <2>2, <2>3, Zenon
<1>4. TypeOK'
  BY <1>1, <1>2, <1>3 DEF TimersInv, TypeOK
<1> QED
  BY <1>1, <1>4 DEF TimersInv, OffsetsAreFree, OffsetsAreCounted, TickFollowsList, Cursor

(* A tick begins with the whole list before it. *)
LEMMA TickKeeps ==
    ASSUME TimersInv, NEW c \in Offsets, tick(c)
    PROVE  TimersInv'
<1>1. /\ due' = due \ {c}
      /\ ticking' = [phase |-> "iterates", component |-> c, iterator |-> lists.head[c]]
      /\ unvisited' = In(lists, armed, c)
      /\ UNCHANGED <<freeTimers, freeTimersHead, sets, components, lists, clock,
                     armed, asked, age, clean>>
  BY DEF tick, allocVars, waitVars, InList, In
<1>2. /\ lists \in ListType /\ armed \subseteq Timers
      /\ Linked(lists, armed) /\ Ranked(lists, armed)
  BY ListsType DEF TimersInv, TypeOK
<1>3. ticking' \in Ticks
  <2>1. lists.head[c] \in Links
    BY <1>2 DEF ListType
  <2> QED
    BY <1>1, <2>1 DEF Ticks
<1>4. TypeOK'
  <2>1. unvisited' \subseteq Timers
    BY <1>1, <1>2 DEF In
  <2> QED
    BY <1>1, <1>3, <2>1 DEF TimersInv, TypeOK
<1>5. RestFrom(lists, In(lists, armed, c), lists.head[c])
  BY <1>2 DEF Linked, RestFrom
<1>6. TickFollowsList'
  BY <1>1, <1>5 DEF TickFollowsList, Cursor
<1> QED
  BY <1>1, <1>4, <1>6 DEF TimersInv, OffsetsAreFree, OffsetsAreCounted

LEMMA TickEndsKeeps == ASSUME TimersInv, tickEnds PROVE TimersInv'
<1>1. /\ ticking.phase = "iterates" /\ ticking.iterator = UINT_MAX
      /\ ticking' = [ticking EXCEPT !.phase = "none"]
      /\ UNCHANGED <<freeTimers, freeTimersHead, sets, components, lists, due, clock,
                     armed, asked, age, clean, unvisited>>
  BY DEF tickEnds, Iterates, allocVars, systemVars, waitVars
<1>2. ticking' \in Ticks /\ ticking'.phase = "none"
  BY <1>1 DEF TimersInv, TypeOK, Ticks
<1>3. TypeOK'
  BY <1>1, <1>2 DEF TimersInv, TypeOK
<1>4. unvisited = {}
  <2>1. /\ unvisited \subseteq In(lists, armed, ticking.component)
        /\ RestFrom(lists, unvisited, UINT_MAX)
    BY <1>1 DEF TimersInv, TickFollowsList, Cursor
  <2>2. unvisited \subseteq armed /\ armed \subseteq Timers
    BY <2>1 DEF In, TimersInv, TypeOK
  <2>3. UINT_MAX \notin unvisited
    BY <2>2
  <2> QED
    BY <2>1, <2>2, <2>3, RestBegins, ListsType DEF TimersInv
<1>5. TickFollowsList'
  BY <1>1, <1>2, <1>4 DEF TickFollowsList
<1> QED
  BY <1>1, <1>3, <1>5 DEF TimersInv, OffsetsAreFree, OffsetsAreCounted

(* What the tick does at the timer it has come to, whatever follows. *)
LEMMA DecrementKeeps ==
    ASSUME TimersInv, NEW t \in Timers, NEW c \in Offsets, Decrement(t, c)
    PROVE  /\ components' \in [Timers -> [Offsets -> 0 .. Wide - 1]]
           /\ unvisited' = unvisited \ {t}
           /\ ticking.phase = "iterates" /\ ticking.component = c
           /\ t \in unvisited /\ t \in armed /\ lists.componentOffset[t] = c
           /\ unvisited \subseteq In(lists, armed, c) /\ unvisited \subseteq armed
           /\ RestFrom(lists, unvisited \ {t}, lists.next[t])
           /\ lists.next[t] \in Links
<1>1. /\ components' = [components EXCEPT ![t][c] = (@ - 1) % Wide]
      /\ unvisited' = unvisited \ {t}
      /\ ticking.phase = "iterates" /\ ticking.component = c
      /\ ticking.iterator = t /\ t # UINT_MAX
  BY DEF Decrement, Iterates
<1>2. components' \in [Timers -> [Offsets -> 0 .. Wide - 1]]
  <2>1. components \in [Timers -> [Offsets -> 0 .. Wide - 1]]
    BY DEF TimersInv, TypeOK
  <2>2. components[t][c] - 1 \in Int
    BY <2>1
  <2>3. (components[t][c] - 1) % Wide \in 0 .. Wide - 1
    <3>1. \A a \in Int, b \in Nat \ {0} : a % b \in 0 .. b - 1
      BY ModType
    <3> QED
      BY <2>2, <3>1, Zenon
  <2> DEFINE n == (components[t][c] - 1) % Wide
  <2>4. components' = [components EXCEPT ![t] = [components[t] EXCEPT ![c] = n]]
    BY <1>1, <2>1
  <2>5. n \in 0 .. Wide - 1
    BY <2>3
  <2> HIDE DEF n
  <2>6. [components[t] EXCEPT ![c] = n] \in [Offsets -> 0 .. Wide - 1]
    BY <2>1, <2>5
  <2> QED
    BY <2>1, <2>4, <2>6
<1>3. /\ lists \in ListType /\ armed \subseteq Timers
      /\ Linked(lists, armed) /\ Ranked(lists, armed)
  BY ListsType DEF TimersInv, TypeOK
<1>4. unvisited \subseteq In(lists, armed, c) /\ RestFrom(lists, unvisited, t)
  BY <1>1 DEF TimersInv, TickFollowsList, Cursor
<1>5. unvisited \subseteq armed
  BY <1>4 DEF In
<1>6. t \in unvisited
  BY <1>1, <1>4 DEF RestFrom
<1>7. t \in armed /\ lists.componentOffset[t] = c
  BY <1>4, <1>6 DEF In
<1>8. RestFrom(lists, unvisited \ {t}, lists.next[t])
  BY <1>3, <1>4, <1>5, <1>6, RestAfter
<1>9. lists.next[t] \in Links
  BY <1>3 DEF ListType
<1> QED
  BY <1>1, <1>2, <1>4, <1>5, <1>6, <1>7, <1>8, <1>9

LEMMA KeepsWaitingKeeps ==
    ASSUME TimersInv, NEW t \in Timers, NEW c \in Offsets, KeepsWaiting(t, c)
    PROVE  TimersInv'
<1>1. /\ Decrement(t, c)
      /\ ticking' = [ticking EXCEPT !.iterator = lists.next[t]]
      /\ UNCHANGED <<freeTimers, freeTimersHead, sets, lists, due, clock,
                     armed, asked, age, clean>>
  BY DEF KeepsWaiting, allocVars, systemVars, waitVars
<1>2. /\ components' \in [Timers -> [Offsets -> 0 .. Wide - 1]]
      /\ unvisited' = unvisited \ {t}
      /\ ticking.phase = "iterates" /\ ticking.component = c
      /\ unvisited \subseteq In(lists, armed, c) /\ unvisited \subseteq armed
      /\ RestFrom(lists, unvisited \ {t}, lists.next[t])
      /\ lists.next[t] \in Links
  BY <1>1, DecrementKeeps
<1>3. /\ ticking' \in Ticks /\ ticking'.phase = "iterates"
      /\ ticking'.component = c /\ ticking'.iterator = lists.next[t]
  BY <1>1, <1>2 DEF TimersInv, TypeOK, Ticks
<1>4. TypeOK'
  <2>1. unvisited' \subseteq Timers
    BY <1>2 DEF TimersInv, TypeOK
  <2> QED
    BY <1>1, <1>2, <1>3, <2>1 DEF TimersInv, TypeOK
<1>5. TickFollowsList'
  BY <1>1, <1>2, <1>3 DEF TickFollowsList, Cursor
<1> QED
  BY <1>1, <1>4, <1>5 DEF TimersInv, OffsetsAreFree, OffsetsAreCounted

LEMMA TriggersKeeps ==
    ASSUME TimersInv, NEW t \in Timers, NEW c \in Offsets, Triggers(t, c)
    PROVE  TimersInv'
<1>1. /\ Decrement(t, c)
      /\ ticking' = [ticking EXCEPT !.phase = "callback"]
      /\ UNCHANGED <<freeTimers, freeTimersHead, sets, lists, due, clock,
                     armed, asked, age, clean>>
  BY DEF Triggers, allocVars, systemVars, waitVars
<1>2. /\ components' \in [Timers -> [Offsets -> 0 .. Wide - 1]]
      /\ unvisited' = unvisited \ {t}
      /\ ticking.phase = "iterates" /\ ticking.component = c
      /\ t \in unvisited
      /\ unvisited \subseteq In(lists, armed, c) /\ unvisited \subseteq armed
      /\ RestFrom(lists, unvisited \ {t}, lists.next[t])
  BY <1>1, DecrementKeeps
<1>3. /\ ticking' \in Ticks /\ ticking'.phase = "callback"
      /\ ticking'.component = c /\ ticking'.iterator = t
  BY <1>1, <1>2 DEF TimersInv, TypeOK, Ticks, Decrement
<1>4. TypeOK'
  <2>1. unvisited' \subseteq Timers
    BY <1>2 DEF TimersInv, TypeOK
  <2> QED
    BY <1>1, <1>2, <1>3, <2>1 DEF TimersInv, TypeOK
<1>5. TickFollowsList'
  BY <1>1, <1>2, <1>3 DEF TickFollowsList, Cursor
<1> QED
  BY <1>1, <1>4, <1>5 DEF TimersInv, OffsetsAreFree, OffsetsAreCounted

LEMMA MovesKeeps ==
    ASSUME TimersInv, NEW t \in Timers, NEW c \in Offsets, Moves(t, c)
    PROVE  TimersInv'
<1> DEFINE d == Largest(LeftAfter(t, c))
           m == removeTimerFromList(lists, t, lists.componentOffset[t])
<1>1. /\ Decrement(t, c)
      /\ LeftAfter(t, c) # {}
      /\ ticking' = [ticking EXCEPT !.iterator = lists.next[t]]
      /\ lists' = addTimerToList(m, t, d)
      /\ UNCHANGED <<freeTimers, freeTimersHead, sets, due, clock,
                     armed, asked, age, clean>>
  BY DEF Moves, moveTimerToList, allocVars, systemVars, waitVars
<1>2. /\ components' \in [Timers -> [Offsets -> 0 .. Wide - 1]]
      /\ unvisited' = unvisited \ {t}
      /\ ticking.phase = "iterates" /\ ticking.component = c
      /\ t \in unvisited /\ t \in armed
      /\ unvisited \subseteq In(lists, armed, c) /\ unvisited \subseteq armed
      /\ RestFrom(lists, unvisited \ {t}, lists.next[t])
      /\ lists.next[t] \in Links
  BY <1>1, DecrementKeeps
<1>3. d \in Offsets
  <2>1. LeftAfter(t, c) \subseteq Offsets
    BY DEF LeftAfter, Offsets
  <2> QED
    BY <2>1, LargestIsOne
<1> HIDE DEF d
<1>4. /\ lists \in ListType /\ armed \subseteq Timers
      /\ Linked(lists, armed) /\ Ranked(lists, armed)
  BY ListsType DEF TimersInv, TypeOK
<1>5. /\ m \in ListType
      /\ Linked(m, armed \ {t}) /\ Ranked(m, armed \ {t})
      /\ m.componentOffset = lists.componentOffset
  <2>1. lists.componentOffset[t] \in Offsets
    BY <1>4 DEF ListType
  <2>2. m \in ListType /\ m.componentOffset = lists.componentOffset
    BY <1>4, <2>1, RemovedType, RemovedFields
  <2>3. Linked(m, armed \ {t})
    BY <1>2, <1>4, RemovedLinks
  <2>4. Ranked(m, armed \ {t})
    BY <1>2, <1>4, RemovedRanks
  <2> QED
    BY <2>2, <2>3, <2>4
<1>6. RestFrom(m, unvisited \ {t}, lists.next[t])
  BY <1>2, <1>4, RestWithoutOther
<1> HIDE DEF m
<1>7. /\ lists' \in ListType
      /\ Linked(lists', armed') /\ Ranked(lists', armed')
      /\ RestFrom(lists', unvisited', lists.next[t])
  <2>1. (armed \ {t}) \union {t} = armed /\ armed \ {t} \in SUBSET Timers
        /\ unvisited \ {t} \in SUBSET (armed \ {t})
    BY <1>2, <1>4
  <2> DEFINE B == armed \ {t}
             S == unvisited \ {t}
  <2>2. /\ lists' = addTimerToList(m, t, d) /\ armed' = B \union {t}
        /\ unvisited' = S /\ B \in SUBSET Timers /\ S \in SUBSET B /\ t \notin B
        /\ Linked(m, B) /\ Ranked(m, B) /\ RestFrom(m, S, lists.next[t])
    BY <1>1, <1>2, <1>5, <1>6, <2>1
  <2> HIDE DEF B, S
  <2>3. lists' \in ListType
    BY <1>3, <1>5, <2>2, AddedType
  <2>4. Linked(lists', armed')
    BY <1>3, <1>5, <2>2, AddedLinks
  <2>5. Ranked(lists', armed')
    BY <1>3, <1>5, <2>2, AddedRanks
  <2>6. RestFrom(lists', unvisited', lists.next[t])
    BY <1>3, <1>5, <2>2, RestWithAdded
  <2> QED
    BY <2>3, <2>4, <2>5, <2>6
<1>8. unvisited' \subseteq In(lists', armed', c)
  <2>1. \A u \in armed \ {t} : lists'.componentOffset[u] = lists.componentOffset[u]
    BY <1>1, <1>4, <1>5 DEF addTimerToList, ListType
  <2> QED
    BY <1>1, <1>2, <2>1 DEF In
<1>9. /\ ticking' \in Ticks /\ ticking'.phase = "iterates"
      /\ ticking'.component = c /\ ticking'.iterator = lists.next[t]
  BY <1>1, <1>2 DEF TimersInv, TypeOK, Ticks
<1>10. TypeOK'
  <2>1. unvisited' \subseteq Timers
    BY <1>2 DEF TimersInv, TypeOK
  <2> QED
    BY <1>1, <1>2, <1>7, <1>9, <2>1 DEF TimersInv, TypeOK, ListType
<1>11. TickFollowsList'
  BY <1>1, <1>7, <1>8, <1>9 DEF TickFollowsList, Cursor
<1> QED
  BY <1>1, <1>7, <1>10, <1>11 DEF TimersInv, OffsetsAreFree, OffsetsAreCounted

LEMMA CallbackReturnsKeeps ==
    ASSUME TimersInv, NEW t \in Timers, NEW c \in Offsets, CallbackReturns(t, c)
    PROVE  TimersInv'
<1>1. /\ ticking = [phase |-> "callback", component |-> c, iterator |-> t]
      /\ ticking' = [ticking EXCEPT !.iterator = lists.next[t], !.phase = "iterates"]
      /\ lists' = removeTimerFromList(lists, t, c)
      /\ armed' = armed \ {t}
      /\ asked' = [asked EXCEPT ![t] = 0]
      /\ age' = [age EXCEPT ![t] = 0]
      /\ clean' = clean \ {t}
      /\ UNCHANGED <<freeTimers, freeTimersHead, sets, components, due, clock, unvisited>>
  BY DEF CallbackReturns, Forgets, allocVars, systemVars
<1>2. /\ lists \in ListType /\ armed \subseteq Timers
      /\ Linked(lists, armed) /\ Ranked(lists, armed)
  BY ListsType DEF TimersInv, TypeOK
<1>3. /\ unvisited \subseteq In(lists, armed, c)
      /\ RestFrom(lists, unvisited, lists.next[t])
      /\ t \in In(lists, armed, c) \ unvisited
  BY <1>1 DEF TimersInv, TickFollowsList, Cursor
<1>4. t \in armed /\ lists.componentOffset[t] = c /\ unvisited \subseteq armed
  BY <1>3 DEF In
<1>5. /\ lists' \in ListType
      /\ lists'.componentOffset = lists.componentOffset
  BY <1>1, <1>2, RemovedType, RemovedFields
<1>6. /\ Linked(lists', armed') /\ Ranked(lists', armed')
      /\ RestFrom(lists', unvisited, lists.next[t])
  BY <1>1, <1>2, <1>3, <1>4, RemovedLinks, RemovedRanks, RestWithoutOther
<1>7. /\ ticking' \in Ticks /\ ticking'.phase = "iterates"
      /\ ticking'.component = c /\ ticking'.iterator = lists.next[t]
  <2>1. lists.next[t] \in Links
    BY <1>2 DEF ListType
  <2> QED
    BY <1>1, <2>1 DEF Ticks
<1>8. TypeOK'
  <2>1. asked' \in [Timers -> Delays \union {0}] /\ age' \in [Timers -> 0 .. MaxAge]
    BY <1>1 DEF TimersInv, TypeOK
  <2> QED
    BY <1>1, <1>5, <1>7, <2>1 DEF TimersInv, TypeOK, ListType
<1>9. OffsetsAreFree'
  BY <1>1 DEF TimersInv, OffsetsAreFree
<1>10. OffsetsAreCounted'
  <2>1. Cardinality(armed') = Cardinality(armed) - 1 /\ Cardinality(armed) \in Nat
    BY <1>1, <1>2, <1>4, ArmedIsFinite, FS_RemoveElement
  <2> QED
    BY <1>1, <2>1 DEF TimersInv, TypeOK, OffsetsAreCounted
<1>11. unvisited \subseteq In(lists', armed', c)
  BY <1>1, <1>3, <1>4, <1>5 DEF In
<1>12. TickFollowsList'
  BY <1>1, <1>6, <1>7, <1>11 DEF TickFollowsList, Cursor
<1> QED
  BY <1>6, <1>8, <1>9, <1>10, <1>12 DEF TimersInv

LEMMA TimersStep == TimersInv /\ [Next]_vars => TimersInv'
<1> SUFFICES ASSUME TimersInv, [Next]_vars PROVE TimersInv'
  OBVIOUS
<1>1. CASE UNCHANGED vars
  BY <1>1 DEF TimersInv, TypeOK, OffsetsAreFree, OffsetsAreCounted, TickFollowsList,
              Cursor, vars, allocVars, systemVars, waitVars
<1>2. CASE Next
  BY <1>2, SetKeeps, ClearKeeps, TimePassesKeeps, TickKeeps, TickEndsKeeps,
     KeepsWaitingKeeps, MovesKeeps, TriggersKeeps, CallbackReturnsKeeps DEF Next
<1> QED
  BY <1>1, <1>2

LEMMA TimersAlways == Spec => []TimersInv
BY TimersInit, TimersStep, PTL DEF Spec

-------------------------------------------------------------------------------
(* Theorems. *)

\* Every variable keeps its type: no component leaves its width, no link its array.
THEOREM TimersTypeCorrect == Spec => []TypeOK
<1>1. TimersInv => TypeOK
  BY DEF TimersInv
<1> QED
  BY <1>1, TimersAlways, PTL

\* The lists stay linked through the timers that wait, an offset that can be handed
\* out belongs to none of them, and a tick comes to each timer of its list once,
\* whatever callbacks set and clear meanwhile.
THEOREM TimersSafety == Spec => []TimersAreWellFormed
<1>1. ASSUME TimersInv PROVE TimersAreWellFormed
  <2>1. ListsAreLinked
    BY <1>1 DEF TimersInv, Linked, ListsAreLinked, In, InList
  <2>2. TickVisitsItsList
    <3>1. CASE ticking.phase # "none"
      <4>1. /\ unvisited \subseteq armed
            /\ RestFrom(lists, unvisited, Cursor)
            /\ ticking.phase = "callback" => ticking.iterator \in armed \ unvisited
        BY <1>1, <3>1 DEF TimersInv, TickFollowsList, In
      <4>2. /\ unvisited = {} => Cursor = UINT_MAX
            /\ unvisited # {} => Cursor \in unvisited
        BY <1>1, <4>1, ListsType, RestBegins DEF TimersInv, TypeOK
      <4> QED
        BY <3>1, <4>1, <4>2 DEF TickVisitsItsList, Cursor
    <3>2. CASE ticking.phase = "none"
      BY <1>1, <3>2 DEF TimersInv, TickFollowsList, TickVisitsItsList
    <3> QED
      BY <3>1, <3>2
  <2> QED
    BY <1>1, <2>1, <2>2 DEF TimersInv, TimersAreWellFormed
<1> QED
  BY <1>1, TimersAlways, PTL

-------------------------------------------------------------------------------
(* Sums over components. *)

LEMMA SumRecursion ==
    ASSUME NEW g \in [Offsets -> Nat]
    PROVE  /\ SumBelow(g) \in [0 .. Components -> Nat]
           /\ SumBelow(g)[0] = 0
           /\ \A k \in Offsets : SumBelow(g)[k + 1] = SumBelow(g)[k] + g[k]
<1> DEFINE All == 0 .. Components
           FT == [All -> Nat]
           Agrees(f, n) == /\ f[0] = 0
                           /\ \A k \in 0 .. n - 1 : f[k + 1] = f[k] + g[k]
           T == {n \in All : \E f \in FT : Agrees(f, n)}
<1>1. 0 \in T
  <2> DEFINE f == [k \in All |-> 0]
  <2>1. f \in FT /\ f[0] = 0
    OBVIOUS
  <2>2. \A k \in 0 .. 0 - 1 : FALSE
    OBVIOUS
  <2>3. Agrees(f, 0)
    BY <2>1, <2>2
  <2>4. 0 \in All
    OBVIOUS
  <2> HIDE DEF f, FT, Agrees
  <2> QED
    BY <2>1, <2>3, <2>4
<1>2. ASSUME NEW n \in 0 .. Components - 1, n \in T PROVE n + 1 \in T
  <2>1. PICK f \in FT : Agrees(f, n)
    BY <1>2
  <2> DEFINE h == [f EXCEPT ![n + 1] = f[n] + g[n]]
  <2>2. g[n] \in Nat /\ f[n] \in Nat /\ n + 1 \in All /\ n \in All
    BY <2>1 DEF Offsets
  <2>3. h \in FT
    BY <2>1, <2>2
  <2>4. Agrees(h, n + 1)
    <3>1. h[0] = 0
      BY <2>1, <2>2
    <3>2. ASSUME NEW k \in 0 .. n PROVE h[k + 1] = h[k] + g[k]
      <4>1. k \in All /\ k + 1 \in All /\ k # n + 1
        BY <3>2
      <4>2. CASE k = n
        BY <2>1, <2>2, <4>1, <4>2
      <4>3. CASE k # n
        BY SMTT(30), <2>1, <2>2, <4>1, <4>3
      <4> QED
        BY <4>2, <4>3
    <3> QED
      BY <3>1, <3>2
  <2> HIDE DEF h, FT, Agrees
  <2> QED
    BY <2>2, <2>3, <2>4
<1>3. Components \in T
  <2>1. 0 .. Components \subseteq T
    <3> HIDE DEF T
    <3> QED
      BY <1>1, <1>2, Counting
  <2>2. Components \in 0 .. Components
    OBVIOUS
  <2> HIDE DEF T
  <2> QED
    BY <2>1, <2>2
<1>4. PICK f \in FT : Agrees(f, Components)
  BY <1>3
<1> DEFINE Rec(h) == [c \in 0 .. Components |-> IF c = 0 THEN 0 ELSE h[c - 1] + g[c - 1]]
<1>5. f = Rec(f)
  <2>1. ASSUME NEW c \in All PROVE f[c] = IF c = 0 THEN 0 ELSE f[c - 1] + g[c - 1]
    <3>1. CASE c = 0
      BY <1>4, <3>1
    <3>2. CASE c # 0
      <4>1. c - 1 \in 0 .. Components - 1 /\ c - 1 + 1 = c
        BY <3>2
      <4> QED
        BY <1>4, <3>2, <4>1
    <3> QED
      BY <3>1, <3>2
  <2> QED
    BY <1>4, <2>1
<1>6. SumBelow(g) = CHOOSE h : h = Rec(h)
  BY DEF SumBelow
<1> DEFINE s == SumBelow(g)
<1>7. s = Rec(s)
  <2> HIDE DEF Rec
  <2>1. (CHOOSE h : h = Rec(h)) = Rec(CHOOSE h : h = Rec(h))
    BY <1>5
  <2> QED
    BY <1>6, <2>1
<1> HIDE DEF s
<1>8. \A c \in 0 .. Components : s[c] = IF c = 0 THEN 0 ELSE s[c - 1] + g[c - 1]
  BY <1>7
<1>9. s[0] = 0
  BY <1>8
<1>10. \A k \in Offsets : s[k + 1] = s[k] + g[k]
  <2> SUFFICES ASSUME NEW k \in Offsets PROVE s[k + 1] = s[k] + g[k]
    OBVIOUS
  <2>1. k \in Nat /\ k + 1 \in 0 .. Components
    BY DEF Offsets
  <2> HIDE DEF Rec
  <2> QED
    BY <1>8, <2>1
<1>11. s \in [0 .. Components -> Nat]
  <2> DEFINE U == {k \in 0 .. Components : s[k] \in Nat}
  <2>1. 0 \in U
    BY <1>9
  <2>2. ASSUME NEW k \in 0 .. Components - 1, k \in U PROVE k + 1 \in U
    <3>1. k \in Offsets /\ k + 1 \in 0 .. Components /\ s[k] \in Nat /\ g[k] \in Nat
      BY <2>2 DEF Offsets
    <3>2. s[k + 1] = s[k] + g[k]
      BY <1>10, <3>1
    <3> QED
      BY <3>1, <3>2
  <2>3. 0 .. Components \subseteq U
    <3> HIDE DEF U
    <3> QED
      BY <2>1, <2>2, Counting
  <2> QED
    BY <1>7, <2>3
<1> QED
  BY <1>9, <1>10, <1>11 DEF s

SameBelow(g, h, c) == \A d \in Offsets : d < c => g[d] = h[d]

LEMMA SumAgrees ==
    ASSUME NEW g \in [Offsets -> Nat], NEW h \in [Offsets -> Nat], NEW c \in 0 .. Components,
           SameBelow(g, h, c)
    PROVE  SumBelow(g)[c] = SumBelow(h)[c]
<1> DEFINE T == {k \in 0 .. c : SumBelow(g)[k] = SumBelow(h)[k]}
<1>1. 0 \in T
  BY SumRecursion
<1>2. ASSUME NEW k \in 0 .. c - 1, k \in T PROVE k + 1 \in T
  <2>1. k \in Offsets /\ k < c /\ k + 1 \in 0 .. c
    BY DEF Offsets
  <2>2. SumBelow(g)[k + 1] = SumBelow(g)[k] + g[k]
    BY <2>1, SumRecursion
  <2>3. SumBelow(h)[k + 1] = SumBelow(h)[k] + h[k]
    BY <2>1, SumRecursion
  <2> QED
    BY <1>2, <2>1, <2>2, <2>3 DEF SameBelow
<1>3. 0 .. c \subseteq T
  <2>1. c \in Nat
    OBVIOUS
  <2> HIDE DEF T
  <2> QED
    BY <1>1, <1>2, <2>1, Counting
<1> QED
  BY <1>3

LEMMA SumAdds ==
    ASSUME NEW f \in [Offsets -> Nat], NEW g \in [Offsets -> Nat], NEW h \in [Offsets -> Nat],
           \A d \in Offsets : f[d] = g[d] + h[d]
    PROVE  SumBelow(f)[Components] = SumBelow(g)[Components] + SumBelow(h)[Components]
<1> DEFINE T == {k \in 0 .. Components : SumBelow(f)[k] = SumBelow(g)[k] + SumBelow(h)[k]}
<1>1. 0 \in T
  <2>1. SumBelow(f)[0] = 0
    BY SumRecursion
  <2>2. SumBelow(g)[0] = 0
    BY SumRecursion
  <2>3. SumBelow(h)[0] = 0
    BY SumRecursion
  <2> QED
    BY <2>1, <2>2, <2>3
<1>2. ASSUME NEW k \in 0 .. Components - 1, k \in T PROVE k + 1 \in T
  <2>1. k \in Offsets /\ k + 1 \in 0 .. Components /\ k \in 0 .. Components
    BY DEF Offsets
  <2>2. SumBelow(f)[k + 1] = SumBelow(f)[k] + f[k]
    BY <2>1, SumRecursion
  <2>3. SumBelow(g)[k + 1] = SumBelow(g)[k] + g[k] /\ SumBelow(g)[k] \in Nat
    BY <2>1, SumRecursion
  <2>4. SumBelow(h)[k + 1] = SumBelow(h)[k] + h[k] /\ SumBelow(h)[k] \in Nat
    BY <2>1, SumRecursion
  <2>5. f[k] = g[k] + h[k] /\ g[k] \in Nat /\ h[k] \in Nat
    BY <2>1
  <2> QED
    BY <1>2, <2>1, <2>2, <2>3, <2>4, <2>5
<1>3. 0 .. Components \subseteq T
  <2> HIDE DEF T
  <2> QED
    BY <1>1, <1>2, Counting
<1>4. Components \in T
  <2>1. Components \in 0 .. Components
    OBVIOUS
  <2> HIDE DEF T
  <2> QED
    BY <1>3, <2>1
<1> QED
  BY <1>4

(* Components that are zero add nothing. *)
LEMMA SumSkips ==
    ASSUME NEW g \in [Offsets -> Nat], NEW c \in 0 .. Components, NEW d \in 0 .. c,
           \A e \in Offsets : d <= e /\ e < c => g[e] = 0
    PROVE  SumBelow(g)[c] = SumBelow(g)[d]
<1> DEFINE T == {k \in 0 .. c - d : SumBelow(g)[d + k] = SumBelow(g)[d]}
<1>1. 0 \in T
  OBVIOUS
<1>2. ASSUME NEW k \in 0 .. c - d - 1, k \in T PROVE k + 1 \in T
  <2>1. d + k \in Offsets /\ d <= d + k /\ d + k < c /\ k + 1 \in 0 .. c - d
        /\ d + (k + 1) = d + k + 1 /\ d + k \in 0 .. Components
    BY DEF Offsets
  <2>2. SumBelow(g)[d + k + 1] = SumBelow(g)[d + k] + g[d + k] /\ SumBelow(g)[d + k] \in Nat
    BY <2>1, SumRecursion
  <2>3. g[d + k] = 0
    BY <2>1
  <2> QED
    BY <1>2, <2>1, <2>2, <2>3
<1>3. 0 .. c - d \subseteq T
  <2>1. c - d \in Nat
    OBVIOUS
  <2> HIDE DEF T
  <2> QED
    BY <1>1, <1>2, <2>1, Counting
<1>4. c - d \in 0 .. c - d /\ d + (c - d) = c
  OBVIOUS
<1> QED
  BY <1>3, <1>4

-------------------------------------------------------------------------------
(* Products and remainders. *)

LEMMA ProductType ==
    ASSUME NEW m \in Nat, NEW n \in Nat
    PROVE  m * n \in Nat
  OBVIOUS

LEMMA OneLess ==
    ASSUME NEW m \in Nat, NEW n \in Nat, n # 0
    PROVE  n * m = (n - 1) * m + m /\ (n - 1) * m \in Nat /\ n * m \in Nat
<1>1. n - 1 \in Nat /\ (n - 1) * m = n * m - m
  OBVIOUS
<1>2. (n - 1) * m \in Nat /\ n * m \in Nat
  BY <1>1, ProductType
<1> DEFINE p == n * m
           q == (n - 1) * m
<1>3. q = p - m /\ p \in Nat
  BY <1>1, <1>2
<1> HIDE DEF p, q
<1>4. p = q + m
  BY <1>3
<1> QED
  BY <1>2, <1>4 DEF p, q

LEMMA Division ==
    ASSUME NEW n \in Nat, NEW m \in Nat \ {0}
    PROVE  /\ n \div m \in Nat
           /\ n % m \in 0 .. m - 1
           /\ n = (n \div m) * m + (n % m)
           /\ n < m => n % m = n
           /\ n >= m => n \div m # 0
<1>1. n \div m \in Nat /\ n % m \in 0 .. m - 1
  OBVIOUS
<1>2. n = (n \div m) * m + (n % m)
  OBVIOUS
<1>3. n < m => n % m = n
  OBVIOUS
<1>4. ASSUME n >= m PROVE n \div m # 0
  <2> SUFFICES ASSUME n \div m = 0 PROVE FALSE
    OBVIOUS
  <2>1. (n \div m) * m = 0
    BY <1>1
  <2> QED
    BY <1>1, <1>2, <1>4, <2>1
<1> QED
  BY <1>1, <1>2, <1>3, <1>4

LEMMA ProductApart ==
    ASSUME NEW m \in Nat \ {0}, NEW d \in Int, d # 0
    PROVE  m * d >= m \/ m * d <= - m
<1>1. CASE d >= 1
  <2>1. PICK e \in Nat : d = e + 1
    BY <1>1
  <2>2. m * d = m * e + m /\ m * e >= 0
    BY <2>1
  <2> QED
    BY <2>2
<1>2. CASE d <= -1
  <2>1. PICK e \in Nat : d = - e - 1
    BY <1>2
  <2>2. m * d = - (m * e) - m /\ m * e >= 0
    BY <2>1
  <2> QED
    BY <2>2
<1> QED
  BY <1>1, <1>2

LEMMA RemainderIsUnique ==
    ASSUME NEW m \in Nat \ {0}, NEW k \in Nat, NEW r \in 0 .. m - 1
    PROVE  (k * m + r) % m = r
<1> DEFINE x == k * m + r
           q == x \div m
           d == k - q
<1>1. k * m \in Nat
  BY ProductType
<1>2. x \in Nat
  BY <1>1
<1>3. q \in Nat /\ x % m \in 0 .. m - 1 /\ x = q * m + (x % m)
  <2> HIDE DEF x
  <2> QED
    BY <1>2, Division
<1>4. m * d = k * m - q * m
  <2> HIDE DEF q
  <2> QED
    BY <1>3
<1>5. m * d = (x % m) - r /\ d \in Int
  BY <1>3, <1>4
<1>6. d = 0
  <2> SUFFICES ASSUME d # 0 PROVE FALSE
    OBVIOUS
  <2> DEFINE e == m * d
             y == x % m
  <2>1. y \in 0 .. m - 1 /\ e = y - r
    BY <1>3, <1>5
  <2>2. e >= m \/ e <= - m
    <3> HIDE DEF d
    <3> QED
      BY <1>5, ProductApart
  <2> HIDE DEF e, y
  <2> QED
    BY <2>1, <2>2
<1> QED
  BY <1>3, <1>5, <1>6

(* A remainder of the next number. *)
LEMMA NextRemainder ==
    ASSUME NEW a \in Nat, NEW m \in Nat \ {0}
    PROVE  (a + 1) % m = IF a % m = m - 1 THEN 0 ELSE (a % m) + 1
<1> DEFINE q == a \div m
           r == a % m
<1>1. q \in Nat /\ r \in 0 .. m - 1 /\ a = q * m + r
  BY Division
<1> HIDE DEF q, r
<1>2. CASE r = m - 1
  <2>1. (q + 1) * m = q * m + m
    BY <1>1
  <2>2. a + 1 = (q + 1) * m + 0
    <3> DEFINE p == q * m
               p1 == (q + 1) * m
    <3>1. p \in Nat
      BY <1>1, ProductType
    <3> HIDE DEF p, p1
    <3>2. p1 = p + m /\ a = p + r
      BY <1>1, <2>1 DEF p, p1
    <3>3. a + 1 = p1 + 0
      BY <1>1, <1>2, <3>1, <3>2
    <3> QED
      BY <3>3 DEF p1
  <2>3. q + 1 \in Nat /\ 0 \in 0 .. m - 1
    BY <1>1
  <2>4. ((q + 1) * m + 0) % m = 0
    <3> DEFINE k == q + 1
    <3>1. k \in Nat
      BY <2>3
    <3> HIDE DEF k
    <3>2. (k * m + 0) % m = 0
      BY <2>3, <3>1, RemainderIsUnique
    <3> QED
      BY <3>2 DEF k
  <2>5. (a + 1) % m = 0
    BY <2>2, <2>4
  <2> QED
    BY <1>2, <2>5 DEF r
<1>3. CASE r # m - 1
  <2>1. r + 1 \in 0 .. m - 1
    BY <1>1, <1>3
  <2>2. (q * m + (r + 1)) % m = r + 1
    BY <1>1, <2>1, RemainderIsUnique
  <2>3. a + 1 = q * m + (r + 1)
    <3> DEFINE p == q * m
    <3>1. p \in Nat
      BY <1>1, ProductType
    <3> HIDE DEF p
    <3>2. a = p + r
      BY <1>1 DEF p
    <3>3. a + 1 = p + (r + 1)
      BY <1>1, <3>1, <3>2
    <3> QED
      BY <3>3 DEF p
  <2>4. (a + 1) % m = r + 1
    BY <2>2, <2>3
  <2> QED
    BY <1>3, <2>4 DEF r
<1> QED
  BY <1>2, <1>3

(* Taking it by a multiple first changes no remainder. *)
LEMMA RemainderByMultiple ==
    ASSUME NEW a \in Nat, NEW p \in Nat \ {0}, NEW m \in Nat \ {0}, p % m = 0
    PROVE  (a % p) % m = a % m
<1> DEFINE k == p \div m
           q == a \div p
           b == a % p
           j == b \div m
           r == b % m
<1>1. k \in Nat /\ p = k * m
  <2>1. k \in Nat /\ p = k * m + (p % m)
    BY Division
  <2>2. k * m \in Nat
    <3> HIDE DEF k
    <3> QED
      BY <2>1, ProductType
  <2> HIDE DEF k
  <2> QED
    BY <2>1, <2>2
<1>2. q \in Nat /\ b \in Nat /\ a = q * p + b
  <2>1. q \in Nat /\ b \in 0 .. p - 1 /\ a = q * p + b
    BY Division, Zenon
  <2>2. b \in Nat
    <3> HIDE DEF b
    <3> QED
      BY <2>1
  <2> QED
    BY <2>1, <2>2
<1> HIDE DEF k, q, b
<1>3. j \in Nat /\ r \in 0 .. m - 1 /\ b = j * m + r
  BY <1>2, Division, Zenon
<1> HIDE DEF j, r
<1>4. q * k \in Nat
  BY <1>1, <1>2, ProductType
<1>5. q * p = (q * k) * m
  <2>1. p = k * m /\ q \in Nat /\ k \in Nat
    BY <1>1, <1>2
  <2>2. \A x \in Nat, y \in Nat, z \in Nat : x * (y * z) = (x * y) * z
    OBVIOUS
  <2>3. q * (k * m) = (q * k) * m
    BY <2>1, <2>2
  <2> QED
    BY <2>1, <2>3
<1>6. q * k + j \in Nat
  BY <1>3, <1>4
<1>7. a = (q * k + j) * m + r
  <2> DEFINE x == q * k
  <2>1. x \in Nat /\ q * p = x * m
    BY <1>4, <1>5
  <2> HIDE DEF x
  <2>2. (x + j) * m = x * m + j * m
    BY <1>3, <2>1
  <2>3. x * m \in Nat
    BY <2>1, ProductType
  <2>4. j * m \in Nat
    BY <1>3, ProductType
  <2> DEFINE xm == x * m
             jm == j * m
             am == (x + j) * m
             qp == q * p
  <2>5. am = xm + jm /\ qp = xm /\ a = qp + b /\ b = jm + r /\ xm \in Nat /\ jm \in Nat
    BY <1>2, <1>3, <2>1, <2>2, <2>3, <2>4
  <2> HIDE DEF xm, jm, am, qp
  <2>6. a = am + r
    BY <1>2, <1>3, <2>5
  <2> QED
    BY <2>6 DEF am, x
<1>8. ((q * k + j) * m + r) % m = r
  <2> DEFINE x == q * k + j
  <2>1. x \in Nat
    BY <1>6
  <2> HIDE DEF x
  <2>2. (x * m + r) % m = r
    BY <1>3, <2>1, RemainderIsUnique
  <2> QED
    BY <2>2 DEF x
<1>9. a % m = r
  BY <1>7, <1>8
<1> QED
  BY <1>9 DEF r, b

-------------------------------------------------------------------------------
(* What divideComponents makes of a time. *)

M(c) == componentMultiplierMs[c]

(* The ticks of each component; with nothing left over, what is written.       *)
Counts(ms) ==
    [c \in Offsets |-> (IF c \in Divides(ms) THEN LeftBelow(ms)[c + 1] \div M(c) ELSE 0)
                        + (IF c = 0 /\ overshoot(ms) > 0 THEN 1 ELSE 0)]

(* The time ticks stand for; that time if of each component that has any one    *)
(* tick comes at once; and the difference.                                      *)
Owed(n)  == [d \in Offsets |-> n[d] * M(d)]
Spare(n) == [d \in Offsets |-> IF n[d] = 0 THEN 0 ELSE (n[d] - 1) * M(d)]
Once(n)  == [d \in Offsets |-> IF n[d] = 0 THEN 0 ELSE M(d)]

LEMMA MultiplierType == \A c \in Offsets : M(c) \in Nat \ {0}
  BY DEF M, Offsets

LEMMA OwedType ==
    ASSUME NEW n \in [Offsets -> Nat]
    PROVE  /\ Owed(n) \in [Offsets -> Nat]
           /\ Spare(n) \in [Offsets -> Nat]
           /\ Once(n) \in [Offsets -> Nat]
           /\ \A d \in Offsets : Owed(n)[d] = Spare(n)[d] + Once(n)[d]
<1> SUFFICES ASSUME NEW d \in Offsets
             PROVE  /\ Owed(n)[d] \in Nat /\ Spare(n)[d] \in Nat /\ Once(n)[d] \in Nat
                    /\ Owed(n)[d] = Spare(n)[d] + Once(n)[d]
  <2>1. /\ Owed(n) = [d \in Offsets |-> Owed(n)[d]]
        /\ Spare(n) = [d \in Offsets |-> Spare(n)[d]]
        /\ Once(n) = [d \in Offsets |-> Once(n)[d]]
    BY DEF Owed, Spare, Once
  <2> QED
    BY <2>1
<1>1. n[d] \in Nat /\ M(d) \in Nat
  BY MultiplierType
<1>2. CASE n[d] = 0
  BY <1>1, <1>2 DEF Owed, Spare, Once
<1>3. CASE n[d] # 0
  <2> DEFINE p == n[d] * M(d)
             q == (n[d] - 1) * M(d)
  <2>1. p = q + M(d) /\ q \in Nat /\ p \in Nat
    BY <1>1, <1>3, OneLess
  <2>2. Owed(n)[d] = p /\ Spare(n)[d] = q /\ Once(n)[d] = M(d)
    BY <1>3 DEF Owed, Spare, Once
  <2> HIDE DEF p, q
  <2> QED
    BY <1>1, <2>1, <2>2
<1> QED
  BY <1>2, <1>3

(* What is left below component c, and what c takes of it. *)
LEMMA LeftStep ==
    ASSUME NEW ms \in Nat, NEW c \in Offsets
    PROVE  /\ LeftBelow(ms)[c] \in Nat /\ LeftBelow(ms)[c + 1] \in Nat
           /\ LeftBelow(ms)[c] < M(c)
           /\ LeftBelow(ms)[c + 1] \div M(c) \in Nat
           /\ c \in Divides(ms) =>
                  /\ LeftBelow(ms)[c + 1] \div M(c) # 0
                  /\ LeftBelow(ms)[c + 1]
                         = (LeftBelow(ms)[c + 1] \div M(c)) * M(c) + LeftBelow(ms)[c]
           /\ c \notin Divides(ms) => LeftBelow(ms)[c + 1] = LeftBelow(ms)[c]
<1> DEFINE n == LeftBelow(ms)[c + 1]
           m == M(c)
<1>1. c \in 0 .. Components /\ c + 1 \in 0 .. Components /\ c # Components
  BY DEF Offsets
<1>2. n \in Nat /\ m \in Nat \ {0} /\ LeftBelow(ms)[c] \in Nat
  BY <1>1, LeftType, MultiplierType
<1>3. LeftBelow(ms)[c] = n % m
  BY <1>1, LeftRecursion DEF M
<1>4. c \in Divides(ms) <=> n >= m
  BY DEF Divides, M
<1> HIDE DEF n, m
<1>5. /\ n \div m \in Nat
      /\ n % m \in 0 .. m - 1
      /\ n = (n \div m) * m + (n % m)
      /\ n < m => n % m = n
      /\ n >= m => n \div m # 0
  BY <1>2, Division, Zenon
<1>6. LeftBelow(ms)[c] < m
  BY <1>2, <1>3, <1>5
<1>7. c \notin Divides(ms) => n = LeftBelow(ms)[c]
  BY <1>2, <1>3, <1>4, <1>5
<1>8. c \in Divides(ms) => n \div m # 0 /\ n = (n \div m) * m + LeftBelow(ms)[c]
  BY <1>3, <1>4, <1>5
<1> QED
  BY <1>2, <1>5, <1>6, <1>7, <1>8 DEF n, m

LEMMA Overshoots ==
    ASSUME NEW ms \in Nat
    PROVE  /\ overshoot(ms) \in Nat
           /\ overshoot(ms) > 0 => overshoot(ms) = M(0) - LeftBelow(ms)[0]
           /\ ~ (overshoot(ms) > 0) => overshoot(ms) = 0 /\ LeftBelow(ms)[0] = 0
<1>1. 0 \in Offsets
  BY DEF Offsets
<1>2. LeftBelow(ms)[0] \in Nat /\ LeftBelow(ms)[0] < M(0) /\ M(0) \in Nat
  BY <1>1, LeftStep, MultiplierType
<1> QED
  BY <1>2 DEF overshoot, M

LEMMA CountsType ==
    ASSUME NEW ms \in Nat
    PROVE  /\ Counts(ms) \in [Offsets -> Nat]
           /\ \A c \in Offsets :
                  Counts(ms)[c] # 0 <=> c \in Divides(ms) \/ (c = 0 /\ overshoot(ms) > 0)
<1> SUFFICES ASSUME NEW c \in Offsets
             PROVE  /\ Counts(ms)[c] \in Nat
                    /\ Counts(ms)[c] # 0 <=> c \in Divides(ms) \/ (c = 0 /\ overshoot(ms) > 0)
  <2>1. Counts(ms) = [c \in Offsets |-> Counts(ms)[c]]
    BY DEF Counts
  <2> QED
    BY <2>1
<1> DEFINE n == IF c \in Divides(ms) THEN LeftBelow(ms)[c + 1] \div M(c) ELSE 0
           m == IF c = 0 /\ overshoot(ms) > 0 THEN 1 ELSE 0
<1>1. n \in Nat /\ (n # 0 <=> c \in Divides(ms))
  BY LeftStep
<1>2. m \in Nat /\ (m # 0 <=> c = 0 /\ overshoot(ms) > 0)
  OBVIOUS
<1>3. Counts(ms)[c] = n + m
  BY DEF Counts
<1> HIDE DEF n, m
<1> QED
  BY <1>1, <1>2, <1>3

(* With nothing left over, divideComponents writes these ticks: none wraps.    *)
LEMMA DividedIsCounts ==
    ASSUME NEW ms \in Delays, NEW old, \A c \in Offsets : old[c] = 0
    PROVE  divideComponents(old, ms) = Counts(ms)
<1>1. ms \in Nat
  OBVIOUS
<1>2. ASSUME NEW c \in Offsets PROVE divideComponents(old, ms)[c] = Counts(ms)[c]
  <2> DEFINE n == IF c \in Divides(ms) THEN LeftBelow(ms)[c + 1] \div M(c) ELSE 0
             m == IF c = 0 /\ overshoot(ms) > 0 THEN 1 ELSE 0
             k == LeftBelow(ms)[c + 1] \div M(c)
  <2>1. k \in Nat /\ k + 1 < Wide
    BY <1>1, LeftStep, TicksAssumption DEF M
  <2>2. n \in 0 .. k /\ m \in 0 .. 1
    <3> HIDE DEF k
    <3>1. n = k \/ n = 0
      BY DEF k
    <3> HIDE DEF n
    <3> QED
      BY <2>1, <3>1
  <2>3. divideComponents(old, ms)[c] = (n + m) % Wide
    <3>1. divideComponents(old, ms)[c]
              = ((IF c \in Divides(ms) THEN LeftBelow(ms)[c + 1] \div componentMultiplierMs[c]
                  ELSE old[c]) + m) % Wide
      BY DEF divideComponents
    <3> QED
      BY <3>1 DEF M
  <2>4. Counts(ms)[c] = n + m
    BY DEF Counts
  <2> HIDE DEF n, m, k
  <2>5. n + m \in 0 .. Wide - 1
    BY <2>1, <2>2
  <2>6. (n + m) % Wide = n + m
    <3> DEFINE x == n + m
    <3>1. x \in Nat /\ x < Wide
      BY <2>5
    <3> HIDE DEF x
    <3>2. x % Wide = x
      BY <3>1, Division
    <3> QED
      BY <3>2 DEF x
  <2> QED
    BY <2>3, <2>4, <2>6
<1>3. divideComponents(old, ms) = [c \in Offsets |-> divideComponents(old, ms)[c]]
  <2> DEFINE F(c) ==
          ((IF c \in Divides(ms) THEN LeftBelow(ms)[c + 1] \div componentMultiplierMs[c]
            ELSE old[c])
           + (IF c = 0 /\ overshoot(ms) > 0 THEN 1 ELSE 0)) % Wide
  <2>1. divideComponents(old, ms) = [c \in Offsets |-> F(c)]
    BY Zenon DEF divideComponents
  <2> HIDE DEF F
  <2> QED
    BY <2>1
<1>4. Counts(ms) = [c \in Offsets |-> Counts(ms)[c]]
  BY DEF Counts
<1> QED
  BY <1>2, <1>3, <1>4

(* What is left of a time once its components are counted, rounded up. *)
LEMMA OwedIsLatest ==
    ASSUME NEW ms \in Nat
    PROVE  SumBelow(Owed(Counts(ms)))[Components] = Latest(ms)
<1> DEFINE left == LeftBelow(ms)
           n == Counts(ms)
           s == SumBelow(Owed(n))
           more == IF overshoot(ms) > 0 THEN M(0) ELSE 0
           T == {k \in 0 .. Components :
                    s[k] = left[k] - left[0] + (IF k = 0 THEN 0 ELSE more)}
<1>1. n \in [Offsets -> Nat]
  BY CountsType
<1>2. Owed(n) \in [Offsets -> Nat]
  <2> HIDE DEF n
  <2> QED
    BY <1>1, OwedType
<1>3. 0 \in Offsets /\ 0 \in 0 .. Components
  BY DEF Offsets
<1>4. /\ left[0] \in Nat /\ M(0) \in Nat /\ more \in Nat
      /\ s[0] = 0
  <2>1. left[0] \in Nat
    BY <1>3, LeftStep
  <2>2. M(0) \in Nat
    BY <1>3, MultiplierType
  <2>3. s[0] = 0
    <3> HIDE DEF n
    <3> QED
      BY <1>2, SumRecursion
  <2> QED
    BY <2>1, <2>2, <2>3
<1>5. 0 \in T
  BY <1>3, <1>4
<1>6. ASSUME NEW k \in 0 .. Components - 1, k \in T PROVE k + 1 \in T
  <2>1. k \in Offsets /\ k \in Nat /\ k + 1 \in 0 .. Components
    BY DEF Offsets
  <2> DEFINE q == left[k + 1] \div M(k)
             p == IF k \in Divides(ms) THEN q ELSE 0
             e == IF k = 0 /\ overshoot(ms) > 0 THEN 1 ELSE 0
             b == q * M(k)
             pm == p * M(k)
             em == e * M(k)
  <2>2. /\ left[k] \in Nat /\ left[k + 1] \in Nat /\ q \in Nat
        /\ k \in Divides(ms) => left[k + 1] = b + left[k]
        /\ k \notin Divides(ms) => left[k + 1] = left[k]
    BY <2>1, LeftStep
  <2>3. M(k) \in Nat
    BY <2>1, MultiplierType
  <2>4. n[k] = p + e
    BY <2>1
    DEF Counts
  <2>5. s[k + 1] = s[k] + n[k] * M(k)
    <3>1. s[k + 1] = s[k] + Owed(n)[k]
      <4> HIDE DEF n
      <4> QED
        BY <1>2, <2>1, SumRecursion
    <3>2. Owed(n)[k] = n[k] * M(k)
      BY <2>1 DEF Owed
    <3> QED
      BY <3>1, <3>2
  <2>6. p \in Nat /\ e \in 0 .. 1
    <3> HIDE DEF q
    <3> QED
      BY <2>2
  <2>7. n[k] * M(k) = pm + em
    <3> HIDE DEF n, p, e
    <3>1. (p + e) * M(k) = p * M(k) + e * M(k)
      BY <2>3, <2>6
    <3> QED
      BY <2>4, <3>1
  <2>8. left[k + 1] = pm + left[k] /\ pm \in Nat
    <3>1. CASE k \in Divides(ms)
      <4>1. p = q
        BY <3>1
      <4>2. pm \in Nat
        <5> HIDE DEF p
        <5> QED
          BY <2>3, <2>6, ProductType
      <4>3. pm = b
        BY <4>1
      <4> HIDE DEF p, pm, b, q
      <4> QED
        BY <2>2, <3>1, <4>2, <4>3
    <3>2. CASE k \notin Divides(ms)
      <4>1. p = 0
        BY <3>2
      <4>2. pm = 0
        <5> HIDE DEF p
        <5> QED
          BY <2>3, <4>1
      <4> HIDE DEF p, pm, b, q
      <4> QED
        BY <2>2, <3>2, <4>2
    <3> QED
      BY <3>1, <3>2
  <2>9. em = IF k = 0 THEN more ELSE 0
    <3>1. CASE k = 0 /\ overshoot(ms) > 0
      <4>1. e = 1 /\ more = M(k)
        BY <3>1
      <4> HIDE DEF e, more
      <4> QED
        BY <2>3, <3>1, <4>1
    <3>2. CASE ~ (k = 0 /\ overshoot(ms) > 0)
      <4>1. e = 0 /\ (k = 0 => more = 0)
        BY <3>2
      <4> HIDE DEF e, more
      <4> QED
        BY <2>3, <4>1
    <3> QED
      BY <3>1, <3>2
  <2>10. s[k] = left[k] - left[0] + (IF k = 0 THEN 0 ELSE more)
    BY <1>6
  <2> HIDE DEF q, p, e, b, pm, em, n, left, s, more
  <2>11. s[k + 1] = left[k + 1] - left[0] + (IF k + 1 = 0 THEN 0 ELSE more)
    BY <1>4, <2>1, <2>2, <2>5, <2>7, <2>8, <2>9, <2>10
  <2> QED
    BY <2>1, <2>11
<1>7. Components \in T
  <2>1. Components \in 0 .. Components
    OBVIOUS
  <2> HIDE DEF T
  <2>2. 0 .. Components \subseteq T
    BY <1>5, <1>6, Counting
  <2> QED
    BY <2>1, <2>2
<1>8. left[Components] = ms
  BY LeftRecursion
<1>9. s[Components] = ms - left[0] + more
  <2> HIDE DEF s, left, more
  <2> QED
    BY <1>7, <1>8
<1>10. Latest(ms) = ms - left[0] + more
  <2>1. /\ overshoot(ms) \in Nat
        /\ overshoot(ms) > 0 => overshoot(ms) = M(0) - left[0]
        /\ ~ (overshoot(ms) > 0) => overshoot(ms) = 0 /\ left[0] = 0
    BY Overshoots
  <2> HIDE DEF left
  <2> QED
    BY <1>4, <2>1 DEF Latest
<1> HIDE DEF s, left, more
<1> QED
  BY <1>9, <1>10 DEF s

LEMMA OnceIsShort ==
    ASSUME NEW ms \in Nat
    PROVE  SumBelow(Once(Counts(ms)))[Components] = Short(ms)
<1> DEFINE g == [c \in Offsets |-> IF c \in Divides(ms) \/ (c = 0 /\ overshoot(ms) > 0)
                                  THEN componentMultiplierMs[c] ELSE 0]
<1>1. ASSUME NEW c \in Offsets PROVE Once(Counts(ms))[c] = g[c]
  <2>1. Counts(ms)[c] # 0 <=> c \in Divides(ms) \/ (c = 0 /\ overshoot(ms) > 0)
    BY CountsType
  <2> QED
    BY <2>1 DEF Once, M
<1>2. Once(Counts(ms)) = [c \in Offsets |-> Once(Counts(ms))[c]]
  BY DEF Once
<1>3. Once(Counts(ms)) = g
  BY <1>1, <1>2
<1> QED
  BY <1>3 DEF Short

LEMMA SpareIsTheRest ==
    ASSUME NEW ms \in Nat
    PROVE  /\ Latest(ms) \in Nat
           /\ Short(ms) \in Nat
           /\ SumBelow(Spare(Counts(ms)))[Components] = Latest(ms) - Short(ms)
<1> DEFINE n == Counts(ms)
<1>1. n \in [Offsets -> Nat]
  BY CountsType
<1> HIDE DEF n
<1>2. /\ Owed(n) \in [Offsets -> Nat] /\ Spare(n) \in [Offsets -> Nat]
      /\ Once(n) \in [Offsets -> Nat]
      /\ \A d \in Offsets : Owed(n)[d] = Spare(n)[d] + Once(n)[d]
  BY <1>1, OwedType
<1>3. SumBelow(Owed(n))[Components]
          = SumBelow(Spare(n))[Components] + SumBelow(Once(n))[Components]
  BY <1>2, SumAdds
<1>4. Components \in 0 .. Components
  OBVIOUS
<1>5. SumBelow(Owed(n))[Components] \in Nat
  BY <1>2, <1>4, SumRecursion
<1>6. SumBelow(Spare(n))[Components] \in Nat
  BY <1>2, <1>4, SumRecursion
<1>7. SumBelow(Once(n))[Components] \in Nat
  BY <1>2, <1>4, SumRecursion
<1>8. SumBelow(Owed(n))[Components] = Latest(ms)
  BY OwedIsLatest DEF n
<1>9. SumBelow(Once(n))[Components] = Short(ms)
  BY OnceIsShort DEF n
<1>10. SumBelow(Spare(n))[Components] = Latest(ms) - Short(ms)
  BY <1>3, <1>5, <1>6, <1>7, <1>8, <1>9
<1> QED
  BY <1>5, <1>7, <1>8, <1>9, <1>10 DEF n

(* The largest component of a time has ticks, and no larger one has any.       *)
LEMMA DividesSome ==
    ASSUME NEW ms \in Nat, ms > 0
    PROVE  LET c == Largest(Divides(ms)) IN
           /\ c \in Offsets
           /\ Counts(ms)[c] >= 1
           /\ \A e \in Offsets : c < e => Counts(ms)[e] = 0
<1> DEFINE c == Largest(Divides(ms))
           n == Counts(ms)
<1>1. Divides(ms) \in SUBSET Offsets
  BY DEF Divides
<1>2. c \in Offsets
  BY <1>1, LargestIsOne
<1>3. /\ n \in [Offsets -> Nat]
      /\ \A e \in Offsets : n[e] # 0 <=> e \in Divides(ms) \/ (e = 0 /\ overshoot(ms) > 0)
  BY CountsType
<1>4. n[c] # 0
  <2>1. CASE Divides(ms) # {}
    <3>1. c \in Divides(ms)
      BY <1>1, <2>1, LargestIsOne
    <3> HIDE DEF n, c
    <3> QED
      BY <1>2, <1>3, <3>1
  <2>2. CASE Divides(ms) = {}
    <3>1. c = 0
      BY <2>2 DEF Largest
    <3>2. LeftBelow(ms)[0] = ms
      <4> DEFINE T == {k \in 0 .. Components : LeftBelow(ms)[Components - k] = ms}
      <4>1. 0 \in T
        <5>1. LeftBelow(ms)[Components] = ms
          BY LeftRecursion
        <5> QED
          BY <5>1
      <4>2. ASSUME NEW k \in 0 .. Components - 1, k \in T PROVE k + 1 \in T
        <5>1. Components - (k + 1) \in Offsets
              /\ Components - (k + 1) + 1 = Components - k /\ k + 1 \in 0 .. Components
          BY DEF Offsets
        <5>2. LeftBelow(ms)[Components - (k + 1) + 1] = LeftBelow(ms)[Components - (k + 1)]
          BY <2>2, <5>1, LeftStep
        <5> QED
          BY <4>2, <5>1, <5>2
      <4>3. 0 .. Components \subseteq T
        <5> HIDE DEF T
        <5> QED
          BY <4>1, <4>2, Counting
      <4>4. Components \in 0 .. Components /\ Components - Components = 0
        OBVIOUS
      <4> QED
        BY <4>3, <4>4
    <3>3. overshoot(ms) > 0
      BY <3>2, Overshoots
    <3> HIDE DEF n, c
    <3> QED
      BY <1>2, <1>3, <3>1, <3>3
  <2> QED
    BY <2>1, <2>2
<1>5. ASSUME NEW e \in Offsets, c < e PROVE n[e] = 0
  <2>1. e \notin Divides(ms)
    <3> SUFFICES ASSUME e \in Divides(ms) PROVE FALSE
      OBVIOUS
    <3>1. e <= c
      BY <1>1, LargestIsOne
    <3> HIDE DEF c
    <3> QED
      BY <1>2, <1>5, <3>1 DEF Offsets
  <2>2. e # 0
    BY <1>2, <1>5 DEF Offsets
  <2> HIDE DEF n, c
  <2> QED
    BY <1>3, <2>1, <2>2
<1>6. n[c] >= 1
  <2> HIDE DEF n, c
  <2> QED
    BY <1>2, <1>3, <1>4
<1> QED
  BY <1>2, <1>5, <1>6 DEF n, c
-------------------------------------------------------------------------------
(* How long a timer in the list of component c waits after the next tick of c:  *)
(* n counts the ticks it has left.                                              *)

Most(n, c)  == (n[c] - 1) * M(c) + SumBelow(Owed(n))[c]
Least(n, c) == (n[c] - 1) * M(c) + SumBelow(Spare(n))[c]

LEMMA MostType ==
    ASSUME NEW n \in [Offsets -> Nat], NEW c \in Offsets, n[c] # 0
    PROVE  /\ Most(n, c) \in Nat /\ Least(n, c) \in Nat
           /\ (n[c] - 1) * M(c) \in Nat
           /\ SumBelow(Owed(n))[c] \in Nat /\ SumBelow(Spare(n))[c] \in Nat
<1>1. c \in 0 .. Components /\ n[c] \in Nat /\ M(c) \in Nat
  BY MultiplierType DEF Offsets
<1>2. (n[c] - 1) * M(c) \in Nat
  BY <1>1, OneLess
<1>3. Owed(n) \in [Offsets -> Nat] /\ Spare(n) \in [Offsets -> Nat]
  BY OwedType
<1>4. SumBelow(Owed(n))[c] \in Nat
  BY <1>1, <1>3, SumRecursion
<1>5. SumBelow(Spare(n))[c] \in Nat
  BY <1>1, <1>3, SumRecursion
<1> DEFINE p == (n[c] - 1) * M(c)
<1>6. p \in Nat /\ Most(n, c) = p + SumBelow(Owed(n))[c]
      /\ Least(n, c) = p + SumBelow(Spare(n))[c]
  BY <1>2 DEF Most, Least
<1> HIDE DEF p
<1>7. Most(n, c) \in Nat /\ Least(n, c) \in Nat
  BY <1>4, <1>5, <1>6
<1> QED
  BY <1>2, <1>4, <1>5, <1>7

(* The components below e, when d is the first of them that has ticks. *)
LEMMA NextComponent ==
    ASSUME NEW n \in [Offsets -> Nat], NEW e \in 0 .. Components, NEW d \in Offsets, d < e,
           n[d] # 0, \A f \in Offsets : d < f /\ f < e => n[f] = 0
    PROVE  /\ SumBelow(Owed(n))[e] = Most(n, d) + M(d)
           /\ SumBelow(Spare(n))[e] = Least(n, d)
<1>1. d \in Nat /\ d + 1 \in 0 .. e /\ n[d] \in Nat /\ M(d) \in Nat
  BY MultiplierType DEF Offsets
<1>2. Owed(n) \in [Offsets -> Nat] /\ Spare(n) \in [Offsets -> Nat]
  BY OwedType
<1>3. \A f \in Offsets : d + 1 <= f /\ f < e => Owed(n)[f] = 0 /\ Spare(n)[f] = 0
  <2> SUFFICES ASSUME NEW f \in Offsets, d + 1 <= f, f < e
               PROVE  Owed(n)[f] = 0 /\ Spare(n)[f] = 0
    OBVIOUS
  <2>1. n[f] = 0 /\ M(f) \in Nat
    BY <1>1, MultiplierType DEF Offsets
  <2> QED
    BY <2>1 DEF Owed, Spare
<1>4. SumBelow(Owed(n))[e] = SumBelow(Owed(n))[d + 1]
  BY <1>1, <1>2, <1>3, SumSkips
<1>5. SumBelow(Spare(n))[e] = SumBelow(Spare(n))[d + 1]
  BY <1>1, <1>2, <1>3, SumSkips
<1>6. SumBelow(Owed(n))[d + 1] = SumBelow(Owed(n))[d] + n[d] * M(d)
  <2>1. SumBelow(Owed(n))[d + 1] = SumBelow(Owed(n))[d] + Owed(n)[d]
    BY <1>2, SumRecursion
  <2> QED
    BY <2>1 DEF Owed
<1>7. SumBelow(Spare(n))[d + 1] = SumBelow(Spare(n))[d] + (n[d] - 1) * M(d)
  <2>1. SumBelow(Spare(n))[d + 1] = SumBelow(Spare(n))[d] + Spare(n)[d]
    BY <1>2, SumRecursion
  <2> QED
    BY <2>1 DEF Spare
<1> DEFINE p == n[d] * M(d)
           q == (n[d] - 1) * M(d)
           a == SumBelow(Owed(n))[d]
           b == SumBelow(Spare(n))[d]
<1>8. p = q + M(d) /\ q \in Nat
  BY <1>1, OneLess
<1>9. a \in Nat /\ b \in Nat
  BY MostType
<1>10. /\ Most(n, d) = q + a /\ Least(n, d) = q + b
       /\ SumBelow(Owed(n))[e] = a + p /\ SumBelow(Spare(n))[e] = b + q
  BY <1>4, <1>5, <1>6, <1>7 DEF Most, Least
<1> HIDE DEF p, q, a, b
<1> QED
  BY <1>1, <1>8, <1>9, <1>10

(* A timer just set waits what it asks for. *)
LEMMA AllIsLeft ==
    ASSUME NEW ms \in Nat, ms > 0
    PROVE  LET c == Largest(Divides(ms)) IN
           /\ Most(Counts(ms), c) + M(c) = Latest(ms)
           /\ Least(Counts(ms), c) = Latest(ms) - Short(ms)
<1> DEFINE n == Counts(ms)
           c == Largest(Divides(ms))
<1>1. /\ c \in Offsets /\ n[c] >= 1
      /\ \A e \in Offsets : c < e => n[e] = 0
  BY DividesSome
<1>2. n \in [Offsets -> Nat]
  BY CountsType
<1>3. SumBelow(Owed(n))[Components] = Latest(ms)
  BY OwedIsLatest
<1>4. SumBelow(Spare(n))[Components] = Latest(ms) - Short(ms)
  BY SpareIsTheRest
<1> HIDE DEF n, c
<1>5. Components \in 0 .. Components /\ c < Components /\ n[c] # 0
  BY <1>1, <1>2 DEF Offsets
<1>6. SumBelow(Owed(n))[Components] = Most(n, c) + M(c)
  BY <1>1, <1>2, <1>5, NextComponent
<1>7. SumBelow(Spare(n))[Components] = Least(n, c)
  BY <1>1, <1>2, <1>5, NextComponent
<1> QED
  BY <1>3, <1>4, <1>6, <1>7 DEF n, c

(* Sums below c do not see what changes in c. *)
LEMMA SumsBelowAgree ==
    ASSUME NEW n \in [Offsets -> Nat], NEW k \in [Offsets -> Nat], NEW c \in 0 .. Components,
           SameBelow(n, k, c)
    PROVE  /\ SumBelow(Owed(n))[c] = SumBelow(Owed(k))[c]
           /\ SumBelow(Spare(n))[c] = SumBelow(Spare(k))[c]
<1>1. Owed(n) \in [Offsets -> Nat] /\ Spare(n) \in [Offsets -> Nat]
  BY OwedType
<1>2. Owed(k) \in [Offsets -> Nat] /\ Spare(k) \in [Offsets -> Nat]
  BY OwedType
<1>3. SameBelow(Owed(n), Owed(k), c) /\ SameBelow(Spare(n), Spare(k), c)
  BY DEF SameBelow, Owed, Spare
<1>4. SumBelow(Owed(n))[c] = SumBelow(Owed(k))[c]
  BY <1>1, <1>2, <1>3, SumAgrees, Zenon
<1>5. SumBelow(Spare(n))[c] = SumBelow(Spare(k))[c]
  BY <1>1, <1>2, <1>3, SumAgrees, Zenon
<1> QED
  BY <1>4, <1>5

(* A tick of c, when there are more of them. *)
LEMMA OneTickLess ==
    ASSUME NEW n \in [Offsets -> Nat], NEW c \in Offsets, n[c] >= 2,
           NEW k \in [Offsets -> Nat], k = [n EXCEPT ![c] = @ - 1]
    PROVE  /\ k[c] # 0
           /\ Most(n, c) = Most(k, c) + M(c)
           /\ Least(n, c) = Least(k, c) + M(c)
<1>1. c \in 0 .. Components /\ M(c) \in Nat /\ n[c] \in Nat
  BY MultiplierType DEF Offsets
<1>2. k[c] = n[c] - 1 /\ k[c] # 0
  BY <1>1
<1>3. /\ SumBelow(Owed(n))[c] = SumBelow(Owed(k))[c]
      /\ SumBelow(Spare(n))[c] = SumBelow(Spare(k))[c]
  <2>1. SameBelow(n, k, c)
    BY DEF Offsets, SameBelow
  <2> QED
    BY <1>1, <2>1, SumsBelowAgree, Zenon
<1>4. /\ SumBelow(Owed(k))[c] \in Nat /\ SumBelow(Spare(k))[c] \in Nat
  BY <1>2, MostType
<1> DEFINE p == (n[c] - 1) * M(c)
           q == (k[c] - 1) * M(c)
<1>5. p = q + M(c) /\ q \in Nat
  <2> DEFINE x == n[c] - 1
  <2>1. x \in Nat /\ x # 0 /\ k[c] = x
    BY <1>1, <1>2
  <2> HIDE DEF x
  <2>2. x * M(c) = (x - 1) * M(c) + M(c) /\ (x - 1) * M(c) \in Nat
    BY <1>1, <2>1, OneLess
  <2> QED
    BY <2>1, <2>2 DEF x
<1>6. /\ Most(n, c) = p + SumBelow(Owed(n))[c] /\ Most(k, c) = q + SumBelow(Owed(k))[c]
      /\ Least(n, c) = p + SumBelow(Spare(n))[c] /\ Least(k, c) = q + SumBelow(Spare(k))[c]
  BY DEF Most, Least
<1> DEFINE a == SumBelow(Owed(k))[c]
           b == SumBelow(Spare(k))[c]
           m == M(c)
<1>7. /\ p = q + m /\ q \in Nat /\ m \in Nat /\ a \in Nat /\ b \in Nat
      /\ Most(n, c) = p + a /\ Most(k, c) = q + a
      /\ Least(n, c) = p + b /\ Least(k, c) = q + b
  BY <1>1, <1>3, <1>4, <1>5, <1>6
<1> HIDE DEF p, q, a, b, m
<1>8. Most(n, c) = Most(k, c) + m /\ Least(n, c) = Least(k, c) + m
  BY <1>7
<1> QED
  BY <1>2, <1>8 DEF m

(* The last tick of c: what follows is what the components below have. *)
LEMMA LastTick ==
    ASSUME NEW n \in [Offsets -> Nat], NEW c \in Offsets, n[c] = 1
    PROVE  /\ Most(n, c) = SumBelow(Owed(n))[c]
           /\ Least(n, c) = SumBelow(Spare(n))[c]
<1>1. M(c) \in Nat
  BY MultiplierType
<1>2. (n[c] - 1) * M(c) = 0
  BY <1>1
<1>3. SumBelow(Owed(n))[c] \in Nat /\ SumBelow(Spare(n))[c] \in Nat
  BY MostType
<1> QED
  BY <1>2, <1>3 DEF Most, Least

(* d is the largest component below c that has ticks. *)
IsNext(n, c, d) ==
    /\ d < c /\ n[d] # 0
    /\ \A f \in Offsets : d < f /\ f < c => n[f] = 0

LEMMA NextOfLast ==
    ASSUME NEW n \in [Offsets -> Nat], NEW c \in Offsets, n[c] = 1,
           NEW k \in [Offsets -> Nat], SameBelow(n, k, c),
           NEW d \in Offsets, IsNext(n, c, d)
    PROVE  /\ k[d] # 0
           /\ Most(n, c) = Most(k, d) + M(d)
           /\ Least(n, c) = Least(k, d)
<1>1. c \in 0 .. Components /\ d \in Nat /\ c \in Nat /\ d \in 0 .. Components
  BY DEF Offsets
<1>2. d < c /\ n[d] # 0 /\ \A f \in Offsets : d < f /\ f < c => n[f] = 0
  BY DEF IsNext
<1>3. k[d] = n[d]
  BY <1>1, <1>2 DEF SameBelow
<1>4. /\ SumBelow(Owed(n))[c] = Most(n, d) + M(d)
      /\ SumBelow(Spare(n))[c] = Least(n, d)
  BY <1>1, <1>2, NextComponent
<1>5. SameBelow(n, k, d)
  BY <1>1, <1>2 DEF Offsets, SameBelow
<1>6. /\ SumBelow(Owed(n))[d] = SumBelow(Owed(k))[d]
      /\ SumBelow(Spare(n))[d] = SumBelow(Spare(k))[d]
  BY <1>1, <1>5, SumsBelowAgree, Zenon
<1>7. Most(n, d) = Most(k, d) /\ Least(n, d) = Least(k, d)
  BY <1>3, <1>6 DEF Most, Least
<1> QED
  BY <1>2, <1>3, <1>4, <1>7, LastTick

LEMMA NothingIsLeft ==
    ASSUME NEW n \in [Offsets -> Nat], NEW c \in Offsets, n[c] = 1,
           \A f \in Offsets : f < c => n[f] = 0
    PROVE  Most(n, c) = 0 /\ Least(n, c) = 0
<1>1. c \in 0 .. Components /\ 0 \in 0 .. c
  BY DEF Offsets
<1>2. Owed(n) \in [Offsets -> Nat] /\ Spare(n) \in [Offsets -> Nat]
  BY OwedType
<1>3. \A f \in Offsets : 0 <= f /\ f < c => Owed(n)[f] = 0 /\ Spare(n)[f] = 0
  <2> SUFFICES ASSUME NEW f \in Offsets, f < c PROVE Owed(n)[f] = 0 /\ Spare(n)[f] = 0
    OBVIOUS
  <2>1. n[f] = 0 /\ M(f) \in Nat
    BY MultiplierType
  <2> QED
    BY <2>1 DEF Owed, Spare
<1>4. SumBelow(Owed(n))[c] = SumBelow(Owed(n))[0]
  BY <1>1, <1>2, <1>3, SumSkips
<1>5. SumBelow(Spare(n))[c] = SumBelow(Spare(n))[0]
  BY <1>1, <1>2, <1>3, SumSkips
<1>6. SumBelow(Owed(n))[0] = 0
  BY <1>2, SumRecursion
<1>7. SumBelow(Spare(n))[0] = 0
  BY <1>2, SumRecursion
<1> QED
  BY <1>4, <1>5, <1>6, <1>7, LastTick
-------------------------------------------------------------------------------
(* The time a timer waits.  What it has waited, and what the ticks it has left   *)
(* stand for, never exceed what it asked for; and they never fall short of it by *)
(* more than one period of each of its components.                              *)

Called(t) == ticking.phase = "callback" /\ ticking.iterator = t

(* When the next tick comes to a timer. *)
ComesIn(t) ==
    LET c == lists.componentOffset[t] IN
    IF c \in due \/ t \in unvisited THEN 0 ELSE M(c) - (clock % M(c))

WaitsInTime(ms, waited, next, n, c) ==
    /\ n[c] # 0
    /\ waited + next + Most(n, c) <= Latest(ms)
    /\ waited + next + Least(n, c) >= Latest(ms) - Short(ms)

TimerInTime(t) ==
    asked[t] > 0 =>
        IF Called(t)
        THEN age[t] <= Latest(asked[t]) /\ age[t] >= Latest(asked[t]) - Short(asked[t])
        ELSE WaitsInTime(asked[t], age[t], ComesIn(t), components[t],
                         lists.componentOffset[t])

(* A system timer calls when its period divides the clock. *)
CallsOnTime ==
    /\ \A c \in due : clock % M(c) = 0
    /\ ticking.phase # "none" =>
           clock % M(ticking.component) = 0 /\ ticking.component \notin due

TimesInv ==
    /\ CallsOnTime
    /\ \A t \in armed \intersect clean : TimerInTime(t)

LEMMA TimesInit == Init => TimesInv
BY DEF Init, TimesInv, CallsOnTime

LEMMA ComesType ==
    ASSUME TypeOK, NEW c \in Offsets
    PROVE  /\ M(c) - (clock % M(c)) \in 1 .. M(c)
           /\ M(c) \in Nat \ {0} /\ clock % M(c) \in 0 .. M(c) - 1
<1>1. M(c) \in Nat \ {0} /\ clock \in Nat
  BY MultiplierType DEF TypeOK
<1>2. clock % M(c) \in 0 .. M(c) - 1
  BY <1>1, Division, Zenon
<1> QED
  BY <1>1, <1>2

(* What is true of every timer that waits. *)
LEMMA TimerType ==
    ASSUME TimersInv, NEW t \in armed
    PROVE  /\ t \in Timers /\ lists.componentOffset[t] \in Offsets
           /\ components[t] \in [Offsets -> Nat]
           /\ \A c \in Offsets : components[t][c] < Wide
           /\ age[t] \in 0 .. MaxAge /\ asked[t] \in Nat
<1>1. t \in Timers /\ lists \in ListType
  BY ListsType DEF TimersInv, TypeOK
<1>2. lists.componentOffset[t] \in Offsets
  BY <1>1 DEF ListType
<1>3. components[t] \in [Offsets -> 0 .. Wide - 1]
  BY <1>1 DEF TimersInv, TypeOK
<1>4. age[t] \in 0 .. MaxAge
  BY <1>1 DEF TimersInv, TypeOK
<1>5. asked[t] \in Nat
  <2>1. asked \in [Timers -> Delays \union {0}]
    BY DEF TimersInv, TypeOK
  <2>2. asked[t] \in Delays \union {0}
    BY <1>1, <2>1, Zenon
  <2>3. Delays \union {0} \subseteq Nat
    OBVIOUS
  <2> QED
    BY <2>2, <2>3, Zenon
<1>6. components[t] \in [Offsets -> Nat] /\ \A c \in Offsets : components[t][c] < Wide
  <2> DEFINE n == components[t]
  <2>1. n \in [Offsets -> 0 .. Wide - 1]
    BY <1>3
  <2> HIDE DEF n
  <2>2. n \in [Offsets -> Nat] /\ \A c \in Offsets : n[c] < Wide
    BY <2>1
  <2> QED
    BY <2>2 DEF n
<1> QED
  BY <1>1, <1>2, <1>4, <1>5, <1>6

(* Steps that do not touch a timer, nor time. *)
LEMMA OthersWaitOn ==
    ASSUME NEW u \in Timers, TimerInTime(u),
           asked'[u] = asked[u], age'[u] = age[u], components'[u] = components[u],
           lists'.componentOffset[u] = lists.componentOffset[u],
           due' = due, clock' = clock, (u \in unvisited') <=> (u \in unvisited),
           Called(u)' <=> Called(u)
    PROVE  TimerInTime(u)'
<1>1. ComesIn(u)' = ComesIn(u)
  BY DEF ComesIn
<1> QED
  BY <1>1 DEF TimerInTime

LEMMA CallsStayOnTime ==
    ASSUME CallsOnTime, due' = due, clock' = clock,
           ticking'.phase # "none" =>
               ticking.phase # "none" /\ ticking'.component = ticking.component
    PROVE  CallsOnTime'
BY DEF CallsOnTime

LEMMA SetInTime ==
    ASSUME TimersInv, TimesInv, NEW ms \in Delays, setTimeout_(ms)
    PROVE  TimesInv'
<1>1. PICK t \in Timers : t = freeTimers[freeTimersHead]
  <2>1. freeTimers \in [Timers -> Timers]
    BY DEF TimersInv, TypeOK
  <2>2. freeTimersHead \in 0 .. Size /\ freeTimersHead < Size
    BY DEF setTimeout_, TimersInv, TypeOK
  <2>3. freeTimersHead \in Timers
    BY <2>2 DEF Timers
  <2> QED
    BY <2>1, <2>3
<1> DEFINE c == Largest(Divides(ms))
<1>2. /\ MayCall /\ freeTimersHead < Size
      /\ components' = [components EXCEPT ![t] = divideComponents(@, ms)]
      /\ lists' = addTimerToList(lists, t, c)
      /\ armed' = armed \union {t}
      /\ asked' = [asked EXCEPT ![t] = ms]
      /\ age' = [age EXCEPT ![t] = 0]
      /\ clean' \subseteq clean \union {t}
      /\ t \in clean' => \A d \in Offsets : components[t][d] = 0
      /\ UNCHANGED <<ticking, due, clock, unvisited>>
  BY <1>1 DEF setTimeout_, systemVars
<1>3. c \in Offsets
  <2>1. Divides(ms) \subseteq Offsets
    BY DEF Divides
  <2> QED
    BY <2>1, LargestIsOne
<1>4. ms \in Nat
  OBVIOUS
<1>5. t \notin armed
  BY <1>1, <1>2 DEF TimersInv, TypeOK, OffsetsAreFree
<1>6. t \notin unvisited /\ ~ Called(t)
  BY <1>2, <1>5 DEF MayCall, TimersInv, TypeOK, Ticks, TickFollowsList, In, Called
<1>7. /\ lists'.componentOffset[t] = c
      /\ \A u \in Timers : u # t => lists'.componentOffset[u] = lists.componentOffset[u]
  <2>1. lists \in ListType
    BY ListsType DEF TimersInv
  <2> HIDE DEF c
  <2> QED
    BY <1>2, <2>1 DEF addTimerToList, ListType
<1>8. CallsOnTime'
  BY <1>2, CallsStayOnTime DEF TimesInv
<1>9. ASSUME NEW u \in armed' \intersect clean' PROVE TimerInTime(u)'
  <2>1. CASE u # t
    <3>1. u \in armed \intersect clean /\ u \in Timers
      BY <1>2, <2>1 DEF TimersInv, TypeOK
    <3>2. asked'[u] = asked[u] /\ age'[u] = age[u] /\ components'[u] = components[u]
      BY <1>2, <2>1, <3>1 DEF TimersInv, TypeOK
    <3>3. lists'.componentOffset[u] = lists.componentOffset[u]
      BY <1>7, <2>1, <3>1
    <3>4. Called(u)' <=> Called(u)
      BY <1>2 DEF Called
    <3>5. TimerInTime(u)
      BY <3>1 DEF TimesInv
    <3> HIDE DEF c
    <3> QED
      BY <1>2, <3>1, <3>2, <3>3, <3>4, <3>5, OthersWaitOn
  <2>2. CASE u = t
    <3>1. asked'[t] = ms /\ age'[t] = 0
      BY <1>2 DEF TimersInv, TypeOK
    <3>2. components'[t] = Counts(ms)
      <4>1. components'[t] = divideComponents(components[t], ms)
        BY <1>2 DEF TimersInv, TypeOK
      <4>2. \A d \in Offsets : components[t][d] = 0
        BY <1>2, <2>2
      <4> QED
        BY <4>1, <4>2, DividedIsCounts
    <3>3. ~ Called(t)'
      BY <1>2, <1>6 DEF Called
    <3>4. ComesIn(t)' \in 0 .. M(c) /\ M(c) \in Nat
      <4>1. M(c) - (clock % M(c)) \in 1 .. M(c) /\ M(c) \in Nat
        BY <1>3, ComesType DEF TimersInv
      <4>2. ComesIn(t)' = IF c \in due \/ t \in unvisited THEN 0 ELSE M(c) - (clock % M(c))
        BY <1>2, <1>7 DEF ComesIn
      <4> HIDE DEF c
      <4> QED
        BY <4>1, <4>2
    <3>5. SUFFICES ASSUME ms > 0
                   PROVE  WaitsInTime(ms, 0, ComesIn(t)', Counts(ms), c)
      <4> HIDE DEF c
      <4> QED
        BY <1>7, <2>2, <3>1, <3>2, <3>3 DEF TimerInTime
    <3> DEFINE n == Counts(ms)
               most == Most(n, c)
               least == Least(n, c)
               next == ComesIn(t)'
    <3>6. n[c] >= 1
      BY <1>4, <3>5, DividesSome
    <3>7. most + M(c) = Latest(ms) /\ least = Latest(ms) - Short(ms)
      BY <1>4, <3>5, AllIsLeft
    <3>8. Latest(ms) \in Nat /\ Short(ms) \in Nat
      BY <1>4, SpareIsTheRest
    <3>9. n \in [Offsets -> Nat]
      BY <1>4, CountsType
    <3>10. next \in 0 .. M(c)
      BY <3>4
    <3>11. n[c] # 0 /\ most \in Nat /\ least \in Nat
      <4> HIDE DEF n, c
      <4>1. n[c] # 0
        BY <3>6
      <4> QED
        BY <1>3, <3>9, <4>1, MostType DEF most, least
    <3>12. WaitsInTime(ms, 0, next, n, c)
      <4> HIDE DEF n, c, next, most, least
      <4>1. 0 + next + most <= Latest(ms) /\ 0 + next + least >= Latest(ms) - Short(ms)
        BY <3>4, <3>7, <3>8, <3>10, <3>11
      <4> QED
        BY <3>11, <4>1 DEF WaitsInTime, most, least
    <3> QED
      BY <3>12
  <2> QED
    BY <2>1, <2>2
<1> QED
  BY <1>8, <1>9 DEF TimesInv
LEMMA ClearInTime ==
    ASSUME TimersInv, TimesInv, NEW t \in Timers, clearTimeout_(t)
    PROVE  TimesInv'
<1>1. /\ lists' = removeTimerFromList(lists, t, lists.componentOffset[t])
      /\ armed' = armed \ {t}
      /\ asked' = [asked EXCEPT ![t] = 0]
      /\ age' = [age EXCEPT ![t] = 0]
      /\ clean' = clean \ {t}
      /\ unvisited' = unvisited \ {t}
      /\ UNCHANGED <<components, ticking, due, clock>>
  BY DEF clearTimeout_, Forgets, systemVars
<1>2. lists'.componentOffset = lists.componentOffset
  <2>1. lists \in ListType
    BY ListsType DEF TimersInv
  <2>2. lists.componentOffset[t] \in Offsets
    BY <2>1 DEF ListType
  <2> QED
    BY <1>1, <2>1, <2>2, RemovedFields
<1>3. CallsOnTime'
  BY <1>1, CallsStayOnTime DEF TimesInv
<1>4. ASSUME NEW u \in armed' \intersect clean' PROVE TimerInTime(u)'
  <2>1. u \in armed \intersect clean /\ u \in Timers /\ u # t
    BY <1>1 DEF TimersInv, TypeOK
  <2>2. asked'[u] = asked[u] /\ age'[u] = age[u] /\ components'[u] = components[u]
    BY <1>1, <2>1 DEF TimersInv, TypeOK
  <2>3. Called(u)' <=> Called(u)
    BY <1>1 DEF Called
  <2>4. TimerInTime(u)
    BY <2>1 DEF TimesInv
  <2> QED
    BY <1>1, <1>2, <2>1, <2>2, <2>3, <2>4, OthersWaitOn
<1> QED
  BY <1>3, <1>4 DEF TimesInv

LEMMA CallbackReturnsInTime ==
    ASSUME TimersInv, TimesInv, NEW t \in Timers, NEW c \in Offsets, CallbackReturns(t, c)
    PROVE  TimesInv'
<1>1. /\ ticking = [phase |-> "callback", component |-> c, iterator |-> t]
      /\ ticking' = [ticking EXCEPT !.iterator = lists.next[t], !.phase = "iterates"]
      /\ lists' = removeTimerFromList(lists, t, c)
      /\ armed' = armed \ {t}
      /\ asked' = [asked EXCEPT ![t] = 0]
      /\ age' = [age EXCEPT ![t] = 0]
      /\ clean' = clean \ {t}
      /\ UNCHANGED <<components, due, clock, unvisited>>
  BY DEF CallbackReturns, Forgets, allocVars, systemVars
<1>2. lists'.componentOffset = lists.componentOffset
  <2>1. lists \in ListType
    BY ListsType DEF TimersInv
  <2> QED
    BY <1>1, <2>1, RemovedFields
<1>3. ticking.phase = "callback" /\ ticking'.phase = "iterates"
      /\ ticking'.component = ticking.component /\ ticking.iterator = t
  BY <1>1
<1>4. CallsOnTime'
  BY <1>1, <1>3, CallsStayOnTime DEF TimesInv
<1>5. ASSUME NEW u \in armed' \intersect clean' PROVE TimerInTime(u)'
  <2>1. u \in armed \intersect clean /\ u \in Timers /\ u # t
    BY <1>1 DEF TimersInv, TypeOK
  <2>2. asked'[u] = asked[u] /\ age'[u] = age[u] /\ components'[u] = components[u]
    BY <1>1, <2>1 DEF TimersInv, TypeOK
  <2>3. Called(u)' <=> Called(u)
    BY <1>3, <2>1 DEF Called
  <2>4. TimerInTime(u)
    BY <2>1 DEF TimesInv
  <2> QED
    BY <1>1, <1>2, <2>1, <2>2, <2>3, <2>4, OthersWaitOn
<1> QED
  BY <1>4, <1>5 DEF TimesInv

LEMMA TickInTime ==
    ASSUME TimersInv, TimesInv, NEW c \in Offsets, tick(c)
    PROVE  TimesInv'
<1>1. /\ ticking.phase = "none" /\ c \in due
      /\ due' = due \ {c}
      /\ ticking' = [phase |-> "iterates", component |-> c, iterator |-> lists.head[c]]
      /\ unvisited' = InList(c)
      /\ UNCHANGED <<components, lists, clock, armed, asked, age, clean>>
  BY DEF tick, allocVars, waitVars
<1>2. CallsOnTime'
  BY <1>1 DEF TimesInv, CallsOnTime
<1>3. ASSUME NEW u \in armed' \intersect clean' PROVE TimerInTime(u)'
  <2>1. u \in armed \intersect clean
    BY <1>1
  <2>2. ~ Called(u) /\ ~ Called(u)'
    BY <1>1 DEF Called
  <2>3. TimerInTime(u)
    BY <2>1 DEF TimesInv
  <2>4. ComesIn(u)' = ComesIn(u)
    <3>1. unvisited = {}
      BY <1>1 DEF TimersInv, TickFollowsList
    <3> QED
      BY <1>1, <2>1, <3>1 DEF ComesIn, InList
  <2> QED
    BY <1>1, <2>2, <2>3, <2>4 DEF TimerInTime
<1> QED
  BY <1>2, <1>3 DEF TimesInv

LEMMA TickEndsInTime ==
    ASSUME TimersInv, TimesInv, tickEnds
    PROVE  TimesInv'
<1>1. /\ ticking.phase = "iterates"
      /\ ticking' = [ticking EXCEPT !.phase = "none"]
      /\ UNCHANGED <<components, lists, due, clock, armed, asked, age, clean, unvisited>>
  BY DEF tickEnds, Iterates, allocVars, systemVars, waitVars
<1>2. ticking'.phase = "none"
  BY <1>1 DEF TimersInv, TypeOK, Ticks
<1>3. CallsOnTime'
  BY <1>1, <1>2, CallsStayOnTime DEF TimesInv
<1>4. ASSUME NEW u \in armed' \intersect clean' PROVE TimerInTime(u)'
  <2>1. u \in armed \intersect clean /\ u \in Timers
    BY <1>1 DEF TimersInv, TypeOK
  <2>2. Called(u)' <=> Called(u)
    BY <1>1, <1>2 DEF Called
  <2>3. TimerInTime(u)
    BY <2>1 DEF TimesInv
  <2> QED
    BY <1>1, <2>1, <2>2, <2>3, OthersWaitOn
<1> QED
  BY <1>3, <1>4 DEF TimesInv

(* Time passes by one for every timer, and brings its tick nearer by one. *)
LEMMA TimePassesInTime ==
    ASSUME TimersInv, TimesInv, TimePasses
    PROVE  TimesInv'
<1>1. /\ ticking.phase = "none" /\ due = {}
      /\ clock' = (clock + 1) % Period
      /\ due' = {c \in Offsets : clock' % componentMultiplierMs[c] = 0}
      /\ age' = [t \in Timers |-> IF t \in armed /\ age[t] < MaxAge THEN age[t] + 1
                                  ELSE age[t]]
      /\ UNCHANGED <<components, lists, ticking, armed, asked, clean, unvisited>>
  BY DEF TimePasses, allocVars
<1>2. CallsOnTime'
  BY <1>1 DEF CallsOnTime, M
<1>3. clock \in Nat /\ unvisited = {}
  BY <1>1 DEF TimersInv, TypeOK, TickFollowsList
<1>4. ASSUME NEW c \in Offsets
      PROVE  clock' % M(c) = IF clock % M(c) = M(c) - 1 THEN 0 ELSE (clock % M(c)) + 1
  <2>1. M(c) \in Nat \ {0} /\ clock + 1 \in Nat
    BY <1>3, MultiplierType
  <2>2. Period \in Nat \ {0}
    BY DEF Period
  <2>3. Period % M(c) = 0
    BY PeriodsAssumption DEF M
  <2>4. ((clock + 1) % Period) % M(c) = (clock + 1) % M(c)
    <3> DEFINE a == clock + 1
               p == Period
               m == M(c)
    <3>1. a \in Nat /\ p \in Nat \ {0} /\ m \in Nat \ {0} /\ p % m = 0
      BY <2>1, <2>2, <2>3
    <3> HIDE DEF a, p, m
    <3>2. \A a_, p_, m_ :
              a_ \in Nat /\ p_ \in Nat \ {0} /\ m_ \in Nat \ {0} /\ p_ % m_ = 0
                  => (a_ % p_) % m_ = a_ % m_
      BY RemainderByMultiple
    <3>3. (a % p) % m = a % m
      BY <3>1, <3>2, Zenon
    <3> QED
      BY <3>3 DEF a, p, m
  <2>5. (clock + 1) % M(c) = IF clock % M(c) = M(c) - 1 THEN 0 ELSE (clock % M(c)) + 1
    BY <1>3, <2>1, NextRemainder
  <2> QED
    BY <1>1, <2>4, <2>5
<1>5. ASSUME NEW u \in armed' \intersect clean' PROVE TimerInTime(u)'
  <2>1. u \in armed \intersect clean
    BY <1>1
  <2>2. ~ Called(u) /\ ~ Called(u)'
    BY <1>1 DEF Called
  <2>3. TimerInTime(u)
    BY <2>1 DEF TimesInv
  <2> DEFINE c == lists.componentOffset[u]
             n == components[u]
             ms == asked[u]
             r == clock % M(c)
  <2>4. /\ u \in Timers /\ c \in Offsets /\ n \in [Offsets -> Nat]
        /\ age[u] \in 0 .. MaxAge /\ ms \in Nat
    BY <2>1, TimerType
  <2>5. SUFFICES ASSUME ms > 0 PROVE WaitsInTime(ms, age'[u], ComesIn(u)', n, c)
    BY <1>1, <2>2 DEF TimerInTime
  <2>6. WaitsInTime(ms, age[u], ComesIn(u), n, c)
    BY <2>2, <2>3, <2>5 DEF TimerInTime
  <2>7. M(c) - r \in 1 .. M(c) /\ M(c) \in Nat \ {0} /\ r \in 0 .. M(c) - 1
    BY <2>4, ComesType DEF TimersInv
  <2>8. ComesIn(u) = M(c) - r
    BY <1>1, <1>3 DEF ComesIn
  <2>9. ComesIn(u)' = ComesIn(u) - 1
    <3>1. ComesIn(u)' = IF clock' % M(c) = 0 THEN 0 ELSE M(c) - (clock' % M(c))
      BY <1>1, <1>3, <2>4 DEF ComesIn, M
    <3>2. clock' % M(c) = IF r = M(c) - 1 THEN 0 ELSE r + 1
      BY <1>4, <2>4
    <3> HIDE DEF r, c
    <3> QED
      BY <2>7, <2>8, <3>1, <3>2
  <2> DEFINE most == Most(n, c)
             least == Least(n, c)
  <2>10. most \in Nat /\ least \in Nat
    <3>1. n[c] # 0
      BY <2>6 DEF WaitsInTime
    <3> HIDE DEF n, c
    <3> QED
      BY <2>4, <3>1, MostType
  <2>11. Latest(ms) \in Nat /\ Short(ms) \in Nat
    <3> HIDE DEF ms
    <3> QED
      BY <2>4, SpareIsTheRest
  <2>12. Latest(ms) < MaxAge
    <3>1. ms \in Delays
      BY <2>4, <2>5 DEF TimersInv, TypeOK
    <3> QED
      BY <3>1, TicksAssumption
  <2>13. n[c] # 0 /\ age[u] + ComesIn(u) + most <= Latest(ms)
         /\ age[u] + ComesIn(u) + least >= Latest(ms) - Short(ms)
    BY <2>6 DEF WaitsInTime
  <2> DEFINE next == ComesIn(u)
  <2>14. next \in Nat /\ next >= 1
    BY <2>7, <2>8
  <2>15. age'[u] = age[u] + 1
    <3>1. age'[u] = IF age[u] < MaxAge THEN age[u] + 1 ELSE age[u]
      BY <1>1, <2>1, <2>4
    <3> HIDE DEF most, least, next, ms
    <3>2. age[u] < MaxAge
      BY <2>4, <2>10, <2>11, <2>12, <2>13, <2>14 DEF next
    <3> QED
      BY <3>1, <3>2
  <2>16. age'[u] + ComesIn(u)' = age[u] + ComesIn(u)
    <3> HIDE DEF next
    <3> QED
      BY <2>4, <2>9, <2>14, <2>15 DEF next
  <2> HIDE DEF ms, n, c
  <2> QED
    BY <2>13, <2>16 DEF WaitsInTime
<1> QED
  BY <1>2, <1>5 DEF TimesInv
(* A tick comes to timer t: one that waits in time has a tick of c left. *)
LEMMA TickComes ==
    ASSUME TimersInv, TimesInv, NEW t \in Timers, NEW c \in Offsets, Decrement(t, c),
           t \in clean, asked[t] > 0
    PROVE  /\ components[t] \in [Offsets -> Nat] /\ components[t][c] # 0
           /\ components'[t] \in [Offsets -> Nat]
           /\ components'[t] = [components[t] EXCEPT ![c] = @ - 1]
           /\ age[t] + Most(components[t], c) <= Latest(asked[t])
           /\ age[t] + Least(components[t], c) >= Latest(asked[t]) - Short(asked[t])
<1>1. /\ components' = [components EXCEPT ![t][c] = (@ - 1) % Wide]
      /\ ticking.phase = "iterates"
  BY DEF Decrement, Iterates
<1>2. t \in unvisited /\ t \in armed /\ lists.componentOffset[t] = c
  BY DecrementKeeps
<1> DEFINE n == components[t]
<1>3. /\ n \in [Offsets -> Nat] /\ n[c] < Wide /\ age[t] \in 0 .. MaxAge /\ asked[t] \in Nat
  BY <1>2, TimerType
<1>4. ComesIn(t) = 0
  BY <1>2 DEF ComesIn
<1>5. WaitsInTime(asked[t], age[t], 0, n, c)
  <2>1. TimerInTime(t) /\ ~ Called(t)
    BY <1>1, <1>2 DEF TimesInv, Called
  <2> QED
    BY <1>2, <1>4, <2>1 DEF TimerInTime
<1>6. n[c] # 0
  BY <1>5 DEF WaitsInTime
<1>7. (n[c] - 1) % Wide = n[c] - 1
  <2> DEFINE x == n[c] - 1
  <2>1. x \in Nat /\ x < Wide
    BY <1>3, <1>6
  <2> HIDE DEF x
  <2>2. x % Wide = x
    BY <2>1, Division
  <2> QED
    BY <2>2 DEF x
<1>8. components'[t] = [n EXCEPT ![c] = @ - 1]
  <2>1. components \in [Timers -> [Offsets -> 0 .. Wide - 1]]
    BY DEF TimersInv, TypeOK
  <2>2. components'[t] = [n EXCEPT ![c] = (n[c] - 1) % Wide]
    BY <1>1, <2>1
  <2> QED
    BY <1>7, <2>2
<1>9. components'[t] \in [Offsets -> Nat]
  <2> HIDE DEF n
  <2>1. n[c] - 1 \in Nat
    BY <1>3, <1>6
  <2> QED
    BY <1>3, <1>8, <2>1
<1>10. /\ age[t] + Most(n, c) <= Latest(asked[t])
       /\ age[t] + Least(n, c) >= Latest(asked[t]) - Short(asked[t])
  <2>1. age[t] + 0 = age[t]
    BY <1>3
  <2> HIDE DEF n
  <2> QED
    BY <1>5, <2>1 DEF WaitsInTime
<1> QED
  BY <1>3, <1>6, <1>8, <1>9, <1>10

(* It comes to no other timer. *)
LEMMA TickSpares ==
    ASSUME TimersInv, TimesInv, NEW t \in Timers, NEW c \in Offsets, Decrement(t, c),
           UNCHANGED <<due, clock, armed, asked, age, clean>>,
           \A v \in Timers : v # t => lists'.componentOffset[v] = lists.componentOffset[v],
           ticking'.phase = "iterates" \/ ticking'.iterator = t,
           NEW u \in armed \intersect clean, u # t
    PROVE  TimerInTime(u)'
<1>1. /\ components' = [components EXCEPT ![t][c] = (@ - 1) % Wide]
      /\ unvisited' = unvisited \ {t}
      /\ ticking.phase = "iterates"
  BY DEF Decrement, Iterates
<1>2. u \in Timers /\ TimerInTime(u)
  BY DEF TimersInv, TypeOK, TimesInv
<1>3. components'[u] = components[u]
  BY <1>1, <1>2 DEF TimersInv, TypeOK
<1>4. ~ Called(u) /\ ~ Called(u)'
  BY <1>1 DEF Called
<1>5. lists'.componentOffset[u] = lists.componentOffset[u]
  BY <1>2
<1> QED
  BY <1>1, <1>2, <1>3, <1>4, <1>5, OthersWaitOn

LEMMA KeepsWaitingInTime ==
    ASSUME TimersInv, TimesInv, NEW t \in Timers, NEW c \in Offsets, KeepsWaiting(t, c)
    PROVE  TimesInv'
<1>1. /\ Decrement(t, c) /\ components'[t][c] # 0
      /\ ticking' = [ticking EXCEPT !.iterator = lists.next[t]]
      /\ UNCHANGED <<lists, due, clock, armed, asked, age, clean>>
  BY DEF KeepsWaiting, allocVars, systemVars, waitVars
<1>2. /\ unvisited' = unvisited \ {t}
      /\ ticking.phase = "iterates" /\ ticking.component = c
      /\ t \in armed /\ lists.componentOffset[t] = c
  BY <1>1, DecrementKeeps
<1>3. ticking'.phase = "iterates" /\ ticking'.component = c
  BY <1>1, <1>2 DEF TimersInv, TypeOK, Ticks
<1>4. CallsOnTime'
  BY <1>1, <1>2, <1>3, CallsStayOnTime DEF TimesInv
<1>5. ASSUME NEW u \in armed' \intersect clean' PROVE TimerInTime(u)'
  <2>1. CASE u # t
    BY <1>1, <1>3, <2>1, TickSpares
  <2>2. CASE u = t
    <3>1. ~ Called(t)' /\ asked'[t] = asked[t] /\ age'[t] = age[t]
          /\ lists'.componentOffset[t] = c
      BY <1>1, <1>2, <1>3 DEF Called
    <3>2. SUFFICES ASSUME asked[t] > 0
                   PROVE  WaitsInTime(asked[t], age[t], ComesIn(t)', components'[t], c)
      BY <2>2, <3>1 DEF TimerInTime
    <3> DEFINE n == components[t]
               k == components'[t]
    <3>3. /\ n \in [Offsets -> Nat] /\ n[c] # 0 /\ k \in [Offsets -> Nat]
          /\ k = [n EXCEPT ![c] = @ - 1]
          /\ age[t] + Most(n, c) <= Latest(asked[t])
          /\ age[t] + Least(n, c) >= Latest(asked[t]) - Short(asked[t])
      BY <1>1, <2>2, <3>2, TickComes
    <3>4. age[t] \in 0 .. MaxAge
      BY <1>2, TimerType
    <3>5. M(c) \in Nat
      BY MultiplierType
    <3>6. ComesIn(t)' = M(c)
      <4>1. clock % M(c) = 0 /\ c \notin due
        BY <1>2 DEF TimesInv, CallsOnTime
      <4>2. ComesIn(t)' = M(c) - (clock % M(c))
        BY <1>1, <1>2, <4>1 DEF ComesIn
      <4> QED
        BY <3>5, <4>1, <4>2
    <3> HIDE DEF n, k
    <3>7. n[c] >= 2 /\ k[c] # 0
      <4>1. k[c] = n[c] - 1 /\ n[c] \in Nat
        BY <3>3
      <4>2. k[c] # 0
        BY <1>1 DEF k
      <4> QED
        BY <3>3, <4>1, <4>2
    <3>8. Most(n, c) = Most(k, c) + M(c) /\ Least(n, c) = Least(k, c) + M(c)
      BY <3>3, <3>7, OneTickLess
    <3>9. Most(k, c) \in Nat /\ Least(k, c) \in Nat
      BY <3>3, <3>7, MostType
    <3>10. /\ age[t] + M(c) + Most(k, c) = age[t] + Most(n, c)
           /\ age[t] + M(c) + Least(k, c) = age[t] + Least(n, c)
      BY <3>4, <3>5, <3>8, <3>9
    <3> QED
      BY <3>3, <3>6, <3>7, <3>10 DEF WaitsInTime, k
  <2> QED
    BY <2>1, <2>2
<1> QED
  BY <1>4, <1>5 DEF TimesInv

LEMMA TriggersWhenDue ==
    ASSUME TimersInv, TimesInv, NEW t \in Timers, NEW c \in Offsets, Triggers(t, c)
    PROVE  TimesInv'
<1>1. /\ Decrement(t, c) /\ components'[t][c] = 0 /\ LeftAfter(t, c) = {}
      /\ ticking' = [ticking EXCEPT !.phase = "callback"]
      /\ UNCHANGED <<lists, due, clock, armed, asked, age, clean>>
  BY DEF Triggers, allocVars, systemVars, waitVars
<1>2. /\ ticking.phase = "iterates" /\ ticking.component = c /\ t \in armed
  BY <1>1, DecrementKeeps
<1>3. ticking'.phase = "callback" /\ ticking'.component = c /\ ticking'.iterator = t
  BY <1>1, <1>2 DEF TimersInv, TypeOK, Ticks, Decrement
<1>4. CallsOnTime'
  BY <1>1, <1>2, <1>3, CallsStayOnTime DEF TimesInv
<1>5. ASSUME NEW u \in armed' \intersect clean' PROVE TimerInTime(u)'
  <2>1. CASE u # t
    BY <1>1, <1>3, <2>1, TickSpares
  <2>2. CASE u = t
    <3>1. Called(t)' /\ asked'[t] = asked[t] /\ age'[t] = age[t]
      BY <1>1, <1>3 DEF Called
    <3>2. SUFFICES ASSUME asked[t] > 0
                   PROVE  /\ age[t] <= Latest(asked[t])
                          /\ age[t] >= Latest(asked[t]) - Short(asked[t])
      BY <2>2, <3>1 DEF TimerInTime
    <3> DEFINE n == components[t]
               k == components'[t]
    <3>3. /\ n \in [Offsets -> Nat] /\ n[c] # 0
          /\ k = [n EXCEPT ![c] = @ - 1]
          /\ age[t] + Most(n, c) <= Latest(asked[t])
          /\ age[t] + Least(n, c) >= Latest(asked[t]) - Short(asked[t])
      BY <1>1, <2>2, <3>2, TickComes
    <3>4. age[t] \in 0 .. MaxAge
      BY <1>2, TimerType
    <3>5. \A d \in Offsets : d < c => n[d] = 0
      BY <1>1 DEF LeftAfter, Offsets
    <3>6. k[c] = 0
      BY <1>1
    <3> HIDE DEF n, k
    <3>7. n[c] = 1
      <4>1. k[c] = n[c] - 1 /\ n[c] \in Nat
        BY <3>3
      <4> QED
        BY <3>6, <4>1
    <3>8. Most(n, c) = 0 /\ Least(n, c) = 0
      BY <3>3, <3>5, <3>7, NothingIsLeft
    <3> QED
      BY <3>3, <3>4, <3>8
  <2> QED
    BY <2>1, <2>2
<1> QED
  BY <1>4, <1>5 DEF TimesInv

LEMMA MovesInTime ==
    ASSUME TimersInv, TimesInv, NEW t \in Timers, NEW c \in Offsets, Moves(t, c)
    PROVE  TimesInv'
<1> DEFINE d == Largest(LeftAfter(t, c))
           m == removeTimerFromList(lists, t, lists.componentOffset[t])
<1>1. /\ Decrement(t, c) /\ components'[t][c] = 0
      /\ LeftAfter(t, c) # {}
      /\ ticking' = [ticking EXCEPT !.iterator = lists.next[t]]
      /\ lists' = addTimerToList(m, t, d)
      /\ UNCHANGED <<due, clock, armed, asked, age, clean>>
  BY DEF Moves, moveTimerToList, allocVars, systemVars, waitVars
<1>2. /\ unvisited' = unvisited \ {t}
      /\ ticking.phase = "iterates" /\ ticking.component = c
      /\ t \in armed /\ lists.componentOffset[t] = c
  BY <1>1, DecrementKeeps
<1>3. ticking'.phase = "iterates" /\ ticking'.component = c
  BY <1>1, <1>2 DEF TimersInv, TypeOK, Ticks
<1>4. LeftAfter(t, c) \in SUBSET Offsets
  BY DEF LeftAfter, Offsets
<1>5. d \in Offsets /\ d \in LeftAfter(t, c) /\ \A e \in LeftAfter(t, c) : e <= d
  BY <1>1, <1>4, LargestIsOne
<1> HIDE DEF d
<1>6. /\ lists'.componentOffset[t] = d
      /\ \A v \in Timers : v # t => lists'.componentOffset[v] = lists.componentOffset[v]
  <2>1. lists \in ListType
    BY ListsType DEF TimersInv
  <2>2. m \in ListType /\ m.componentOffset = lists.componentOffset
    BY <1>2, <2>1, RemovedType, RemovedFields
  <2> HIDE DEF m
  <2> QED
    BY <1>1, <2>2 DEF addTimerToList, ListType
<1>7. CallsOnTime'
  BY <1>1, <1>2, <1>3, CallsStayOnTime DEF TimesInv
<1>8. ASSUME NEW u \in armed' \intersect clean' PROVE TimerInTime(u)'
  <2>1. CASE u # t
    BY <1>1, <1>3, <1>6, <2>1, TickSpares
  <2>2. CASE u = t
    <3>1. ~ Called(t)' /\ asked'[t] = asked[t] /\ age'[t] = age[t]
      BY <1>1, <1>3 DEF Called
    <3>2. SUFFICES ASSUME asked[t] > 0
                   PROVE  WaitsInTime(asked[t], age[t], ComesIn(t)', components'[t], d)
      BY <1>6, <2>2, <3>1 DEF TimerInTime
    <3> DEFINE n == components[t]
               k == components'[t]
               ms == asked[t]
    <3>3. /\ n \in [Offsets -> Nat] /\ n[c] # 0 /\ k \in [Offsets -> Nat]
          /\ k = [n EXCEPT ![c] = @ - 1]
          /\ age[t] + Most(n, c) <= Latest(ms)
          /\ age[t] + Least(n, c) >= Latest(ms) - Short(ms)
      BY <1>1, <2>2, <3>2, TickComes
    <3>4. age[t] \in 0 .. MaxAge /\ ms \in Nat
      BY <1>2, TimerType
    <3>5. M(d) \in Nat /\ ComesIn(t)' \in 0 .. M(d)
      <4>1. M(d) - (clock % M(d)) \in 1 .. M(d) /\ M(d) \in Nat
        BY <1>5, ComesType DEF TimersInv
      <4>2. ComesIn(t)' = IF d \in due THEN 0 ELSE M(d) - (clock % M(d))
        BY <1>1, <1>2, <1>6 DEF ComesIn
      <4> QED
        BY <4>1, <4>2
    <3>6. d < c /\ n[d] # 0
      BY <1>5 DEF LeftAfter, Offsets
    <3>7. \A f \in Offsets : d < f /\ f < c => n[f] = 0
      <4> SUFFICES ASSUME NEW f \in Offsets, d < f, f < c, n[f] # 0 PROVE FALSE
        OBVIOUS
      <4>1. f \in LeftAfter(t, c)
        BY DEF LeftAfter, Offsets
      <4>2. f <= d
        BY <1>5, <4>1
      <4> HIDE DEF n
      <4> QED
        BY <1>5, <4>2 DEF Offsets
    <3>8. k[c] = 0
      BY <1>1
    <3>9. Latest(ms) \in Nat /\ Short(ms) \in Nat
      <4> HIDE DEF ms
      <4> QED
        BY <3>4, SpareIsTheRest
    <3> HIDE DEF n, k, ms
    <3>10. n[c] = 1 /\ SameBelow(n, k, c)
      <4>1. k[c] = n[c] - 1 /\ n[c] \in Nat
        BY <3>3
      <4>2. SameBelow(n, k, c)
        BY <3>3 DEF SameBelow, Offsets
      <4> QED
        BY <3>8, <4>1, <4>2
    <3>11. k[d] # 0 /\ Most(n, c) = Most(k, d) + M(d) /\ Least(n, c) = Least(k, d)
      <4>1. IsNext(n, c, d)
        BY <3>6, <3>7 DEF IsNext
      <4>2. n \in [Offsets -> Nat] /\ k \in [Offsets -> Nat] /\ d \in Offsets
        BY <1>5, <3>3
      <4> QED
        BY <3>10, <4>1, <4>2, NextOfLast
    <3>12. Most(k, d) \in Nat /\ Least(k, d) \in Nat
      BY <1>5, <3>3, <3>11, MostType
    <3> DEFINE next == ComesIn(t)'
               most == Most(k, d)
               least == Least(k, d)
    <3>13. /\ next \in 0 .. M(d) /\ most \in Nat /\ least \in Nat
           /\ age[t] + (most + M(d)) <= Latest(ms)
           /\ age[t] + least >= Latest(ms) - Short(ms)
      BY <3>3, <3>5, <3>11, <3>12
    <3>14. WaitsInTime(ms, age[t], next, k, d)
      <4> DEFINE a == age[t]
                 p == M(d)
                 late == Latest(ms)
                 short == Short(ms)
      <4>1. /\ a \in Nat /\ p \in Nat /\ late \in Nat /\ short \in Nat
            /\ next \in 0 .. p /\ most \in Nat /\ least \in Nat
            /\ a + (most + p) <= late /\ a + least >= late - short
        BY <3>4, <3>5, <3>9, <3>13
      <4> HIDE DEF next, most, least, a, p, late, short
      <4>2. a + next + most <= late /\ a + next + least >= late - short
        BY <4>1
      <4> QED
        BY <3>11, <4>2 DEF WaitsInTime, a, late, short, most, least
    <3> QED
      BY <3>14 DEF ms, k
  <2> QED
    BY <2>1, <2>2
<1> QED
  BY <1>7, <1>8 DEF TimesInv

LEMMA TimesStep == TimersInv /\ TimesInv /\ [Next]_vars => TimesInv'
<1> SUFFICES ASSUME TimersInv, TimesInv, [Next]_vars PROVE TimesInv'
  OBVIOUS
<1>1. CASE UNCHANGED vars
  <2>1. UNCHANGED <<components, lists, ticking, due, clock, armed, asked, age, clean,
                    unvisited>>
    BY <1>1 DEF vars, systemVars, waitVars
  <2>2. \A u \in armed \intersect clean : TimerInTime(u)' <=> TimerInTime(u)
    BY <2>1 DEF TimerInTime, Called, ComesIn
  <2> QED
    BY <2>1, <2>2 DEF TimesInv, CallsOnTime
<1>2. CASE Next
  BY <1>2, SetInTime, ClearInTime, TimePassesInTime, TickInTime, TickEndsInTime,
     KeepsWaitingInTime, MovesInTime, TriggersWhenDue, CallbackReturnsInTime DEF Next
<1> QED
  BY <1>1, <1>2

LEMMA TimesAlways == Spec => [](TimersInv /\ TimesInv)
BY TimersInit, TimersStep, TimesInit, TimesStep, PTL DEF Spec

\* A timer that has something to wait for, and whose offset nothing is left over in
\* from a timer that was cleared, is triggered no later than what it asked for,
\* rounded up to a period of component 0, and no earlier than that less one period
\* of each component it has: however many timers are set and cleared meanwhile, and
\* in whatever order the system timers call that are due at the same time.
\* (divideComponents, tick)
THEOREM TimersTriggerInTime == Spec => []TriggersInTime
<1>1. ASSUME TimersInv, TimesInv PROVE TriggersInTime
  <2> SUFFICES ASSUME NEW t \in armed \intersect clean, asked[t] > 0
               PROVE  /\ age[t] <= Latest(asked[t])
                      /\ ticking.phase = "callback" /\ ticking.iterator = t
                         => age[t] >= Latest(asked[t]) - Short(asked[t])
    BY DEF TriggersInTime
  <2>1. TimerInTime(t)
    BY <1>1 DEF TimesInv
  <2>2. CASE Called(t)
    BY <2>1, <2>2 DEF TimerInTime, Called
  <2>3. CASE ~ Called(t)
    <3> DEFINE c == lists.componentOffset[t]
               n == components[t]
               ms == asked[t]
    <3>1. WaitsInTime(ms, age[t], ComesIn(t), n, c)
      BY <2>1, <2>3 DEF TimerInTime
    <3>2. /\ c \in Offsets /\ n \in [Offsets -> Nat]
          /\ age[t] \in 0 .. MaxAge /\ ms \in Nat
      BY <1>1, TimerType
    <3>3. ComesIn(t) \in Nat
      <4>1. M(c) - (clock % M(c)) \in 1 .. M(c) /\ M(c) \in Nat
        BY <1>1, <3>2, ComesType DEF TimersInv
      <4>2. ComesIn(t) = 0 \/ ComesIn(t) = M(c) - (clock % M(c))
        BY DEF ComesIn
      <4> HIDE DEF c
      <4> QED
        BY <4>1, <4>2
    <3>4. Latest(ms) \in Nat
      <4> HIDE DEF ms
      <4> QED
        BY <3>2, SpareIsTheRest
    <3> HIDE DEF c, n
    <3>5. Most(n, c) \in Nat
      BY <3>1, <3>2, MostType DEF WaitsInTime
    <3>6. age[t] + ComesIn(t) + Most(n, c) <= Latest(ms)
      BY <3>1 DEF WaitsInTime
    <3>7. age[t] <= Latest(ms)
      <4> HIDE DEF ms
      <4> QED
        BY <3>2, <3>3, <3>4, <3>5, <3>6
    <3> QED
      BY <2>3, <3>7 DEF Called
  <2> QED
    BY <2>2, <2>3
<1> QED
  BY <1>1, TimesAlways, PTL
===============================================================================
