------------------------------ MODULE FastTimers ------------------------------
(***************************************************************************)
(* The timers of FastTimers.h.  The time a timer has to wait is divided    *)
(* into ticks of several periods, its components; it waits in the list of  *)
(* its largest component, and moves to that of the next one when those     *)
(* ticks are over.  Lists are doubly linked through arrays, offsets into   *)
(* these are handed out by a stack.                                        *)
(*                                                                         *)
(* addon.cpp has its include commented out: the module is about the header *)
(* by itself.  The system timers that call tick are not in it; here each   *)
(* calls on time, whenever its period divides the clock, and those that    *)
(* are due at the same time call in any order.                             *)
(***************************************************************************)
EXTENDS Integers

CONSTANTS
    Size,                   \* length of the arrays, 1000000 in the code
    Components,             \* number of components, 5 in the code
    componentMultiplierMs,  \* period of each component
    Wide,                   \* unsigned int is 0 .. Wide - 1
    UINT_MAX,               \* no timer
    Delays,                 \* times that are asked for
    MaxSets,                \* bound: calls of setTimeout_
    MaxAge                  \* bound: ages are counted up to here

Timers  == 0 .. Size - 1
Offsets == 0 .. Components - 1
Links   == Timers \union {UINT_MAX}

ASSUME SizeAssumption == Size \in Nat \ {0}
ASSUME ComponentsAssumption ==
    /\ Components \in Nat \ {0}
    /\ componentMultiplierMs \in [0 .. Components - 1 -> Nat \ {0}]
ASSUME WideAssumption == Wide \in Nat \ {0} /\ UINT_MAX \notin Timers
ASSUME DelaysAssumption == Delays \subseteq Nat /\ MaxSets \in Nat /\ MaxAge \in Nat

VARIABLES
    freeTimers,     \* the stack of offsets
    freeTimersHead, \* number of offsets that are handed out
    components,     \* ticks each timer has left, for each component
    lists,          \* the links of the timers, and the list each was last put in
    ticking,        \* the call of tick that is running
    due,            \* components whose system timer is still to call
    clock,          \* time, as far as the system timers can tell it apart
    sets,           \* calls of setTimeout_ so far
    armed,          \* timers that wait (history)
    asked,          \* what each timer was set to (history)
    age,            \* how long each timer has waited (history)
    clean,          \* timers whose offset had no components left over (history)
    unvisited       \* timers the running tick has still to come to (history)

allocVars  == <<freeTimers, freeTimersHead, sets>>
waitVars   == <<armed, asked, age, clean>>
systemVars == <<due, clock>>
vars == <<allocVars, components, lists, ticking, systemVars, waitVars, unvisited>>

(* tick(component) has come to a timer, and may be running its callback. *)
Ticks == [phase : {"none", "iterates", "callback"}, component : Offsets, iterator : Links]

\* Every variable has its type.
TypeOK ==
    /\ freeTimers \in [Timers -> Timers]
    /\ freeTimersHead \in 0 .. Size
    /\ sets \in 0 .. MaxSets
    /\ components \in [Timers -> [Offsets -> 0 .. Wide - 1]]
    /\ lists \in [next : [Timers -> Links], prev : [Timers -> Links],
                  head : [Offsets -> Links], componentOffset : [Timers -> Offsets]]
    /\ ticking \in Ticks
    /\ due \subseteq Offsets
    /\ clock \in Nat
    /\ armed \subseteq Timers
    /\ asked \in [Timers -> Delays \union {0}]
    /\ age \in [Timers -> 0 .. MaxAge]
    /\ clean \subseteq Timers
    /\ unvisited \subseteq Timers

Init ==
    /\ freeTimers = [i \in Timers |-> i]
    /\ freeTimersHead = 0
    /\ sets = 0
    /\ components = [t \in Timers |-> [c \in Offsets |-> 0]]
    /\ lists = [next |-> [t \in Timers |-> 0], prev |-> [t \in Timers |-> 0],
                head |-> [c \in Offsets |-> UINT_MAX],
                componentOffset |-> [t \in Timers |-> 0]]
    /\ ticking = [phase |-> "none", component |-> 0, iterator |-> UINT_MAX]
    /\ due = {}
    /\ clock = 0
    /\ armed = {}
    /\ asked = [t \in Timers |-> 0]
    /\ age = [t \in Timers |-> 0]
    /\ clean = {}
    /\ unvisited = {}

-------------------------------------------------------------------------------
(* Lists.  A definition whose name ends in an underscore and a word is a     *)
(* mistake.                                                                  *)

addTimerToList(l, t, c) ==
    LET head == l.head[c] IN
    [next |-> [l.next EXCEPT ![t] = head],
     prev |-> [u \in Timers |-> IF u = t THEN UINT_MAX
                                ELSE IF u = head THEN t ELSE l.prev[u]],
     head |-> [l.head EXCEPT ![c] = t],
     componentOffset |-> [l.componentOffset EXCEPT ![t] = c]]

removeTimerFromList_keepsPrev(l, t, c) ==
    [l EXCEPT !.next = [u \in Timers |-> IF u = l.prev[t] THEN l.next[t] ELSE @[u]],
              !.head = IF l.prev[t] = UINT_MAX THEN [@ EXCEPT ![c] = l.next[t]] ELSE @]

removeTimerFromList(l, t, c) ==
    [l EXCEPT !.next = [u \in Timers |-> IF u = l.prev[t] THEN l.next[t] ELSE @[u]],
              !.prev = [u \in Timers |-> IF u = l.next[t] THEN l.prev[t] ELSE @[u]],
              !.head = IF l.prev[t] = UINT_MAX THEN [@ EXCEPT ![c] = l.next[t]] ELSE @]

moveTimerToList(l, t, c) ==
    addTimerToList(removeTimerFromList(l, t, l.componentOffset[t]), t, c)

-------------------------------------------------------------------------------
(* How a time is divided. *)

(* What is left of ms below component c. *)
LeftBelow(ms) ==
    LET left[c \in 0 .. Components] ==
            IF c = Components THEN ms ELSE left[c + 1] % componentMultiplierMs[c]
    IN  left

(* The components ms has. *)
Divides(ms) == {c \in Offsets : LeftBelow(ms)[c + 1] >= componentMultiplierMs[c]}

(* What a remainder is short of a whole tick of component 0. *)
overshoot(ms) ==
    LET rest == LeftBelow(ms)[0] IN
    IF rest = 0 THEN 0 ELSE componentMultiplierMs[0] - rest

divideComponents_lostRemainder(old, ms) ==
    [c \in Offsets |->
        IF c \in Divides(ms) THEN LeftBelow(ms)[c + 1] \div componentMultiplierMs[c]
        ELSE old[c]]

(* Only the components that ms has are written; a remainder is one more tick   *)
(* of component 0.                                                             *)
divideComponents(old, ms) ==
    [c \in Offsets |->
        ((IF c \in Divides(ms) THEN LeftBelow(ms)[c + 1] \div componentMultiplierMs[c]
          ELSE old[c])
         + (IF c = 0 /\ overshoot(ms) > 0 THEN 1 ELSE 0)) % Wide]

Largest(set) == IF set = {} THEN 0 ELSE CHOOSE c \in set : \A d \in set : d <= c

-------------------------------------------------------------------------------
(* Calls: from the loop, or from the callback of a timer. *)

MayCall == ticking.phase # "iterates"

(* More timers than the stack has are not asked for. *)
setTimeout_(ms) ==
    LET t == freeTimers[freeTimersHead] IN
    /\ MayCall
    /\ freeTimersHead < Size
    /\ sets < MaxSets
    /\ sets' = sets + 1
    /\ freeTimersHead' = freeTimersHead + 1
    /\ components' = [components EXCEPT ![t] = divideComponents(@, ms)]
    /\ lists' = addTimerToList(lists, t, Largest(Divides(ms)))
    /\ armed' = armed \union {t}
    /\ asked' = [asked EXCEPT ![t] = ms]
    /\ age'   = [age EXCEPT ![t] = 0]
    /\ clean' = IF \A c \in Offsets : components[t][c] = 0 THEN clean \union {t}
                ELSE clean \ {t}
    /\ UNCHANGED <<freeTimers, ticking, systemVars, unvisited>>

(* The timer does not wait any more. *)
Forgets(t) ==
    /\ armed' = armed \ {t}
    /\ asked' = [asked EXCEPT ![t] = 0]
    /\ age'   = [age EXCEPT ![t] = 0]
    /\ clean' = clean \ {t}

(* Only timers that wait may be cleared, and, as a comment in tick says, none  *)
(* by its own callback.                                                        *)
clearTimeout_(t) ==
    /\ MayCall
    /\ t \in armed
    /\ ticking.phase = "callback" => t # ticking.iterator
    /\ lists' = removeTimerFromList(lists, t, lists.componentOffset[t])
    /\ freeTimersHead' = freeTimersHead - 1
    /\ freeTimers' = [freeTimers EXCEPT ![freeTimersHead - 1] = t]
    /\ Forgets(t)
    /\ unvisited' = unvisited \ {t}
    /\ UNCHANGED <<sets, components, ticking, systemVars>>

-------------------------------------------------------------------------------
(* tick. *)

Period == componentMultiplierMs[Components - 1]

(* Time does not pass before every system timer that is due has called. *)
TimePasses ==
    /\ ticking.phase = "none"
    /\ due = {}
    /\ clock' = (clock + 1) % Period
    /\ due' = {c \in Offsets : clock' % componentMultiplierMs[c] = 0}
    /\ age' = [t \in Timers |-> IF t \in armed /\ age[t] < MaxAge THEN age[t] + 1
                                ELSE age[t]]
    /\ UNCHANGED <<allocVars, components, lists, ticking, armed, asked, clean,
                   unvisited>>

InList(c) == {t \in armed : lists.componentOffset[t] = c}

tick(c) ==
    /\ ticking.phase = "none"
    /\ c \in due
    /\ due' = due \ {c}
    /\ ticking' = [phase |-> "iterates", component |-> c, iterator |-> lists.head[c]]
    /\ unvisited' = InList(c)
    /\ UNCHANGED <<allocVars, components, lists, clock, waitVars>>

Iterates == ticking.phase = "iterates"

tickEnds ==
    /\ Iterates
    /\ ticking.iterator = UINT_MAX
    /\ ticking' = [ticking EXCEPT !.phase = "none"]
    /\ UNCHANGED <<allocVars, components, lists, systemVars, waitVars, unvisited>>

Decrement_signed(t, c) ==
    /\ Iterates
    /\ t = ticking.iterator
    /\ t # UINT_MAX
    /\ c = ticking.component
    /\ components' = [components EXCEPT ![t][c] = @ - 1]
    /\ unvisited' = unvisited \ {t}

(* The timer at the iterator has one tick less. *)
Decrement(t, c) ==
    /\ Iterates
    /\ t = ticking.iterator
    /\ t # UINT_MAX
    /\ c = ticking.component
    /\ components' = [components EXCEPT ![t][c] = (@ - 1) % Wide]
    /\ unvisited' = unvisited \ {t}

(* Components of t that are left once it has no more ticks of c to wait for. *)
LeftAfter(t, c) == {d \in 0 .. c - 1 : components[t][d] # 0}

KeepsWaiting(t, c) ==
    /\ Decrement(t, c)
    /\ components'[t][c] # 0
    /\ ticking' = [ticking EXCEPT !.iterator = lists.next[t]]
    /\ UNCHANGED <<allocVars, lists, systemVars, waitVars>>

(* It moves to the list of the largest component it has left. *)
Moves(t, c) ==
    /\ Decrement(t, c)
    /\ components'[t][c] = 0
    /\ LeftAfter(t, c) # {}
    /\ ticking' = [ticking EXCEPT !.iterator = lists.next[t]]
    /\ lists' = moveTimerToList(lists, t, Largest(LeftAfter(t, c)))
    /\ UNCHANGED <<allocVars, systemVars, waitVars>>

(* It has none left: its callback runs. *)
Triggers(t, c) ==
    /\ Decrement(t, c)
    /\ components'[t][c] = 0
    /\ LeftAfter(t, c) = {}
    /\ ticking' = [ticking EXCEPT !.phase = "callback"]
    /\ UNCHANGED <<allocVars, lists, systemVars, waitVars>>

(* The timer leaves its list; its offset does not return to the stack. *)
CallbackReturns(t, c) ==
    /\ ticking = [phase |-> "callback", component |-> c, iterator |-> t]
    /\ ticking' = [ticking EXCEPT !.iterator = lists.next[t], !.phase = "iterates"]
    /\ lists' = removeTimerFromList(lists, t, c)
    /\ Forgets(t)
    /\ UNCHANGED <<allocVars, components, systemVars, unvisited>>

Next ==
    \/ \E ms \in Delays : setTimeout_(ms)
    \/ \E t \in Timers : clearTimeout_(t)
    \/ TimePasses
    \/ \E c \in Offsets : tick(c)
    \/ tickEnds
    \/ \E t \in Timers, c \in Offsets :
        \/ KeepsWaiting(t, c)
        \/ Moves(t, c)
        \/ Triggers(t, c)
        \/ CallbackReturns(t, c)

Spec == Init /\ [][Next]_vars

-------------------------------------------------------------------------------
(* What must hold. *)

\* The list of a component is linked, in both directions, through exactly the
\* timers that wait in it.  (addTimerToList, removeTimerFromList)
ListsAreLinked ==
    \A c \in Offsets :
        /\ lists.head[c] \in InList(c) \union {UINT_MAX}
        /\ \A t \in InList(c) :
            /\ lists.next[t] \in InList(c) \union {UINT_MAX}
            /\ lists.prev[t] \in InList(c) \union {UINT_MAX}
            /\ lists.prev[t] = UINT_MAX <=> lists.head[c] = t
            /\ \A u \in InList(c) : lists.next[t] = u <=> lists.prev[u] = t

\* An offset that can be handed out belongs to no timer that waits, and is on the
\* stack once.  (allocateTimer, freeTimer)
OffsetsAreFree ==
    \A i \in freeTimersHead .. Size - 1 :
        /\ freeTimers[i] \notin armed
        /\ \A j \in freeTimersHead .. Size - 1 : freeTimers[i] = freeTimers[j] => i = j

\* A tick comes to each timer of its list once, whatever callbacks set and clear
\* meanwhile: the iterator is at a timer it has yet to come to, or at that whose
\* callback runs, and when it is at the end none is left.
TickVisitsItsList ==
    /\ ticking.phase = "none" => unvisited = {}
    /\ ticking.phase = "callback" => ticking.iterator \in armed \ unvisited
    /\ ticking.phase = "iterates" =>
           IF unvisited = {} THEN ticking.iterator = UINT_MAX
           ELSE ticking.iterator \in unvisited

\* The structure behind the timers is sound.
TimersAreWellFormed == ListsAreLinked /\ OffsetsAreFree /\ TickVisitsItsList

(* The time a timer waits: at most what it asked for, rounded up; and each of  *)
(* its components may be short of one period, as the first tick may come at    *)
(* once.                                                                       *)
Latest(ms) == ms + overshoot(ms)

(* The sum of g over the components below one. *)
SumBelow(g) ==
    LET sum[c \in 0 .. Components] == IF c = 0 THEN 0 ELSE sum[c - 1] + g[c - 1]
    IN  sum

Short(ms) ==
    SumBelow([c \in Offsets |->
                 IF c \in Divides(ms) \/ (c = 0 /\ overshoot(ms) > 0)
                 THEN componentMultiplierMs[c] ELSE 0])[Components]

(* The system timers come round together, no time that is asked for has more    *)
(* ticks of a component than an unsigned int counts, and ages are counted far   *)
(* enough.                                                                     *)
ASSUME PeriodsAssumption ==
    \A c \in Offsets : Period % componentMultiplierMs[c] = 0
ASSUME TicksAssumption ==
    \A ms \in Delays : /\ \A c \in Offsets :
                            LeftBelow(ms)[c + 1] \div componentMultiplierMs[c] + 1 < Wide
                      /\ Latest(ms) < MaxAge

\* A timer that has something to wait for, and whose offset nothing is left over in
\* from a timer that was cleared, is triggered in time.  (tick, divideComponents)
TriggersInTime ==
    \A t \in armed \intersect clean :
        asked[t] > 0 =>
            /\ age[t] <= Latest(asked[t])
            /\ ticking.phase = "callback" /\ ticking.iterator = t
               => age[t] >= Latest(asked[t]) - Short(asked[t])
===============================================================================
