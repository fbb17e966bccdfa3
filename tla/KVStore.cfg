\* Two threads, a key in each of two collections, integers of two bits.
CONSTANTS
    Threads = {t1, t2}
    NoThread = NoThread
    Collections = {c1, c2}
    Keys = {k1}
    Absent = Absent
    Numbers <- Negative
    Half = 2
    MaxMeant = 3
SPECIFICATION Spec
SYMMETRY ThreadAndNameSymmetry
INVARIANTS
    TypeOK
    CountersExact
    WaitersAreNotStranded
PROPERTIES
    SmallCountersReadExactly
\* Threads may all end, or wait for the mutex of one that has, or for themselves.
CHECK_DEADLOCK FALSE
