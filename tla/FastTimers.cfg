\* Three timers, set at most three times, with components of 2, 4 and 8 ms; unsigned
\* integers of two bits.
SPECIFICATION Spec
CONSTANTS
    Size = 3
    Components = 3
    componentMultiplierMs <- Periods
    Wide = 4
    UINT_MAX = UINT_MAX
    Delays = {0, 5, 11}
    MaxSets = 3
    MaxAge = 13
INVARIANTS
    TypeOK
    TimersAreWellFormed
    TriggersInTime
