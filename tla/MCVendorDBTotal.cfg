SPECIFICATION DbSpec
CONSTANTS
    Keys = {k1, k2}
    CacheSize = 2
    DbFails = FALSE
    ClockSetBack = FALSE
INVARIANT
    TotalExact
