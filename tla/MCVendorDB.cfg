SPECIFICATION DbSpec
CONSTANTS
    Keys = {k1, k2, k3, k4}
    CacheSize = 2
    DbFails = TRUE
    ClockSetBack = TRUE
SYMMETRY Symm
INVARIANTS
    DbTypeOK
    CacheIsNewest
    CacheCoherent
    NeverOvercounts
    FirstBatchRight
PROPERTY
    ImplementsStore
