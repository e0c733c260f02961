SPECIFICATION FairSpec
CONSTANTS
    Txs = {t1, t2}
    NoTx = NoTx
    OthersQuorum = {t1}
    Unsignable = {t2}
    Refusable = {}
    MaxHeight = 3
    MaxEvents = 1
    ChanCap = 1
    StartHeight = 1
    WaitingCircle = 2
    UintMod = 16
    MaxLag = 0
    DiskFails = TRUE
    DbFails = FALSE
    MaxCrashes = 1
INVARIANT StartHeightMakesUp
PROPERTIES EveryUnlockSigned RecordEventuallyDone ImplementsService
