SPECIFICATION FairSpec
CONSTANTS
    Txs = {t1}
    NoTx = NoTx
    OthersQuorum = {}
    Unsignable = {}
    Refusable = {}
    MaxHeight = 1
    MaxEvents = 1
    ChanCap = 1
    StartHeight = 0
    WaitingCircle = 2
    UintMod = 16
    MaxLag = 0
    DiskFails = FALSE
    DbFails = FALSE
    MaxCrashes = 1
PROPERTIES EveryUnlockSigned
