SPECIFICATION ToolSpec
CONSTANTS
    Txs = {t1, t2}
    NoTx = NoTx
    OthersQuorum = {t1}
    Unsignable = {}
    Refusable = {t2}
    MaxHeight = 3
    MaxEvents = 2
    ChanCap = 1
    StartHeight = 0
    WaitingCircle = 2
    UintMod = 16
    MaxLag = 0
    DiskFails = FALSE
    DbFails = TRUE
    MaxCrashes = 1
INVARIANTS TypeOK NothingForgotten RecordsTruthful OpenOnlyIfMissed
