SPECIFICATION ObsSpec
CONSTANTS
    Txs = {t1, t2}
    NoTx = NoTx
    OthersQuorum = {t1, t2}
    MaxHeight = 3
    MaxEvents = 1
    ChanCap = 1
    StartHeight = 2
    WaitingCircle = 2
    UintMod = 16
    MaxLag = 0
    DiskFails = FALSE
SYMMETRY Symm
INVARIANTS NeverBelowStart
