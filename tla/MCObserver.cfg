SPECIFICATION ObsSpec
CONSTANTS
    Txs = {t1, t2}
    NoTx = NoTx
    OthersQuorum = {t1, t2}
    MaxHeight = 4
    MaxEvents = 1
    ChanCap = 1
    StartHeight = 0
    WaitingCircle = 2
    UintMod = 16
    MaxLag = 2
    DiskFails = TRUE
SYMMETRY Symm
INVARIANTS ObsTypeOK CheckpointSound UnlocksCheckpointed SavedEveryCircle
