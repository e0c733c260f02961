SPECIFICATION StartupFairSpec
CONSTANTS
    Requests = {r1, r2}
    MaxRequests = 2
    InitForms <- MCInitForms
    StatusForms <- MCStatusForms
    FuncForms <- MCFuncForms
    KeyForms <- MCKeyForms
    GoodRedeems = {"rdm1", "rdm2"}
    Absent = Absent
    Blank = Blank
    BadNum = BadNum
    None = None
    Flags <- MCFlags
    Confs <- MCConfs
    InitWallets <- MCWallets
    Typed = {"p1"}
    SamePath = TRUE
    DiskFails = TRUE
    MaxStarts = 2
INVARIANTS StartupTypeOK SentByOwnWallet NetMatchesConf RunsAsSaved
PROPERTIES StatusStartsTool
CHECK_DEADLOCK FALSE
