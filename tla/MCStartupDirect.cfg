SPECIFICATION StartupSpec
CONSTANTS
    Requests = {r1}
    MaxRequests = 1
    InitForms <- MCInitForms
    StatusForms <- MCBlankForm
    FuncForms <- MCFuncForms
    KeyForms <- MCKeyForms
    GoodRedeems = {"rdm1", "rdm2"}
    Absent = Absent
    Blank = Blank
    BadNum = BadNum
    None = None
    Flags <- MCWebOnly
    Confs <- MCGoodConf
    InitWallets <- MCWallets
    Typed = {"p1"}
    SamePath = FALSE
    DiskFails = FALSE
    MaxStarts = 1
INVARIANTS StartsAsConfigured
CHECK_DEADLOCK FALSE
