SPECIFICATION GovSpec
CONSTANTS
    v1 = v1
    v2 = v2
    c1 = c1
    Vendors = {v1, v2}
    KeyLists <- MCKeyLists
    Required = {1, 2, 3}
    ContractForms <- MCContractForms
    ParamForms <- MCParamForms
    BadNum = BadNum
    Empty = Empty
    MaxSigs = 2
    MaxSubmits = 2
SYMMETRY Symm
INVARIANTS BoundByQuorum QuorumNotRefused
CHECK_DEADLOCK FALSE
