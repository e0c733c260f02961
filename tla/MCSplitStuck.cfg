SPECIFICATION SplitFairSpec
CONSTANTS
    NumItems = 2
    Handlers = {g1, g2}
    NoHandler = NoHandler
    OthersQuorum = {}
    MaxCrashes = 0
PROPERTY EveryItemSigned
