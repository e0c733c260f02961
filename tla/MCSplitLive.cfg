SPECIFICATION SplitFairSpec
CONSTANTS
    NumItems = 2
    Handlers = {g1, g2, g3}
    NoHandler = NoHandler
    OthersQuorum = {1}
    MaxCrashes = 2
INVARIANTS SplitTypeOK ReplyTruthful
PROPERTY HeadSigned
