SPECIFICATION FairSpec
CONSTANTS
    c1 = c1
    c2 = c2
    Clients = {c1, c2}
    Slots <- AllSlots
    Calls <- LiveCalls
    Counts <- SymCounts
    Callbacks <- BothCallbacks
    MaxSyms = 3
    CmdDepth = 1
    RxDepth = 1
    TransDepth = 2
    GenMod = 2
    RepeatMod = 4
    MaxCalls = 3
    MaxInits = 1
    Disciplined = TRUE
PROPERTIES
    CommandsServed
    CancelEnds
    BlockingSendReturns
    DeinitReturns
CHECK_DEADLOCK FALSE
