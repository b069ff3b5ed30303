SPECIFICATION Spec
CONSTANTS
    c1 = c1
    c2 = c2
    Clients = {c1}
    Slots <- AllSlots
    Calls <- SendCalls1
    Counts <- SymCounts
    Callbacks <- BothCallbacks
    MaxSyms = 3
    CmdDepth = 2
    RxDepth = 1
    TransDepth = 2
    GenMod = 2
    RepeatMod = 4
    MaxCalls = 3
    MaxInits = 1
    Disciplined = TRUE
PROPERTIES
    BlockingSendReturnsDone
CHECK_DEADLOCK FALSE
