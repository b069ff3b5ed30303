SPECIFICATION Spec
CONSTANTS
    c1 = c1
    c2 = c2
    Clients = {c1, c2}
    Slots <- AllSlots
    Calls <- InfoCalls1
    Counts <- SymCounts
    Callbacks <- BothCallbacks
    MaxSyms = 3
    CmdDepth = 2
    RxDepth = 1
    TransDepth = 2
    GenMod = 2
    RepeatMod = 4
    MaxCalls = 3
    MaxInits = 1
    Disciplined = TRUE
INVARIANTS
    SlotInfoExclusive
CHECK_DEADLOCK FALSE
