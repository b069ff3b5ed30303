SPECIFICATION FairSpec
CONSTANTS
    ble = ble
    wifi = wifi
    Clients = {ble, wifi}
    Commands <- SomeCommands
    Events <- SomeEvents
    QueueDepth = 1
    MaxSubs = 2
    OpIdMod = 3
    MaxCalls = 3
    MaxEvents = 3
    MaxInits = 2
INVARIANTS
    TypeOK
    OpIdsDistinct
    NothingLost
    LagBounded
PROPERTIES
    FollowsBus
    CatchesUp
CHECK_DEADLOCK FALSE
