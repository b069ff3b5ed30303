SPECIFICATION Spec
CONSTANTS
    ble = ble
    wifi = wifi
    Clients = {ble, wifi}
    Commands <- SomeCommands
    Events <- LockAndUnlock
    QueueDepth = 2
    MaxSubs = 2
    OpIdMod = 3
    MaxCalls = 4
    MaxEvents = 3
    MaxInits = 2
PROPERTIES
    GatedByCurrentState
CHECK_DEADLOCK FALSE
