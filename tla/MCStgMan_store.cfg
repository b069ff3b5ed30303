SPECIFICATION FairSpec
CONSTANTS
    owner = owner
    user = user
    cfg = cfg
    log = log
    a = a
    b = b
    none = none
    Tasks = {owner, user}
    Owner = owner
    Files = {cfg, log}
    Default = cfg
    Unsafe = unsafe
    Tmp = tmp
    Values = {a, b}
    NoData = none
    NoFile = nofile
    Size <- SizeOf
    NoBuffer = nobuffer
    Requests <- AllCalls
    FirstDisk <- OnDisk
    FormatIfFails = TRUE
    IOErrors = TRUE
    MaxCalls = 3
    MaxCrashes = 1
INVARIANTS
    TypeOK
    Durable
    MountedWhileInside
    NoLostMutex
PROPERTIES
    ImplementsStore
    NewBeforeOld
    CallsAdvance
    CallsReturn
CHECK_DEADLOCK FALSE
