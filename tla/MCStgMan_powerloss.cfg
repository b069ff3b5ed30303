SPECIFICATION Spec
CONSTANTS
    owner = owner
    user = user
    cfg = cfg
    log = log
    a = a
    b = b
    none = none
    Tasks = {owner, user}
    Owner = owner
    Files = {cfg, log}
    Default = cfg
    Unsafe = unsafe
    Tmp = tmp
    Values = {a, b}
    NoData = none
    NoFile = nofile
    Size <- SizeOf
    NoBuffer = nobuffer
    Requests <- SimpleCalls
    FirstDisk <- OnDisk
    FormatIfFails = TRUE
    IOErrors = FALSE
    MaxCalls = 4
    MaxCrashes = 1
PROPERTIES
    PowerLossSafe
CHECK_DEADLOCK FALSE
