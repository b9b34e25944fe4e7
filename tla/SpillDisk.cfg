SPECIFICATION DiskSpec
CONSTANTS
    Keys <- MCKeys
    Names <- MCNames
    BlocksOf <- MCBlocksOf
    Tailed = {}
    Older <- MCOlder
    MaxJobs = 2
    WriteSlots = {w1}
    SmallSlots = 2
    CapBytes = 4
    FileBytes = 1
    Turns = 1
    EngineErrors = FALSE
    DiskErrors = TRUE
    Damage = TRUE
    NoJob = 0
    NoSlot = noSlot
    Unreadable = TRUE
    MaxCrashes = 2
INVARIANTS DiskTypeOK SealedIsDurable IndexIsDisk
PROPERTIES OpenLosesNothing KeepsItsPromise
CHECK_DEADLOCK FALSE
