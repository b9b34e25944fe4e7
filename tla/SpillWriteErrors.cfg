SPECIFICATION LiveSpec
CONSTANTS
    Keys <- MCKeys
    Names <- MCNames
    BlocksOf <- MCBlocksOf
    Tailed <- MCTailed
    Older <- MCOlder
    MaxJobs = 2
    WriteSlots = {w1}
    SmallSlots = 2
    CapBytes = 4
    FileBytes = 1
    Turns = 1
    EngineErrors = TRUE
    DiskErrors = TRUE
    Damage = TRUE
    NoJob = 0
    NoSlot = noSlot
INVARIANTS TypeOK IndexExact WritesAccounted
PROPERTIES ReadPointsStay WritesEnd
CHECK_DEADLOCK FALSE
