SPECIFICATION LiveReadSpec
CONSTANTS
    Keys <- MCKeys
    Total <- MCTwo
    MaxBlocks = 2
    MaxReads = 2
    MaxIds = 2
    ReadSlots = {r1}
    RestoreSlots = 2
    Readers = 1
    ReadErrors = TRUE
    EngineErrors = TRUE
    Nobody = nobody
INVARIANTS ReadTypeOK ReadsAccounted
PROPERTIES CommitsAreWhole RestoresEnd
CHECK_DEADLOCK FALSE
