SPECIFICATION LiveSpec
CONSTANTS
    World = 3
    Points = {p}
    Blocks = 1
    MaxTxns = 1
    MaxRestores = 1
    WireRestores = 1
    MaxQueue = 1
    Failures = {"crc", "reserve"}
    Faults = TRUE
INVARIANTS TypeOK PairInStep
PROPERTIES InstalledOnAllOrNone EveryRestoreEnds
CHECK_DEADLOCK FALSE
