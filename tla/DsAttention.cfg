SPECIFICATION Spec
CONSTANTS
    Window = 3
    Block = 4
    TopK = 2
    MaxModelLen = 12
    MaxBatched = 8
    MaxTokens = 8
    PrefillChunk = 1
    Threshold = 3
    Drafts = 2
    BufferFactor = 2
    WorkspaceFactor = 1
    MaxLogits = 12
    NumHeads = 3
    HeadBlock = 2
    Tile = 2
    GemmThreshold = 4
    Steps = 2
    Score <- MCScore
    SinkScore <- MCSink
    IndexScore <- MCIndexScore
    RatioOf <- MCRatio
    Setups <- MCSetups
    Starts <- MCStarts
    Schedules <- MCSchedules
    Reqs <- MCReqs
    SwaTable <- MCSwaTable
    CompTable <- MCCompTable
INVARIANTS TypeOK OutputsExact CachesExact PlansExact
