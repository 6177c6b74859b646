\* A turn of three steps and four calls, with budgets from too small to ample.
SPECIFICATION ContextSpec
CONSTANTS
    Histories <- MCHistories
    RoomLogs <- MCRoomLogs
    CallBatches <- MCBatches
    ResultSizes = {0, 2, 5}
    Budgets = {8, 11, 16, 30}
    ManifestSize = 2
    MaxView = 4
    TopPreview = 4
    ChunkSize = 2
    PageLimit = 3
    PageBudget = 3
    CountBase = 3
    MaxTurnSteps = 3
    MaxTurnCalls = 4
INVARIANTS
    FeedbackIsSaidOnce
\* A turn ends.
CHECK_DEADLOCK FALSE
