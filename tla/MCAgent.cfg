\* Three requests, two of one room, meet an ambient turn of that room with room
\* for two admissions and two slots; three turns of memory with one kept raw and
\* five row numbers; three senders and nine messages over eight ticks; four
\* authors and four messages; a turn of three steps and four calls; twenty
\* wordings of every argument.
SPECIFICATION MCSpec
CONSTANTS
    r1 = r1
    r2 = r2
    r3 = r3
    a1 = a1
    k1 = k1
    k2 = k2
    None = None
    Requests = {r1, r2, r3}
    Ambients = {a1}
    Keys = {k1, k2}
    KeyOf <- MCKeyOf
    Replying = {r1}
    MaxConcurrent = 2
    QueueCapacity = 0
    Turns = 3
    RawTurns = 1
    TTL = 2
    MaxId = 5
    MaxClock = 3
    Senders = {"ann", "anna", "bob"}
    Identity <- MCIdentity
    Protected = {"bob"}
    Texts = {"x", "y"}
    BurstCount = 3
    BurstWindow = 2
    RepeatedCount = 2
    RepeatedWindow = 1
    SecondBreachWindow = 2
    PostKickWindow = 4
    ActionCooldown = 2
    MaxTime = 8
    MaxMessages = 9
    Authors = {"ann", "ann_", "mod", "cre"}
    Person <- MCPerson
    Trip <- MCTrip
    NoTrip = "none"
    CreatorTrip = "t0"
    AdminTrips = {}
    RoleOf <- MCRoleOf
    AmbientEvery = 2
    QuietTicks = 2
    SemanticReady = TRUE
    MaxQuietTime = 3
    MaxHeard = 4
    Histories <- MCHistories
    RoomLogs <- MCRoomLogs
    CallBatches <- MCBatches
    ResultSizes = {0, 2, 5}
    Budgets = {8, 11, 16, 30}
    ManifestSize = 2
    MaxView = 4
    TopPreview = 4
    ChunkSize = 2
    PageLimit = 3
    PageBudget = 3
    CountBase = 3
    MaxTurnSteps = 3
    MaxTurnCalls = 4
    Wordings <- MCWordings
    WordLists <- MCLists
    Integrals <- MCIntegrals
    OwnRoom <- MCOwn
    Reviewed <- MCReviewed
    MaxTail = 9
INVARIANTS
    TurnsAreKeyed
    MemoryIsFaithful
    PeopleAreRespected
    TranscriptIsSound
    ArgumentsAreHonest
PROPERTIES
    MonitorIsFair
\* Every part is bounded, and a closed runtime or a crashed process does nothing.
CHECK_DEADLOCK FALSE
