\* A queue of two messages and one of one error overflow within a few frames.
\* Three commands (one reviewable and targeting, one targeting only) and two
\* calls of each kind of component; a client that tries three times.
SPECIFICATION MCSpec
CONSTANTS
    MessageCap = 2
    ErrorCap = 1
    Retries = 3
    Timeout = 6
    RetryDelay = 1
    MaxShift = 2
    MaxDuration = 3
    RetryAfter = {0, 2, 9}
    Options = {"tools", "max_tokens"}
    OpenRouter = FALSE
    MaxCalls = 2
    Commands = {"say", "mute", "kick"}
    Access <- MCAccess
    Reviewable = {"mute"}
    Targeting = {"mute", "kick"}
    Silent = {"mute", "kick"}
    Nicks = {"n1", "n2"}
    NoTarget = "nobody"
    Callers <- MCCallers
    Receipts <- MCReceipts
    MaxOperations = 2
    Rooms = {"purgatory", "lounge"}
    FirstSource = "purgatory"
    FirstDestination = "lounge"
    Switchers = {"pump", "turn"}
    MaxConfigured = 1
    MaxSwitched = 2
    MaxJoined = 1
INVARIANTS
    ConnectionIsSound
    ClientIsTrue
    GatewayIsTrue
    SwitchesAreKept
PROPERTIES
    StoppedIsQuiet
    BrokenEndsTheEngine
    CompleteEnds
    NothingLandsAfterAnswer
    CallsAreAnswered
    TrustedAreMoved
\* Each part stops once its bounded calls are over.
CHECK_DEADLOCK FALSE
