\* Three nicks, two of them one up to case, and four events of the room; five
\* joins within five ticks; three people, two ban commands and an arrival; three
\* identity commands on two goroutines with one fault; two starts of the program
\* on one file with one fault; two mails, two recipients and two overlapping
\* deliveries whose attempts never run out.
SPECIFICATION MCSpec
SYMMETRY Symmetry
CONSTANTS
    Nicks = {"ann", "Ann", "bot"}
    Fold <- MCFold
    BotNick = "bot"
    Tripcodes = {"none", "t1"}
    NoTripcode = "none"
    Trusted = {"t1"}
    MaxEvents = 4
    Backlog = 0
    Mentioned = {"ann"}
    MaxAgentCommands = 1
    Joiners = {"ann", "Ann", "bob", "eve1", "mod"}
    Nick <- MCNick
    HashOf <- MCHash
    ClusterOf <- MCCluster
    Blank = "none"
    Guarded = {"mod"}
    JoinBurstCount = 4
    JoinBurstWindow = 1
    SameHashCount = 2
    SameHashWindow = 2
    NameCount = 2
    NameWindow = 1
    RaidWindow = 3
    JoinCooldown = 2
    MaxJoinTime = 4
    MaxJoins = 5
    People <- MCPeople
    Tokens = {"ann", "Ann", "bob", "@ann", "@", "n", "-c", "-m", "-all", "t1"}
    Bare <- MCBare
    CaseOf <- MCCase
    Containing <- MCContaining
    Lines <- MCLines
    MaxCommands = 2
    MaxArrivals = 1
    Workers = {"pump", "turn"}
    Words = {"ann", "Ann"}
    Lowered <- MCLowered
    TripCodes = {"t0", "t1"}
    AdminTrips = {"t0"}
    Grantable = {1, 0}
    MaxAsked = 3
    MaxFaults = 1
    Openers = {"first", "second"}
    MaxTrip = 2
    MaxDiskFaults = 1
    MaxMail = 2
    MaxPairs = 2
    t1 = t1
    t2 = t2
    Trips = {t1, t2}
    d1 = d1
    d2 = d2
    Deliveries = {d1, d2}
    NoTrip = NoTrip
    NoAttempt = NoAttempt
    Attempts = {1, 2, 3}
INVARIANTS
    RoomIsKnown
    BansAreWhole
    UpgradeIsSafe
PROPERTIES
    RaidsAreMet
    IdentitiesAreKept
    MailIsTrue
\* Every part is bounded; mail stops when it is delivered or needs an operator.
CHECK_DEADLOCK FALSE
