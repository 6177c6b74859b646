\* Four turns, three of them of one room, and one slot: a second request is
\* refused while the first is unfinished and both meet ambient turns.
SPECIFICATION AFairSpec
CONSTANTS
    r1 = r1
    r2 = r2
    r3 = r3
    a1 = a1
    a2 = a2
    k1 = k1
    k2 = k2
    None = None
    Requests <- MCRequests
    Ambients <- MCAmbients
    Keys = {k1, k2}
    KeyOf <- MCKeyOf
    Replying = {r1}
    MaxConcurrent = 1
    QueueCapacity = 0
INVARIANTS
    ClosedIsQuiet
PROPERTIES
    CloseReturns
    AcceptedEnds
    RequiredReplyIsSent
\* The runtime is closed, and a crashed process does nothing.
CHECK_DEADLOCK FALSE
