\* Two host objects suffice: the owned one and its replacement.
SPECIFICATION PSpec
CONSTANTS
    Hosts = {h1, h2}
    Procs <- MCProcs
    NoHost = NoHost
    NoProc = NoProc
    AutoReconnect = TRUE
    EventCap = 1
PROPERTIES
    RecoversUntilShutdown
\* The process ends: after "fatal" or "exited" nothing moves.
CHECK_DEADLOCK FALSE
