\* Two callers (a command dispatcher and the recovery loop, say) and three
\* operations: a running one, a pending one and the shutdown that displaces it.
\* Three host objects: the one being retired, its replacement and one to leak.
SPECIFICATION MCSpec
CONSTANTS
    Callers = {c1, c2}
    MaxOps = 3
    Configured = {"restart", "shutdown"}
    Hosts = {h1, h2, h3}
    Procs <- MCProcs
    NoHost = NoHost
    NoProc = NoProc
    AutoReconnect = TRUE
    EventCap = 1
INVARIANTS
    OperationsAreSafe
    TeardownIsAlone
PROPERTIES
    HostsAreAccounted
    AcceptedIsReported
    ImplementsContract
    HostIsReplaced
    SignalEndsProcess
\* After Close, a cancelled context or the end of the process nothing moves.
CHECK_DEADLOCK FALSE
