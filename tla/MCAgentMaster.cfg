\* A reply is due while a restart has withdrawn the master.
SPECIFICATION ASpec
CONSTANTS
    r1 = r1
    r2 = r2
    r3 = r3
    a1 = a1
    a2 = a2
    k1 = k1
    k2 = k2
    None = None
    Requests <- MCRequests
    Ambients <- MCAmbients
    Keys = {k1, k2}
    KeyOf <- MCKeyOf
    Replying = {r1}
    MaxConcurrent = 1
    QueueCapacity = 0
INVARIANTS
    MissingMasterIsAnError
\* The runtime is closed, and a crashed process does nothing.
CHECK_DEADLOCK FALSE
