\* A workflow that only replies, one that only acts or one that does both, beside two short ones; one terminal state is kept.
SPECIFICATION Spec
CONSTANTS
    w1 = w1
    w2 = w2
    w3 = w3
    i1 = i1
    i2 = i2
    NoWorkflow = NoWorkflow
    Workflows = {w1, w2, w3}
    Unreachable = {w2, w3}
    Ids = {i1, i2}
    Cast <- MCCast
    MaxUsers = 1
    Retention = 1
INVARIANTS
    SnapshotsAreTrue
PROPERTIES
    WorkflowsEnd
\* Finished workflows are not submitted again.
CHECK_DEADLOCK FALSE
