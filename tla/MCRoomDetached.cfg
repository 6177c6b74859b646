\* A command sent by a user of the room, which does not await its workflow.
SPECIFICATION Spec
CONSTANTS
    w1 = w1
    w2 = w2
    w3 = w3
    i1 = i1
    i2 = i2
    NoWorkflow = NoWorkflow
    Workflows = {w1}
    Unreachable = {}
    Ids = {i1, i2}
    Cast <- MCChatCast
    MaxUsers = 1
    Retention = 1
INVARIANTS
    AdmittedWorkIsDone
\* Finished workflows are not submitted again.
CHECK_DEADLOCK FALSE
