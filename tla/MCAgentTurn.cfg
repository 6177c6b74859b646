\* Batches of two calls, three rounds: a call can be repeated in a batch, in a
\* later round, and after a failure, and each limit is reached.
SPECIFICATION TFairSpec
CONSTANTS
    post = post
    mute = mute
    schema = schema
    query = query
    plain = plain
    bad = bad
    Actions = {post, mute}
    Delivers = {post}
    SafeReads = {schema, query}
    OtherReads = {}
    Requires <- MCRequires
    Calls <- MCCalls
    Malformed = bad
    MaxBatch = 2
    MaxSteps = 3
    MaxToolCalls = 3
    MaxPerTool = 2
    MaxFailures = 2
INVARIANTS
    EffectsAreSafe
    SuppressionIsTrue
PROPERTIES
    TurnEnds
