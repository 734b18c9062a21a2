SPECIFICATION MCSpec
CONSTANTS
    h1 = h1
    h2 = h2
    r1 = r1
    r2 = r2
    Hashes = {h1, h2}
    Batches <- MCBatches
    Requests = {r1, r2}
    Idle = Idle
    Life = 1
    MaxTime = 2
    MaxAsks = 2
    MaxDecisions = 2
    MaxKills = 1
    Keys = {k1, k2, k3}
    Versions = {1, 2}
    MaxLength = 3
INVARIANTS
    OnePerAction
    AnsweredAsAsked
    MergeIsStable
PROPERTIES
    SerialImplements
\* Once the bounds are used up, nothing is left to do.
CHECK_DEADLOCK FALSE
