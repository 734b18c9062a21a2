SPECIFICATION SystemSpec
CONSTANTS
    Keys <- MCKeys
    MaxWeight = 2
    MaxKeys = 3
    Deployments <- MCDeployments
    Txs <- MCTxs
    Signatures <- MCSignatures
    DirectCalls <- MCDirectCalls
    ServedTxs <- MCServedTxs
    Requests = {r1}
    NoTx = NoTx
    Idle = Idle
    NoReader = NoReader
    ForcedTxs = {}
    MaxPosts = 1
    MaxNonce = 3
    MaxRestarts = 1
INVARIANTS
    SnapshotWasRead
    ReadyIsQuorum
\* Everything may have been signed, sent and run.
CHECK_DEADLOCK FALSE
