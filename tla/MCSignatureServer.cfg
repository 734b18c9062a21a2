SPECIFICATION FairSpec
CONSTANTS
    u1 = u1
    u2 = u2
    u3 = u3
    Users = {u1, u2, u3}
    Txs = {t1}
    Snapshots <- MCSnapshots
    Requests = {r1, r2, r3}
    NoTx = NoTx
    Idle = Idle
    FaultyTxs = {t1}
    ForcedTxs = {t1}
    MaxPosts = 2
    MaxRestarts = 1
INVARIANTS
    ListsAreExact
    SentIsNotPending
PROPERTIES
    AutoPostsOnlyUnsent
    SignedQuorumIsSent
\* Once everything is sent and every bound is used up, nothing is left to do.
CHECK_DEADLOCK FALSE
