SPECIFICATION MCSpec
CONSTANTS
    t1 = t1
    t2 = t2
    t3 = t3
    k1 = k1
    k2 = k2
    Tx = {t1, t2, t3}
    Upgrades = {t3}
    Provided = {1}
    None = None
    MayDeploy = TRUE
    MayReject = TRUE
    Overlap = FALSE
    MaxQuits = 1
    Followed = {t1, t2}
    Deploys = {t2}
    Hidden = {}
    Explored = {t1, t2}
    Tasks = {k1}
    MayOverlap = FALSE
    MayRevert = FALSE
    MaxHandlers = 0
INVARIANTS
    UndisturbedQueue
    StoredIsBacked
    ListedAsAnswered
    NotifiedOnce
PROPERTIES
    PlainDrains
    OnlyForward
    TrackedIsNotified
\* Once every transaction is settled, nothing is left to do.
CHECK_DEADLOCK FALSE
