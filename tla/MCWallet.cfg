SPECIFICATION MCSpec
CONSTANTS
    Parts = {"session", "accounts", "recovery"}
    p1 = p1
    p2 = p2
    s1 = s1
    f1 = f1
    c1 = c1
    c2 = c2
    main = main
    local = local
    mine = mine
    goerli = goerli
    other = other
    was = was
    is = is
    Passwords = {p1, p2}
    Secrets = {s1}
    Phrases = {f1}
    Calls = {c1, c2}
    SESSION_DURATION = 4
    SecondsPerMinute = 2
    None = None
    MayFail = TRUE
    MayStop = TRUE
    MayQuit = TRUE
    Networks = {main, local, mine}
    Readonly = {main}
    DefaultCustom = {local}
    Chain <- MCChain
    Default = main
    Classes = {was, is}
    KnownClasses = {was}
    ClassOf <- MCClassOf
    Earlier <- MCEarlier
    Offset = 2
    MaxAccounts = 3
    MaxDeployed = 0
    MayOverlap = FALSE
    MayRestore = FALSE
    MayAddByChain = TRUE
INVARIANTS
    SessionMatchesBackup
    SessionIsTimed
    ListIsConsistent
PROPERTIES
    NewAccountIsNew
    RecoveryFindsAll
