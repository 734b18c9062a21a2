SPECIFICATION MCSpec
CONSTANTS
    n1 = n1
    n2 = n2
    n3 = n3
    t1 = t1
    t2 = t2
    s1 = s1
    net1 = net1
    net2 = net2
    token = token
    data1 = data1
    None = None
    Calls = {n1, n2, n3, t1, t2, s1}
    Actions = {net1, net2, token, data1}
    Kind <- MCKind
    Asks <- MCAsks
    MaxKills = 1
SYMMETRY MCSymmetry
INVARIANTS
    ShownIsAwaited
    WaitingCanBeAnswered
    DecidedIsTold
    ResultIsOwn
