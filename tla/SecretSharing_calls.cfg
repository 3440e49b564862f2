SPECIFICATION FairHistorySpec
CONSTANTS
    n1 = n1
    n2 = n2
    n3 = n3
    w1 = w1
    w2 = w2
    c1 = c1
    c2 = c2
    Absent = Absent
    Enclaves = {n1, n2}
    SecretIds = {1, 2}
    Consumers = {c1}
    Callers = {w1, w2}
    CallerNode <- OverlapNode
    CallerNeeds <- OverlapNeeds
    Holders = {n2}
    MaxRestarts = 0
    AuthTTL = 1
    MaxTime = 1
CHECK_DEADLOCK FALSE
INVARIANT OneOwner
INVARIANT OkMeansAvailable
PROPERTY EveryCallAnswered
PROPERTY NodesImplementLedger
