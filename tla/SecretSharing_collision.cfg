SPECIFICATION HistorySpec
CONSTANTS
    n1 = n1
    n2 = n2
    n3 = n3
    w1 = w1
    w2 = w2
    c1 = c1
    c2 = c2
    Absent = Absent
    Enclaves = {n1, n2, n3}
    SecretIds = {1}
    Consumers = {c1}
    Callers = {w1, w2}
    CallerNode <- PairNode
    CallerNeeds <- PairNeeds
    Holders = {n3}
    MaxRestarts = 0
    AuthTTL = 1
    MaxTime = 0
CHECK_DEADLOCK FALSE
INVARIANT AcceptedBundlesAreOurs
