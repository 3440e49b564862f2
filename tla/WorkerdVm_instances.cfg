SPECIFICATION Spec
CONSTANTS
    Ids = {w1}
    MaxStarts = 2
    MaxCalls = 2
    ChannelCap = 1
    Tails = {0, 1}
    LineLens = {1}
    MaxEvents = 6
    MaxLines = 2
    MaxBytes = 2
    BroadcastCap = 1
    None = None
CHECK_DEADLOCK FALSE
INVARIANT LogBounds
INVARIANT FollowedLines
INVARIANT NoOrphan
INVARIANT StopMeansGone
PROPERTY DownForGood
PROPERTY EveryStartReturns
