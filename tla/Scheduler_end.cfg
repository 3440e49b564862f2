SPECIFICATION Spec
CONSTANTS
    WorkOrders = {w1, w2}
    Schedules <- LimitedSchedules
    None = None
    MinInterval = 1
    MaxTime = 4
    MaxCommands = 1
CHECK_DEADLOCK FALSE
PROPERTY EndHonoured
