SPECIFICATION Spec
CONSTANTS
    WorkOrders = {w1, w2}
    Schedules <- MixedSchedules
    None = None
    MinInterval = 1
    MaxTime = 4
    MaxCommands = 3
CHECK_DEADLOCK FALSE
INVARIANT HeapMatchesLedger
INVARIANT OccurrencesBounded
PROPERTY PeriodKept
PROPERTY DueEventFires
