SPECIFICATION Spec
CONSTANTS
    o1 = o1
    o2 = o2
    s1 = s1
    s2 = s2
    i1 = i1
    vm1 = vm1
    vm2 = vm2
    Orders = {o1, o2}
    EventsOf <- MixedEvents
    PointerOf <- Pointers
    IdentitiesOf <- OneIdentity
    Web3Of <- OnChainId
    Submissions = {s1, s2}
    OrderOf <- OneEach
    Requests = {r}
    Served <- MCServed
    Manifests <- MCManifests
    Logs <- MCLogs
    Attachments <- OneVm
    DefaultVm = vm1
    MaxAttempts = 2
    Capacity = 2
    BatchSize = 2
    StreamSize = 1
    MaxEvents = 2
    MaxDrops = 1
    None = None
CHECK_DEADLOCK FALSE
INVARIANT LaunchFirst
INVARIANT EventsAccounted
INVARIANT ActiveFirst
INVARIANT AuthorizedStart
INVARIANT PolicyWorkersEnd
INVARIANT LogsAccounted
PROPERTY EverySubmissionReturns
PROPERTY QueuedIsHanded
PROPERTY ListenersStop
