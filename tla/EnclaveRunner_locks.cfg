SPECIFICATION Spec
CONSTANTS
    w1 = w1
    w2 = w2
    v1 = v1
    v2 = v2
    Workers = {w1, w2}
    VMs = {v1, v2}
    Calls = {a, b, c}
    Ops = {"attach", "detach", "run", "terminate", "invoke", "logs", "deliver"}
    Deployed <- OneDeployed
    None = None
CHECK_DEADLOCK FALSE
INVARIANT WorkerMapConsistent
INVARIANT MapMatchesVms
PROPERTY EveryCallReturns
PROPERTY EventsDrainOrHang
