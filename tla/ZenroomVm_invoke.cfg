SPECIFICATION Spec
CONSTANTS
    Workers = {i1}
    Userdata <- MCUserdata
    Operator <- MCOperator
    Invocations = {v1}
    InputSizes = {1, 2}
    PipeCap = 1
    MaxOutput = 1
    MaxPrinted = 2
    None = None
CHECK_DEADLOCK FALSE
INVARIANT SuccessIsComplete
INVARIANT RequiredIsAcknowledged
INVARIANT NoStrayProcess
PROPERTY ReturnsOnceFed
