SPECIFICATION Spec
CONSTANTS
    Absent = Absent
    Enclaves = {e1, e2}
    SecretIds = {s1}
    Consumers = {c1}
    MaxRestarts = 1
    AuthTTL = 1
    MaxTime = 1
    MaxCalls = 1
    MaxBoxes = 1
    MaxConsents = 4
SYMMETRY Symmetry
CHECK_DEADLOCK FALSE
INVARIANT Custody
INVARIANT OneMintPerLife
PROPERTY NoRollback
PROPERTY ImplementsLedger
