SPECIFICATION Spec
CONSTANTS
    MaxGens = 2
    MaxVers = 1
    Nodes <- MCNodes
    MaxMoves = 1
    RequiredChains <- MCChains
    MinBlocks = 2
    Providers <- MCProviders
    None = None
CHECK_DEADLOCK FALSE
INVARIANT AcceptedIsCurrent
INVARIANT AcceptedIsBound
INVARIANT ClaimsAreEarned
INVARIANT RefusedForCause
PROPERTY GenerationEnds
