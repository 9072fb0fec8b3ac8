SPECIFICATION Spec
CONSTANTS
    Objects <- MCObjects
    Heaps <- MCHeaps
    Roots = {"top"}
    MaxDepth = 2
    MaxNodes = 5
    MaxText = 4
    MaxLength = 2
    MaxBits = 2
    MaxItems = 2
CHECK_DEADLOCK FALSE
INVARIANTS
    WalkStaysWithinLimits
    PreflightDecidesContract
    ValidatorDecidesContract
    SnapshotsValidate
PROPERTY
    EveryWalkEnds
