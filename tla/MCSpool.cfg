SPECIFICATION Spec
CONSTANTS
    h1 = h1
    h2 = h2
    Hook = {h1, h2}
    Flusher = Flusher
    NoProc = NoProc
    Cap = 3
    MaxLine = 6
    Malformed <- MCMalformed
SYMMETRY HookSymmetry
INVARIANTS
    DepthBounded
    ArrivalOrder
    SettledIsFinal
    NoSilentLoss
    LossBounded
PROPERTIES
    QueueSpec
CHECK_DEADLOCK FALSE
