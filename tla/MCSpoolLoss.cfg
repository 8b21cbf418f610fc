SPECIFICATION Spec
CONSTANTS
    h1 = h1
    Hook = {h1}
    Flusher = Flusher
    NoProc = NoProc
    Cap = 2
    MaxLine = 5
    Malformed <- NoneMalformed
INVARIANTS
    NothingSilentlyLost
CHECK_DEADLOCK FALSE
