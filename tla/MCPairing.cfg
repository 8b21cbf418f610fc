SPECIFICATION Spec
CONSTANTS
    f1 = f1
    f2 = f2
    Flusher <- Flusher2
    MaxId = 2
    MaxUnpair = 1
    Cap = 1
    Strikes = 2
    SkewLimit = 1
    NoDate = NoDate
    HeadAnswers <- MCHeadAnswers
SYMMETRY FlusherSymmetry
INVARIANTS
    NeverKillsLive
    UsableAndReported
    OneIdentity
