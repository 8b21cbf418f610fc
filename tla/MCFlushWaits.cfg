SPECIFICATION FairSpec
CONSTANTS
    Second = 2
    Budget = 3
    Backoff <- MCShortBackoff
    Grace = 20
    MinWait = 2
    FallbackWait = 3
    MaxWait = 5
    MaxRateLimitRetries = 1
    SubagentPeriod = 4
    ChunkMax = 2
    RetryAfters = {0, 8}
    NoRetryAfter = NoRetryAfter
    Kinds <- MarkedOnly
    MaxLine = 2
    MaxTime = 5
    StaleAfter = 3
    Main = Main
    NoSession = NoSession
PROPERTIES
    QuietKept
    NoMarkWhilePaused
    RunEnds
CHECK_DEADLOCK FALSE
