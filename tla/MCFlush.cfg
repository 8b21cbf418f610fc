SPECIFICATION Spec
CONSTANTS
    Second = 2
    Budget = 3
    Backoff <- MCBackoff
    Grace = 1
    MinWait = 2
    FallbackWait = 6
    MaxWait = 8
    MaxRateLimitRetries = 1
    SubagentPeriod = 4
    ChunkMax = 1
    RetryAfters = {0}
    NoRetryAfter = NoRetryAfter
    Kinds <- MCKinds
    MaxLine = 2
    MaxTime = 4
    StaleAfter = 0
    Main = Main
    NoSession = NoSession
INVARIANTS
    Accounted
    NoOvertaking
    CredentialNeedsThreeStrikes
PROPERTIES
    DeliveryKept
CHECK_DEADLOCK FALSE
