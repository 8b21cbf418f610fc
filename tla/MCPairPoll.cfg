SPECIFICATION FairPollSpec
CONSTANTS
    Lifetime = 6
    Interval = 1
    Timeout = 1
    Grace = 3
    Lag = 2
    RetryAfter <- MCRetryAfter
    Skew <- MCSkew
    MaxTime = 10
INVARIANTS
    HonestEnd
    LateRedemption
PROPERTIES
    PollEnds
CHECK_DEADLOCK FALSE
