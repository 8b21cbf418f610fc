SPECIFICATION FairSpec
CONSTANTS
    Hook = {h1, h2, h3}
INVARIANTS
    OnlyLateLeft
    OneRunSends
PROPERTIES
    TakenUp
CHECK_DEADLOCK FALSE
