SPECIFICATION BacklogSpec
CONSTANTS
    StaleAfter = 1
    Main = Main
    NoSession = NoSession
    Session = {s1}
    Helper = {a1}
    MaxBacklog = 4
    MaxClock = 3
INVARIANTS
    NewestOfChainKept
    RunsCompose
CHECK_DEADLOCK FALSE
