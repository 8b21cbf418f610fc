SPECIFICATION Spec
CONSTANTS
    Hook = {h1, h2}
    Main = Main
    Helper = {a1, a2, a3}
    Overflow = Overflow
    Nobody = Nobody
    Fires = {"UserPromptSubmit", "Stop", "SessionEnd", "SubagentStop",
             "Read", "Edit", "Test", "Commit", "PostToolUse"}
    MaxChains = 1
    Window = 1
    Dedup = 0
    IdleAge = 2
    Lag = 1
    MaxHooks = 3
SYMMETRY SessionSymmetry
INVARIANTS
    CountersTrue
PROPERTIES
    FinishedWasStarted
    OwnMarkers
    SuppressedWasHeard
CHECK_DEADLOCK FALSE
