SPECIFICATION Spec
CONSTANTS
    Cmd = {c1, c2}
    Events <- MCEvents
    OtherEvents = {"PreCompact"}
    Matchers = {"any", "Bash"}
    Binaries <- MCBinaries
    ForeignCommand <- MCForeign
    Added <- Wrapper
    InitialFiles <- MCInitialFiles
    MaxEdits = 2
    Optional = {"SubagentStop"}
    MinVersion <- MCMinVersion
    BaselineVersion <- MCBaseline
    ClaudeVersions <- MCClaudeVersions
SYMMETRY SettingsSymmetry
INVARIANTS
    ForeignKept
    PairUndone
    DoctorTruth
    RemedyWorks
PROPERTIES
    RegistersAll
    UnpairRemovesAll
CHECK_DEADLOCK FALSE
