SPECIFICATION FairWatchSpec
CONSTANTS
    Project = {p1}
    New = New
    Session = {h1}
    MaxVersion = 2
    MaxCmd = 1
INVARIANTS
    WholeList
    SeenOncePerWindow
PROPERTIES
    RelayReached
