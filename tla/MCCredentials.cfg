SPECIFICATION Spec
CONSTANT MaxId = 3
INVARIANTS
    ShownIsStored
    PlainFailureLeavesNothing
    UnpairClears
