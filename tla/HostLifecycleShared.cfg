SPECIFICATION Spec
CONSTANTS
    None = None
    Ids = {d1}
    Managed = {}
    Calls = {c1, c2}
    MaxHandles = 2
    MaxLosses = 1
    Faults = {"disk", "sync", "fence"}
INVARIANTS
    StoppedRefusesWork
    OwnWorkEndsFirst
PROPERTIES
    DeletedIsFinal
