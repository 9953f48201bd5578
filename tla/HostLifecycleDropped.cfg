SPECIFICATION DropSpec
CONSTANTS
    None = None
    Ids = {m1}
    Managed = {m1}
    Calls = {c1}
    MaxHandles = 1
    MaxLosses = 0
    Faults = {}
INVARIANTS
    StoppedRefusesWork
