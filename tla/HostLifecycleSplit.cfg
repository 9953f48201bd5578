SPECIFICATION Spec
CONSTANTS
    None = None
    Ids = {d1}
    Managed = {}
    Calls = {c1, c2}
    MaxHandles = 2
    MaxLosses = 0
    Faults = {}
INVARIANTS
    OneLiveState
