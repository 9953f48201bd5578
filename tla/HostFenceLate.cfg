SPECIFICATION Spec
CONSTANTS
    Pids = {p1, p2, p3}
    MaxGroups = 2
    MaxGens = 2
    MaxLosses = 1
    Faults = {"late_sentinel"}
INVARIANTS
    StopEndsAllWork
