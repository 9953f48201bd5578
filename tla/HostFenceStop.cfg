SPECIFICATION MCSpec
CONSTANTS
    p1 = p1
    p2 = p2
    p3 = p3
    Pids <- ThreePids
    MaxGroups = 2
    MaxGens = 2
    MaxLosses = 1
    Faults = {"hostile_work"}
    Runners = {c1, c2}
    MaxReports = 1
    MaxNotices = 1
    MaxText = 3
    MaxRecords = 3
    MaxInput = 1
    MaxToolErrors = 1
    Block = 2
    MaxFile = 2
    MaxEntries = 1
    MaxLength = 2
    MaxFileErrors = 1
    MaxAttempts = 3
    Horizon = 2
    DurationMax = 2
    Callers = {c1, c2}
    MaxCalls = 3
    MaxCuts = 2
    Expecters = {c1, c2}
    Connections = {k1, k2}
    ActiveIo = 2
    PendingOpens = 1
    Handshakes = 1
    SetupSamples = 1
INVARIANTS
    StopEndsAllWork
    EventsAreOrdered
    
    TransfersAreWhole
    GitIsSafe
    ChannelsAreAccounted
