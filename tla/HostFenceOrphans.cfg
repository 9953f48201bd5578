SPECIFICATION MCSpec
CONSTANTS
    p1 = p1
    p2 = p2
    p3 = p3
    Pids <- ThreePids
    MaxGroups = 1
    MaxGens = 1
    MaxLosses = 1
    Faults = {"late_sentinel"}
    StdioCallers = {1, 2}
    MaxDaemonErrors = 1
    Ports = {80}
    Openers = {1, 2}
    MaxListeners = 2
    MaxRestarts = 1
    Stoppers = {c1, c2}
    STOP_GRACE_POLLS = 2
    Founder = f
    Users = {u1, u2}
    Closer = z
    ServiceUsers = {u2}
    Pinned = TRUE
    Dev = FALSE
    MaxLaunches = 3
    Stdios = {p}
    Ptys = {t}
    Streams = {l}
    ActiveIo = 1
    MaxCloseErrors = 1
    Entries = {e1, e2}
    Faulty = {e2}
    Tasks = {t1, t2}
    Closers = {s1}
    MaxRuntimes = 3
    MaxRefusals = 2
INVARIANTS
    WorkIsReachable
    ProcessesAreOwned
    SessionsAreAccounted
PROPERTIES
    OrphansEnd
    StopsEndWork
