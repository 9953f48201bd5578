SPECIFICATION MCSpec
CONSTANTS
    NormalCalls = {n1}
    ReservedCalls = {r1, r2}
    ShutdownCall = sd
    ProviderRequests = 1
    ReservedRequests = 1
    Lane = 1
    MaxChunks = 3
    BufferLimit = 2
    EventOps = {o1, o2}
    MaxEvents = 2
    CachedHandles = 1
    EventLane = 2
    Boxes = {"a", "b"}
    BoxClients = {c1, c2}
    MaxCached = 1
INVARIANTS
    FailedSinkKills
    AnswersMeanWhatTheySay
    EventsAreTold
PROPERTIES
    ImplementsContract
    StopsAreAnswered
CHECK_DEADLOCK FALSE
