SPECIFICATION MCSpec
CONSTANTS
    None = None
    Ids = {m1}
    Managed = {m1}
    Calls = {l1}
    MaxHandles = 2
    MaxLosses = 1
    Faults = {"fence", "disk", "sync"}
    Callers = {c1, c2}
    Sidecars = {"s1"}
    Watched = {"s1"}
    MaxFaults = 1
    MaxDrops = 1
    ApiClients = {c1, c2}
    MaxApiErrors = 1
    NestedHandles = {h1, h2}
    Creator = h1
    Services <- TwoServices
    Checked = {"s2"}
    MaxBoots = 2
    BackendIds = {i1}
    OwnershipKeys = {"app", "run"}
    Consumers = {c1, c2}
    MaxForeign = 2
SYMMETRY TaskSymmetry
INVARIANTS
    OneLiveState
    RecordIsLiveState
    ServicesFollowSandbox
    AnswersFit
PROPERTIES
    SweepsAreComplete
