SPECIFICATION OwnedSpec
CONSTANTS
    BackendIds = {i1}
    OwnershipKeys = {"app"}
    Consumers = {c1}
    MaxForeign = 0
INVARIANTS
    ForeignIsNeverActedOn
CHECK_DEADLOCK FALSE
