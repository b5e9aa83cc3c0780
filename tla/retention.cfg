\* Two replicas sweep a tenant that leaves, returns and leaves again; events in any order.
SPECIFICATION Spec
CONSTANTS
    Purgers = {p1, p2}
    Rows = {r1, r2}
    Paths = {s1}
    Batch = 1
    CredentialRetention = 1
    ArtifactRetention = 2
    Interval = 1
    MaxBackoff = 2
    Horizon = 5
    MaxEvents = 3
    MaxErrors = 1
SYMMETRY Replicas
INVARIANTS
    PurgeInv
    ReturnOutlivesOffboarding
    PurgedIsEmpty
PROPERTIES
    RowsGoOnlyWhenDue
CHECK_DEADLOCK FALSE
