\* Membership revocations, redelivered, against publishing, archiving and the plan cache.
SPECIFICATION Spec
CONSTANTS
    None = None
    d1 = d1
    d2 = d2
    u1 = u1
    Workflows = {w1}
    Versions = {v1, v2}
    Docs = {d1, d2}
    Users = {u1}
    Names = {n1}
    AssigneesOf <- FirstAssigned
    ShapeOf <- OneShape
    Limit = 1
    Clients = {c1, c2}
    Ops = {"create", "init", "publish", "promote", "archive", "revoke", "plan"}
    MaxRecordVersion = 4
    MaxRevocations = 1
SYMMETRY Ids
INVARIANTS
    RevocationReachesVersions
    OldRevocationSparesNew
    StaleEntryIsOwed
CHECK_DEADLOCK FALSE
