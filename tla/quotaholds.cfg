\* A draft begun of an archived workflow is not counted.
SPECIFICATION Spec
CONSTANTS
    None = None
    d1 = d1
    d2 = d2
    u1 = u1
    Workflows = {w1, w2}
    Versions = {v1, v2, v3}
    Docs = {d1}
    Users = {}
    Names = {n1}
    AssigneesOf <- NoAssignees
    ShapeOf <- OneShape
    Limit = 1
    Clients = {c1, c2}
    Ops = {"create", "clone", "init", "discard", "publish", "promote", "archive"}
    MaxRecordVersion = 1
    MaxRevocations = 0
INVARIANTS
    QuotaHolds
CHECK_DEADLOCK FALSE
