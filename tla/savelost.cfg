\* A save with the token of a discarded or published draft reaches the next one.
SPECIFICATION Spec
CONSTANTS
    None = None
    d1 = d1
    d2 = d2
    u1 = u1
    Workflows = {w1}
    Versions = {v1, v2}
    Docs = {d1, d2}
    Users = {}
    Names = {n1}
    AssigneesOf <- NoAssignees
    ShapeOf <- OneShape
    Limit = 1
    Clients = {c1, c2}
    Ops = {"create", "init", "update", "discard", "publish"}
    MaxRecordVersion = 3
    MaxRevocations = 0
PROPERTIES
    NoSaveLost
CHECK_DEADLOCK FALSE
