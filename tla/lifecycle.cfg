\* Two clients race on the drafts, saves, publications and the pointer of one workflow.
SPECIFICATION Spec
CONSTANTS
    None = None
    d1 = d1
    d2 = d2
    u1 = u1
    Workflows = {w1}
    Versions = {v1, v2, v3}
    Docs = {d1, d2}
    Users = {}
    Names = {n1}
    AssigneesOf <- NoAssignees
    ShapeOf <- TwoShapes
    Limit = 1
    Clients = {c1, c2}
    Ops = {"create", "init", "update", "discard", "publish", "archive"}
    MaxRecordVersion = 2
    MaxRevocations = 0
SYMMETRY Ids
INVARIANTS
    PlanIsOfOwnSource
    VersionsNumbered
    IInv
PROPERTIES
    PublishedNeverChanges
    UnforcedKeepsShape
    NoSaveLostInDraft
    LockFreedByHolder
CHECK_DEADLOCK FALSE
