\* An offboarding that arrives before the return it follows.
SPECIFICATION Spec
CONSTANTS
    Purgers = {p1}
    Rows = {r1}
    Paths = {s1}
    Batch = 1
    CredentialRetention = 1
    ArtifactRetention = 2
    Interval = 1
    MaxBackoff = 2
    Horizon = 5
    MaxEvents = 3
    MaxErrors = 0
INVARIANTS
    OffboardingIsRecorded
CHECK_DEADLOCK FALSE
