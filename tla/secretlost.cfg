\* A return is recorded between the check of the row and the delete of a secret.
SPECIFICATION Spec
CONSTANTS
    Purgers = {p1}
    Rows = {r1}
    Paths = {s1}
    Batch = 1
    CredentialRetention = 1
    ArtifactRetention = 2
    Interval = 1
    MaxBackoff = 2
    Horizon = 4
    MaxEvents = 2
    MaxErrors = 0
PROPERTIES
    ReturnStopsDeletes
CHECK_DEADLOCK FALSE
