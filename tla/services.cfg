\* Keys, plan table, violation exporter, pod and purge of two replicas, one at a time.
SPECIFICATION Spec
CONSTANTS
  Requests = {q1, q2, q3}
  OtherBody = {q3}
  Body <- BodyOf
  FaultKinds = {"cache", "disconnect", "stop", "overrun", "lapse"}
  MaxFaults = 2
  MaxFailures = 1
  Callers = {c1, c2}
  Reads = {f, g}
  MaxPlans = 2
  Ttl = 3
  RetryBackoff = 1
  ReadTimeout = 1
  MaxReadErrors = 1
  Replicas = {x1, x2}
  MaxViolations = 2
  MaxPanics = 2
  Arrivals = {q1, q2, q3}
  DrainDelay = 2
  Grace = 2
  PoolDrain = 1
  LbLag = 1
  Purgers = {p1, p2}
  Rows = {r1, r2}
  Paths = {s1}
  Batch = 1
  CredentialRetention = 1
  ArtifactRetention = 2
  Interval = 1
  MaxBackoff = 2
  Horizon = 4
  MaxEvents = 2
  MaxErrors = 1
INVARIANTS
  KnownPlanIsServed
  NoneRefused
PROPERTIES
  KeepsPromise
  CallersAreAnswered
  TableCatchesUp
  EventuallyCounted
  PodStops
  DepartedIsPurged
CHECK_DEADLOCK FALSE
