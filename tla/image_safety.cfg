\* Two replicas, a good job and an undecodable one, every kind of disturbance.
SPECIFICATION Spec
CONSTANTS
  j1 = j1
  j2 = j2
  v1 = v1
  v2 = v2
  Jobs = {j1, j2}
  Workers = {w1, w2}
  Nobody = Nobody
  NoJob = NoJob
  MaxRetries = 2
  Prefetch = 2
  Variants = {v1, v2}
  Results <- TwoResults
  Undecodable = {j2}
  Unreadable = {}
  Disturbances = {"call", "connection", "crash", "sigterm"}
  MaxFaults = 3
SYMMETRY Interchangeable
INVARIANTS
  NothingLost
  RetriesBounded
  ParkedForCause
  CompletedHasArtifacts
  NoDanglingArtifact
  HandlerHoldsMessage
