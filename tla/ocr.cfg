\* A good job and a rejectable one, two replicas, every kind of disturbance.
SPECIFICATION FairSpec
CONSTANTS
  j1 = j1
  j2 = j2
  Jobs = {j1, j2}
  Workers = {w1, w2}
  Nobody = Nobody
  NoJob = NoJob
  MaxRetries = 2
  Prefetch = 1
  Rejectable = {j2}
  Unreadable = {}
  Disturbances = {"call", "connection", "crash", "sigterm"}
  MaxFaults = 2
INVARIANTS
  NothingLost
  RetriesBounded
  ParkedForCause
  CompletedHasText
PROPERTIES
  ImplementsContract
  SurvivesFewFaults
  CrashesKeepOrder
