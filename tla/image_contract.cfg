\* Liveness and refinement: a good job and a body that does not parse.
SPECIFICATION FairSpec
CONSTANTS
  j1 = j1
  j2 = j2
  v1 = v1
  v2 = v2
  Jobs = {j1, j2}
  Workers = {w1, w2}
  Nobody = Nobody
  NoJob = NoJob
  MaxRetries = 2
  Prefetch = 2
  Variants = {v1, v2}
  Results <- OneResult
  Undecodable = {}
  Unreadable = {j2}
  Disturbances = {"call", "connection", "crash", "sigterm"}
  MaxFaults = 2
PROPERTIES
  ImplementsContract
  SurvivesFewFaults
  RestartsKeepOrder
