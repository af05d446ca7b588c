\* One lost connection is enough to take a completed job back.
SPECIFICATION Spec
CONSTANTS
  j1 = j1
  j2 = j2
  v1 = v1
  v2 = v2
  Jobs = {j1}
  Workers = {w1, w2}
  Nobody = Nobody
  NoJob = NoJob
  MaxRetries = 2
  Prefetch = 1
  Variants = {v1, v2}
  Results <- TwoResults
  Undecodable = {}
  Unreadable = {}
  Disturbances = {"connection"}
  MaxFaults = 1
PROPERTY
  CompletedIsFinal
