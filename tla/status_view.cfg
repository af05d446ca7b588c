\* One reader and two workers on one job; lost connections and failing calls.
SPECIFICATION ViewSpec
CONSTANTS
  v1 = v1
  v2 = v2
  Jobs = {j1}
  Workers = {w1, w2}
  Nobody = Nobody
  NoJob = NoJob
  NoView = NoView
  Unread = Unread
  MaxRetries = 2
  Prefetch = 1
  Variants = {v1, v2}
  Results <- TwoResults
  Undecodable = {}
  Unreadable = {}
  Disturbances = {"call", "connection", "crash", "sigterm"}
  MaxFaults = 2
SYMMETRY Interchangeable
INVARIANTS
  CompletedViewIsWhole
  
