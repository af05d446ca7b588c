\* The connection ends between the status and the event.
SPECIFICATION Spec
CONSTANTS
  j1 = j1
  j2 = j2
  Jobs = {j1, j2}
  Workers = {w1, w2}
  Nobody = Nobody
  NoJob = NoJob
  MaxRetries = 2
  Prefetch = 1
  Rejectable = {}
  Unreadable = {j2}
  Disturbances = {"connection"}
  MaxFaults = 1
PROPERTY CompletedIsFinal
