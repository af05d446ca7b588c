\* Two uploads of a client, a limit of one per two seconds, every kind of disturbance.
SPECIFICATION Spec
CONSTANTS
  c1 = c1
  Clients = {c1}
  Limit = 1
  Window = 2
  MaxTime = 3
  Requests = {r1, r2}
  ClientOf <- OneClient
  Unanswered = Unanswered
  Disturbances = {"redis", "call", "connection", "nack", "crash", "sigterm"}
  MaxFaults = 2
INVARIANTS
  AcceptedIsQueued
  QueuedIsRunnable
  OrphanWasReported
  WindowHolds
  
PROPERTY
  EveryRequestEnds
