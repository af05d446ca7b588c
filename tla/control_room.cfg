\* Two uploads, one of a job that is retried, two polls each and a load by the user.
SPECIFICATION Spec
CONSTANTS
  a = a
  b = b
  Items = {a, b}
  Retried = {b}
  None = None
  Unread = Unread
  MaxPolls <- Polls
  MaxEvents = 1
  MaxLoads = 1
INVARIANTS
  OneAtATime
  
  RunnerIsAwaited
  ArtifactsOfFocus
PROPERTY
  EveryItemSettles
CHECK_DEADLOCK FALSE
