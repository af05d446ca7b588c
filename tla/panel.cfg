\* Two uploads of jobs that are not retried, and a user who only looks on.
SPECIFICATION Spec
CONSTANTS
  a = a
  b = b
  Items = {a, b}
  Retried = {}
  None = None
  Unread = Unread
  MaxPolls <- Polls
  MaxEvents = 2
  MaxLoads = 0
INVARIANT
  PanelIsOfCurrentJob
CHECK_DEADLOCK FALSE
