\* A browser tab and another program's socket, two jobs, two disturbances.
SPECIFICATION Spec
CONSTANTS
  t1 = t1
  o1 = o1
  Jobs = {j1, j2}
  Tabs = {t1}
  Others = {o1}
  OthersAsk = {j1}
  None = None
  Sockets <- AllSockets
  MaxSockets = 2
  MaxRequests = 1
  MaxEvents = 2
  MaxFaults = 1
INVARIANTS
  HubInv
  NoStrayTimers
  SubscriptionsKept
PROPERTIES
  
  RestoresSubscriptions
CHECK_DEADLOCK FALSE
