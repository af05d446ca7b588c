\* Pages of one job in the gallery, of up to two for the walker, which may ask for five.
SPECIFICATION Spec
CONSTANTS
  Absent = Absent
  DefaultLimit = 1
  MaxLimit = 2
  MaxJobs = 3
  MaxCalls = 4
  Page = 1
  WalkLimits <- SomeLimits
INVARIANTS
  SettledPageIsAsked
  NeverPastTheEnd
  PagingNeverSkips
CHECK_DEADLOCK FALSE
