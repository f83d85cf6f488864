SPECIFICATION FairSpec
CONSTANTS
  NaN = NaN
  Garbage = Garbage
  CandidateLists <- MCCandidateLists
  NoBody = NoBody
  Bodies <- MCBodies
  Statuses <- MCStatuses
  Timeout = 2
  BaseDelay = 4
  MaxDelay = 8
  Second = 9
  MaxAttempts = 4
  MaxRequests = 2
CHECK_DEADLOCK FALSE
INVARIANTS TypeOK LatencyBound CountersAddUp
PROPERTIES SleepsGrow ImplementsPort EveryRequestEnds
