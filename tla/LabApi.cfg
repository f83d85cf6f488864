SPECIFICATION ApiFairSpec
CONSTANTS
  r1 = r1
  r2 = r2
  s1 = s1
  NoStream = NoStream
  Requests <- MCRequests
  Unlucky <- MCUnlucky
  Rerankers <- MCRerankers
  Subscribers <- MCSubscribers
  Costs <- MCCosts
  Capacity = 1
  RefillPerTick = 1
  MaxTime = 2
  Slots = 1
CHECK_DEADLOCK FALSE
INVARIANTS TypeOK InStep AdmissionBudget CountersLeadEvents
PROPERTIES ImplementsFacade CallsAreAnswered
