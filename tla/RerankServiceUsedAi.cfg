SPECIFICATION Spec
CONSTANTS
  r1 = r1
  r2 = r2
  s1 = s1
  NoStream = NoStream
  Requests <- MCRequests
  Unlucky = {}
  Rerankers <- MCRerankers
  Subscribers <- MCSubscribers
  Costs <- MCCosts
  Capacity = 1
  RefillPerTick = 1
  MaxTime = 1
  Slots = 1
CHECK_DEADLOCK FALSE
INVARIANT UsedAiMeansModel
