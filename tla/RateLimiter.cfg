SPECIFICATION Spec
CONSTANTS
  Capacity = 3
  RefillPerTick = 2
  MaxTime = 4
  Costs <- MCCosts
INVARIANTS TypeOK WindowBound WindowInv
PROPERTY ImplementsTokenBucket
