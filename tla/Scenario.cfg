SPECIFICATION Spec
CONSTANTS
  NaN = NaN
  Garbage = Garbage
  Topics <- MCTopics
  Filler <- MCFiller
  Retrievals <- MCRetrievals
  Grades <- MCGrades
  Shapes <- MCShapes
  LogTf <- MCLogTf
  Discount <- MCDiscount
  Unit = 60
  WCoverage = 5
  WJaccard = 3
  WTermFreq = 1
  WRetrieval = 1
CHECK_DEADLOCK FALSE
INVARIANTS JudgmentsMatchPools OnTopicFirst RerankFindsNoLess
