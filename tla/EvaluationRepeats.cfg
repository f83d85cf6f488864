SPECIFICATION EvaluationSpec
CONSTANTS
  Docs <- MCDocs
  Discount <- MCDiscount
  MaxGrade = 2
  MaxRanked = 3
  MaxCutoff = 4
  MayRepeat = TRUE
CHECK_DEADLOCK FALSE
INVARIANT MetricsInRange
