SPECIFICATION EvaluationSpec
CONSTANTS
  Docs <- MCDocs
  Discount <- MCDiscount
  MaxGrade = 2
  MaxRanked = 3
  MaxCutoff = 4
  MayRepeat = FALSE
CHECK_DEADLOCK FALSE
INVARIANTS MetricsInRange PromotionPays IdealScoresOne LargerCutoffFindsMore
