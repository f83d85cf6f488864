SPECIFICATION RankingSpec
CONSTANTS
  NaN = NaN
  Garbage = Garbage
  OfferedIds <- MCOfferedIds
  InventedIds <- MCInventedIds
  Numbers <- MCNumbers
  Scores <- MCScores
  MaxCandidates = 2
  MaxItems = 3
CHECK_DEADLOCK FALSE
INVARIANTS ComparatorIsTotalPreorder SortIsStable ReplyIsSanitised HeuristicIsPermutation
