SPECIFICATION Spec
CONSTANTS
  Key <- MCKey
  Id <- MCId
  Bound <- MCBound
  MaxLen = 3
INVARIANTS
  SortedFlagIsTrue
PROPERTIES
  OrderedRangesAnswer
  AnswersAsBag
CHECK_DEADLOCK FALSE
