SPECIFICATION FairSpec
CONSTANTS
  Points = {s0, a, b, c}
  Start = s0
  Values = {0, 1, 2, 3}
  Options <- MCOptions
  None = None
INVARIANTS
  BudgetRespected
  RecommendationIsBest
  LineageImproves
  ReasonIsTrue
PROPERTIES
  CancelStopsSolves
  Terminates
