SPECIFICATION Spec
CONSTANTS
  Inputs = {n0, n1}
  BaseInput = n0
  Requests = {q1}
  MaxTrials = 2
  MaxRevision = 3
  MaxRecords = 8
CHECK_DEADLOCK FALSE
INVARIANTS
  RecommendationMatchesGoal
  AppliedIsDecided
  GoalsFormALine
  WorkIsKept
PROPERTY HistoryGrows
