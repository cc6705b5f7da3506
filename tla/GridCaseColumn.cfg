SPECIFICATION Spec
CONSTANTS
  Formulations = {"dcopf"}
  Targets = {"bus"}
  Values = {0, 1}
  MaxSolves = 1
  MaxSelections = 2
  MaxCrashes = 0
  None = None
INVARIANT ColumnIsCommitted
CHECK_DEADLOCK FALSE
