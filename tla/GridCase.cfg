SPECIFICATION Spec
CONSTANTS
  Formulations = {"dcopf", "socwr", "acpf"}
  Targets = {"bus", "branch"}
  Values = {0, 1}
  MaxSolves = 2
  MaxSelections = 1
  MaxCrashes = 1
  None = None
INVARIANTS
  ScreenIsCurrent
  StudiesAreOwned
PROPERTY SolveEnds
CHECK_DEADLOCK FALSE
