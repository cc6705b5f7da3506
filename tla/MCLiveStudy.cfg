SPECIFICATION Spec
CONSTANTS
  Buses = {"b1", "b2"}
  Branches = {"l1", "l2", "out"}
  Reference = "b2"
  Locked = {"out"}
  Edits <- MCEdits
  Generation <- MCGeneration
  Synthetic = 4
  Sources <- MCSources
  Formulations = {"dcopf", "acpf"}
  MaxLog = 2
  MaxCommits = 2
  MaxReloads = 1
  None = None
INVARIANTS
  SolvedIsCurrent
  PreviewReaches
  SavedIsSolved
