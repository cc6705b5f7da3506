SPECIFICATION FairSpec
CONSTANTS
  MaxCalls = 2
  MaxHosts = 1
  MaxLoads = 1
  Ops = {"create", "edit", "run", "solve"}
  PageTraps = TRUE
  None = None
INVARIANTS
  WorkerSeesStop
PROPERTIES
  CallsSettle
