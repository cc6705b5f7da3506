SPECIFICATION Spec
CONSTANTS
  MaxCalls = 3
  MaxHosts = 2
  MaxLoads = 1
  Ops = {"create", "edit", "free"}
  PageTraps = TRUE
  None = None
INVARIANTS
  PendingIsOwnedOnce
  AcknowledgedEditsKept
  EditsInOrder
  WorkerAnswersAreSound
