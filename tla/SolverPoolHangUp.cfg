SPECIFICATION Spec
CONSTANTS
  Requests = {r1, r2}
  Endpoints = {"sensitivity"}
  Capacity = 1
  Compute = TRUE
INVARIANTS
  DeadlineBoundsSolve
