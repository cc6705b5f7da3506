SPECIFICATION FairSpec
CONSTANTS
  Requests = {r1, r2, r3}
  Endpoints = {"solve", "sensitivity"}
  Capacity = 2
  Compute = TRUE
INVARIANTS
  PoolInv
  StreamDeadline
  ReplyIsTrue
PROPERTIES
  PoolRecovers
