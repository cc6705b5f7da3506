SPECIFICATION LimiterSpec
CONSTANTS
  Direct = {"direct"}
  Proxied = {"proxied"}
  Forged <- MCForged
  Empty = ""
  ExpensiveEndpoints = {"solve"}
  Handlers = {h1, h2}
  Events <- MCEvents
  Window = 3
  Delay = 1
  Cap = 1
  MaxTime = 4
INVARIANTS
  SendersAreApart
PROPERTIES
  IdleBucketsAreSwept
CHECK_DEADLOCK FALSE
