SPECIFICATION FairSpec
CONSTANTS
  Procs = {p1, p2}
  NoProc = NoProc
  Ops = {o1, o2, o3}
  NoBundle = NoBundle
  MaxRevision = 2
INVARIANTS
  TypeOK
  Exclusive
  ReportedSavesSurvive
  RefusedMeansNotSaved
PROPERTIES
  RegisterSpec
  LockIsReleased
