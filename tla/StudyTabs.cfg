SPECIFICATION FairSpec
CONSTANTS
  Tabs = {t1, t2}
  Ops = {o1, o2, o3, o4}
  Tokens = {k1}
  NoBundle = NoBundle
  None = None
  Kinds = {"inspect", "revise_goal", "propose"}
  MaxQueue = 2
CHECK_DEADLOCK FALSE
INVARIANTS
  ApplyFollowsApproval
  ApprovalsAreCurrent
  OutcomeIsTrue
PROPERTIES
  RegisterSpec
  EveryRequestSettles
