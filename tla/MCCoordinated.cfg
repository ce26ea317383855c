\* Two packages, two plans; one mishap: a replaced frontend, another window, an end.
SPECIFICATION FairSpec
CONSTANTS
  p0 = p0
  p1 = p1
  Packages = {p0, p1}
  Old = p0
  MaxPlan = 2
  MaxWorker = 2
  MaxStart = 2
  MaxMishaps = 1
  None = None
INVARIANTS
  ApprovedAsShown
PROPERTIES
  CoreFollowsCompanion
  AppliedMeansAll
  EveryFlowSettles
CHECK_DEADLOCK FALSE
