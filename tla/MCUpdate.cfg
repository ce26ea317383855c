\* Two helpers, a plan and a direct command, of a new package or of what runs; two deaths and one mishap.
SPECIFICATION Spec
CONSTANTS
  p0 = p0
  p1 = p1
  u1 = u1
  u2 = u2
  k1 = k1
  k2 = k2
  Packages = {p0, p1}
  Stamp <- StampOf
  Old = p0
  Updaters = {u1, u2}
  Plans = {k1, k2}
  Commands = {k2}
  Absent = Absent
  Foreign = Foreign
  None = None
  MaxAttempt = 3
  MaxDeaths = 2
  MaxMishaps = 1
SYMMETRY UpdaterSymmetry
INVARIANTS
  Recoverable
  PreviousIsReal
  PlanInstalledOnce
  RevertsOnlyRejected
CHECK_DEADLOCK FALSE
