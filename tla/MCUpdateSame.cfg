\* One helper, whose package carries the same build metadata as the one that runs.
SPECIFICATION Spec
CONSTANTS
  p0 = p0
  p1 = p1
  u1 = u1
  u2 = u2
  k1 = k1
  k2 = k2
  Packages = {p0, p1}
  Stamp <- SharedStamp
  Old = p0
  Updaters = {u1}
  Plans = {k1}
  Commands = {}
  Absent = Absent
  Foreign = Foreign
  None = None
  MaxAttempt = 3
  MaxDeaths = 0
  MaxMishaps = 0
INVARIANTS
  NoDowngradeAfterSuccess
CHECK_DEADLOCK FALSE
