\* Two requests for one workspace, two runs, two failed saves, a crash.
SPECIFICATION Spec
CONSTANTS
  w1 = w1
  k1 = k1
  k2 = k2
  None = None
  Works = {w1}
  Keys = {k1, k2}
  MaxDispatch = 2
  MaxRun = 2
  MaxFaults = 2
  MaxCrash = 1
SYMMETRY KeySymmetry
INVARIANTS
  StartedOnce
  OneWorkerPerWorkspace
  RefusedStaysUnlaunched
  OneDispatchPerRequest
  AcknowledgedByItsWorker
PROPERTIES
  PhaseNeverReturns
  DispatchPromiseKept
CHECK_DEADLOCK FALSE
