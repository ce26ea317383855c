\* Three operations of which one fits an image, two preparations, three errors, three deaths.
SPECIFICATION Spec
CONSTANTS
  o1 = o1
  o2 = o2
  o3 = o3
  None = None
  Ops = {o1, o2, o3}
  Fit = 1
  MaxDb = 2
  MaxFaults = 3
  MaxCrash = 3
SYMMETRY OpSymmetry
INVARIANTS
  SavedSurvives
  FailureStands
  RecordsMatchMemory
PROPERTY
  RecordsKept
CHECK_DEADLOCK FALSE
