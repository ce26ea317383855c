\* Two transfers at a time, their workers in any order; the pane changes, and changes back.
\* An upload without an attachment takes a part of the steps of one with it.
SPECIFICATION Spec
CONSTANTS
  t1 = t1
  t2 = t2
  Transfers = {t1, t2}
  Kinds = {"attach", "download"}
  Slots = 2
  Places = {"pane", "other"}
  MaxChanges = 2
INVARIANTS
  PasteFollowsOrigin
  NoOrphanStaging
PROPERTIES
  ClaimedInOrigin
  EveryWorkerEnds
CHECK_DEADLOCK FALSE
