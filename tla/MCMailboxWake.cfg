\* Wake-ups and replies across failed saves and crashes: a run that joins or
\* replaces another in the recipient workspace.
SPECIFICATION Spec
CONSTANTS
  r1 = r1
  r2 = r2
  r3 = r3
  c1 = c1
  c2 = c2
  q1 = q1
  q2 = q2
  None = None
  Runs = {r2, r3}
  Home <- HomeThree
  Harness <- AllCodex
  Convs = {c1}
  Requests = {q1}
  MaxMsg = 2
  MaxLease = 0
  MaxJobs = 2
  ScanLimit = 2
  NoticeLimit = 1
  Activates = FALSE
  Stimuli = {"card", "chat", "exit", "tool", "focus"}
  MaxFaults = 1
  MaxCrash = 1
INVARIANTS
  WokenAtMostOnce
  ReservedBeforeLaunch
  OneHandoffAtATime
  OneMessagePerRequest
SYMMETRY RunSymmetry
\* Bounds run out and every run may have exited: the system really may stop.
CHECK_DEADLOCK FALSE
