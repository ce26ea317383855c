\* Hook notices: leases that expire, adapters that die, failed saves and crashes.
SPECIFICATION Spec
CONSTANTS
  r1 = r1
  r2 = r2
  r3 = r3
  c1 = c1
  c2 = c2
  q1 = q1
  q2 = q2
  None = None
  Runs = {r1, r2}
  Home <- HomeOne
  Harness <- ClaudeOne
  Convs = {c1}
  Requests = {q1}
  MaxMsg = 1
  MaxLease = 2
  MaxJobs = 1
  ScanLimit = 1
  NoticeLimit = 1
  Activates = FALSE
  Stimuli = {"card", "hook", "notice", "human"}
  MaxFaults = 1
  MaxCrash = 1
INVARIANTS
  EmittedWasPrinted
  OneNoticeHolder
  ReportedAckStays
PROPERTIES
  NothingForgotten
  PromiseKept
\* Bounds run out and every run may have exited: the system really may stop.
CHECK_DEADLOCK FALSE
