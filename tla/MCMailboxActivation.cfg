\* The save that moves the mailbox to the record database is three durable jobs.
SPECIFICATION Spec
CONSTANTS
  r1 = r1
  r2 = r2
  r3 = r3
  c1 = c1
  c2 = c2
  q1 = q1
  q2 = q2
  None = None
  Runs = {r2}
  Home <- HomeThree
  Harness <- AllCodex
  Convs = {c1}
  Requests = {q1}
  MaxMsg = 1
  MaxLease = 0
  MaxJobs = 1
  ScanLimit = 1
  NoticeLimit = 1
  Activates = TRUE
  Stimuli = {"card", "type"}
  MaxFaults = 0
  MaxCrash = 0
PROPERTIES
  NoLaunchOverInput
\* Bounds run out and every run may have exited: the system really may stop.
CHECK_DEADLOCK FALSE
