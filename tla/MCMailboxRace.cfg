\* What moves while a reservation is saved or a reply is prepared: input, exits,
\* and conversations that change runs.
SPECIFICATION Spec
CONSTANTS
  r1 = r1
  r2 = r2
  r3 = r3
  c1 = c1
  c2 = c2
  q1 = q1
  q2 = q2
  None = None
  Runs = {r1, r2}
  Home <- HomeOne
  Harness <- AllCodex
  Convs = {c1, c2}
  Requests = {q1}
  MaxMsg = 1
  MaxLease = 0
  MaxJobs = 1
  ScanLimit = 1
  NoticeLimit = 1
  Activates = FALSE
  Stimuli = {"chat", "type", "switch", "exit", "inbox", "deliver"}
  MaxFaults = 0
  MaxCrash = 0
PROPERTIES
  WakeReachesBoundChat
  NoLaunchOverInput
  BoundMailStaysInItsChat
\* Bounds run out and every run may have exited: the system really may stop.
CHECK_DEADLOCK FALSE
