SPECIFICATION Spec
CONSTANTS
  r1 = r1
  r2 = r2
  p1 = p1
  Runs = {r1, r2}
  Probes = {p1}
  MaxJobs = 1
  MaxProbes = 1
  MaxSessions = 2
  MaxSettled = 2
CHECK_DEADLOCK FALSE
PROPERTY CancelWinsOverFailure
