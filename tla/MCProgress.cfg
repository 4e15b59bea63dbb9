SPECIFICATION FairSpec
CONSTANTS
  r1 = r1
  r2 = r2
  Runs = {r1}
  NoRun = NoRun
  Capacity = 1
  DeadRunCap = 1
  MaxTasks = 2
  MaxAssigns = 2
  Credentialed = {r1}
  Drifts = {"blocked", "gone"}
PROPERTIES
  PendingEnds
  CancelEnds
