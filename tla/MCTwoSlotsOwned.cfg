SPECIFICATION Spec
CONSTANTS
  r1 = r1
  r2 = r2
  Runs = {r1}
  NoRun = NoRun
  Capacity = 2
  DeadRunCap = 1
  MaxTasks = 3
  MaxAssigns = 2
  Credentialed = {}
  Drifts = {}
INVARIANT ActiveRunIsOwned
