SPECIFICATION Spec
CONSTANTS
  r1 = r1
  r2 = r2
  Runs = {r1, r2}
  NoRun = NoRun
  Capacity = 1
  DeadRunCap = 1
  MaxTasks = 2
  MaxAssigns = 2
  Credentialed = {}
  Drifts = {}
SYMMETRY RunSymmetry
INVARIANT WaitingRunIsInQueue
