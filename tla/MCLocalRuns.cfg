SPECIFICATION FairTargetSpec
CONSTANTS
  r1 = r1
  r2 = r2
  c1 = c1
  Runs = {r1, r2}
  Configs = {c1}
  ConfigOf <- SharedConfig
  Concurrency = 1
  MaxCancels = 2
INVARIANTS
  ActiveRunIsOwned
  CancelReachesWorker
  DisableReachesRuns
PROPERTIES
  LifecycleSpec
  PendingCancelWins
  RunEnds
