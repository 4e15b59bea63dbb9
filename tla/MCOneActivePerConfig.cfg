SPECIFICATION TargetSpec
CONSTANTS
  r1 = r1
  r2 = r2
  c1 = c1
  Runs = {r1, r2}
  Configs = {c1}
  ConfigOf <- SharedConfig
  Concurrency = 2
  MaxCancels = 1
INVARIANT OneActivePerConfig
