SPECIFICATION Spec
CONSTANTS
  k1 = k1
  k2 = k2
  Checks = {k1, k2}
  Remote = {}
  Concurrency = 1
  QueueMax = 1
  Threshold = 2
  MissedPerSweep = 1
  None = None
  MaxTime = 2
  MaxEvents = 2
CHECK_DEADLOCK FALSE
INVARIANTS
  OneProbePerSlot
