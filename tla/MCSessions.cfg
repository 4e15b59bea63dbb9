SPECIFICATION FairSpec
CONSTANTS
  s1 = s1
  s2 = s2
  q1 = q1
  Sessions = {s1, s2}
  Requests = {q1}
  None = None
  MaxFaults = 1
  MaxCrashes = 1
CHECK_DEADLOCK FALSE
INVARIANTS
  ClosedHoldsNothing
  EstablishedIsLive
PROPERTIES
  RequestSpec
  GoneSessionEnds
  OrphanRowsClose
