SPECIFICATION FairEnrolSpec
CONSTANTS
  s1 = s1
  s2 = s2
  Sessions = {s1, s2}
  Requests = {}
  None = None
  MaxTokens = 2
  MaxFaults = 0
  MaxCrashes = 0
CHECK_DEADLOCK FALSE
INVARIANTS
  TokenSpentOnce
  BoundAgentExists
PROPERTY FallenCredentialDrops
