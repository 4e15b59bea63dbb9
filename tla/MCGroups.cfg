SPECIFICATION GroupSpec
CONSTANTS
  s1 = s1
  s2 = s2
  c1 = c1
  c2 = c2
  k1 = k1
  r1 = r1
  r2 = r2
  Sources = {s1, s2}
  Configs = {c1}
  Components = {k1}
  Runs = {r1, r2}
  None = None
  MaxRunning = 2
  MaxOpen = 2
  Capable = {s1}
  MaxToggles = 1
CHECK_DEADLOCK FALSE
SYMMETRY Symmetry
PROPERTIES
  SoloRunIsExact
  HumanGroupsKept
  GroupsFollowReporters
