SPECIFICATION CheckSpec
CONSTANTS
  s1 = s1
  s2 = s2
  c1 = c1
  c2 = c2
  k1 = k1
  r1 = r1
  r2 = r2
  r3 = r3
  d1 = d1
  d2 = d2
  Sources = {s1, s2}
  Configs = {c1, c2}
  Components = {k1}
  Runs = {r1, r2, r3}
  None = None
  MaxRunning = 1
  MaxOpen = 1
  Defs = {d1}
  MaxOperations = 1
CHECK_DEADLOCK FALSE
SYMMETRY Symmetry
PROPERTY
  HistoryOutlivesOwners
