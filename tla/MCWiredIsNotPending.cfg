SPECIFICATION Spec
CONSTANTS
  c1 = c1
  c2 = c2
  t1 = t1
  t2 = t2
  Components = {c1}
  Hits = {c1}
  Calls = {t1, t2}
  None = None
  MaxMoves = 1
SYMMETRY Symmetry
CHECK_DEADLOCK FALSE
INVARIANT WiredIsNotPending
