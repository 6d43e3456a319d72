SPECIFICATION FairSpec
CONSTANTS
  Callers = {c1, c2}
  MaxId = 2
  MaxNotices = 1
  Cap = 2
  None = None
INVARIANTS Framed NoneForgotten
PROPERTIES EverythingReturns
CHECK_DEADLOCK FALSE
