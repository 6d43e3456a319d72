SPECIFICATION FairSpec
CONSTANTS
  Main = main
  Cycles = {c1}
  Apps = {a1, a2, a3}
  MaxEdits = 1
  Faults = {"none"}
  Early = FALSE
  Overlap = FALSE
  None = None
PROPERTIES EventuallyLatest
CHECK_DEADLOCK FALSE
