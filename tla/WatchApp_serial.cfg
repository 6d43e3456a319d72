\* Every cycle ends before the next debounce window does; everything may fail.
SPECIFICATION FairSpec
CONSTANTS
  Main = main
  Cycles = {c1}
  Apps = {a1, a2}
  MaxEdits = 1
  Faults = {"none", "generate", "asset", "build", "run"}
  Early = FALSE
  Overlap = FALSE
  None = None
INVARIANTS KeepsServing
PROPERTIES PatientGetsLatest
CHECK_DEADLOCK FALSE
