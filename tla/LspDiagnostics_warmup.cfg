\* Three texts, the second of which does not parse, and two background runs.
SPECIFICATION FairSpec
CONSTANTS
  Main = main
  Runs = {r1, r2}
  MaxVersion = 3
  Malformed = {2}
  MaxRetries = 2
  None = None
INVARIANTS SettledClean ShownIsMerged
PROPERTIES PatientDiagnosed
CHECK_DEADLOCK FALSE
