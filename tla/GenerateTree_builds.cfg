\* Any two of five paths whose names meet, an edit and failures at any step.
SPECIFICATION Spec
CONSTANTS
  Files <- MCFiles
  MaxFiles = 2
  MaxEdits = 1
  Absent = Absent
  Torn = Torn
INVARIANTS TreeExact CleanBuilds
PROPERTIES TreeSteps
CHECK_DEADLOCK FALSE
