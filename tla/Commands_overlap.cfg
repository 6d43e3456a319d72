\* Two cycles at once: a startApp waits in the swap while the next one builds, or
\* for appMu.
SPECIFICATION CommandSpec
CONSTANTS
  Main = main
  Cycles = {c1, c2}
  Apps = {a1, a2, a3}
  MaxEdits = 1
  Faults = {"none", "build", "run"}
  Early = FALSE
  Overlap = TRUE
  None = None
SYMMETRY Symmetry
INVARIANTS OneApp OneServer NothingLeftBehind
\* A command ends, and a developer may stop editing.
CHECK_DEADLOCK FALSE
