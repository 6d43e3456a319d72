\* Five signals and a channel of four, as in the code: the channel can be full.
SPECIFICATION FairReload
CONSTANTS
  Browsers = {b1}
  Cap = 4
  MaxWrites = 5
  Restarts = TRUE
INVARIANTS NoStaleFailure
PROPERTIES ReloadReaches
CHECK_DEADLOCK FALSE
