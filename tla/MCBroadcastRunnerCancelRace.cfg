CONSTANTS
  N = 2
  Graphs <- MCChain
  Policies <- MCFailFast
  HasTimeout = FALSE
  Cancellable = TRUE
  MaxCrashes = 0
SPECIFICATION Spec
INVARIANT CancelStopsEverything
CHECK_DEADLOCK FALSE
