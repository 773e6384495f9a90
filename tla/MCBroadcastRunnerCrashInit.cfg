CONSTANTS
  N = 2
  Graphs <- MCChain
  Policies <- MCFailFast
  HasTimeout = FALSE
  Cancellable = FALSE
  MaxCrashes = 1
SPECIFICATION Spec
INVARIANT CompletedMeansAllNodes
CHECK_DEADLOCK FALSE
