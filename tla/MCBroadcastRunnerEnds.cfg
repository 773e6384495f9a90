CONSTANTS
  N = 2
  Graphs <- MCTwo
  Policies <- MCPolicies
  HasTimeout = TRUE
  Cancellable = TRUE
  MaxCrashes = 1
SPECIFICATION FairSpec
PROPERTY EveryBroadcastEnds
CHECK_DEADLOCK FALSE
