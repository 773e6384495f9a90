CONSTANTS
  N = 3
  Graphs <- MCThree
  Policies <- MCPolicies
  HasTimeout = TRUE
  Cancellable = TRUE
  MaxCrashes = 1
  Signals = {x}
  Broadcasts = {b}
  MaxSaves = 2
  MaxFaults = 2
  MaxCalls = 2
SPECIFICATION BroadcastsSpec
INVARIANTS
  DagInv
  TriggeredOnce
  NothingLeftRunning
  DefinitionsHold
PROPERTIES
  DependenciesFirst
  EndsOnce
  ImplementsDag
CHECK_DEADLOCK FALSE
