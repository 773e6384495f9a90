CONSTANTS
  r1 = r1
  r2 = r2
  Runs = {r1, r2}
  Stations = {s1, s2}
  Tokens = {t1, t2, t3}
  None = None
  MaxAttempts <- MCMaxAttempts
  Reconcilers = {a, b}
  Rules <- MCRules
  Policies <- MCPolicies
  Grace = 0
  MaxTime = 3
  Horizon = 6
  MaxEvents = 1
  Members = {m1, m2}
  MaxStarts = 2
  MaxOrders = 1
  MaxDelays = 1
  MaxHeld = 2
  StepAttempts = 3
  StepCount = 2
  Signals = {x}
  Broadcasts = {}
  MaxSaves = 2
  MaxFaults = 1
  MaxCalls = 2
SPECIFICATION ServicesSpec
INVARIANTS
  TokenIsLatestGrant
  AttemptBudget
  CompletedByLatestAttempt
  OneOwnerPerAttempt
  
  
  OverlapBounded
  TablesCoherent
  StepsResume
PROPERTIES
  TerminalIsFinal
  ImplementsLifecycle
  DueIsClaimed
  KeepsContract
  DeadGoesOffline
  LiveStaysListed
  DefinitionsConverge
CHECK_DEADLOCK FALSE
