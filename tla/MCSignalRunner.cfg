CONSTANTS
  Runs = {1}
  Stations = {s1, s2}
  Tokens = {1, 2}
  None = None
  MaxAttempts <- MCMaxAttempts
  MaxConcurrent = 1
  SlotLimit = 0
  Unfit = {}
  Reports = {"completed", "failed", "fatal"}
  Cancellable = {1}
  Mortal = {s1, s2}
  MaxCrashes = 0
  LeasesLapse = TRUE
SPECIFICATION Spec
INVARIANTS
  FleetInv
  
  NoStrayProcess
PROPERTIES
  UsesQueueAsSpecified
SYMMETRY Symmetry
