CONSTANTS
  Runs = {1, 2}
  Stations = {s1, s2}
  Tokens = {1}
  None = None
  MaxAttempts <- MCOneAttempt
  MaxConcurrent = 1
  SlotLimit = 1
  Unfit = {}
  Reports = {"completed"}
  Cancellable = {}
  Mortal = {s1, s2}
  MaxCrashes = 0
  LeasesLapse = FALSE
SPECIFICATION Spec
INVARIANTS
  NetworkConcurrency
  NoLeakedSlot
SYMMETRY Symmetry
