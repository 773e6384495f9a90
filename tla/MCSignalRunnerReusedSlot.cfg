CONSTANTS
  Runs = {1, 2}
  Stations = {s1}
  Tokens = {1, 2}
  None = None
  MaxAttempts <- MCMaxAttempts
  MaxConcurrent = 2
  SlotLimit = 1
  Unfit = {}
  Reports = {"completed", "failed"}
  Cancellable = {}
  Mortal = {}
  MaxCrashes = 0
  LeasesLapse = FALSE
SPECIFICATION Spec
INVARIANT NetworkConcurrency
