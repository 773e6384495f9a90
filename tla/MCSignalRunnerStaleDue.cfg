CONSTANTS
  Runs = {1}
  Stations = {s1, s2}
  Tokens = {1}
  None = None
  MaxAttempts <- MCOneAttempt
  MaxConcurrent = 1
  SlotLimit = 0
  Unfit <- MCOneUnfit
  Reports = {"completed"}
  Cancellable = {}
  Mortal = {}
  MaxCrashes = 0
  LeasesLapse = FALSE
SPECIFICATION Spec
PROPERTY TerminalIsFinal
