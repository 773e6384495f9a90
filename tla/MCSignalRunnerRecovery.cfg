CONSTANTS
  Runs = {1, 2}
  Stations = {s1}
  Tokens = {1, 2}
  None = None
  MaxAttempts <- MCMaxAttempts
  MaxConcurrent = 1
  SlotLimit = 1
  Unfit <- MCUnfit
  Reports = {"completed"}
  Cancellable = {}
  Mortal = {s1}
  MaxCrashes = 1
  LeasesLapse = FALSE
SPECIFICATION FairSpec
PROPERTIES
  EveryRunSettles
  FencedProcessesEnd
