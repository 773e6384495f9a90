CONSTANTS
  Stations = {s1, s2}
  None = None
  Solo = s1
  Settings <- MCHeadquarters
  SlowWrites = FALSE
SPECIFICATION FairSpec
PROPERTIES
  OperatorStopConverges
CHECK_DEADLOCK FALSE
