CONSTANTS
  Stations = {s1, s2}
  None = None
  Solo = s1
  Settings <- MCSettings
  SlowWrites = FALSE
SPECIFICATION FairSpec
INVARIANTS
  BeaconInv
  
  OneOwner
  
PROPERTIES
  DeletedStaysGone
  StopsForGood
  FailsOver
  
CHECK_DEADLOCK FALSE
