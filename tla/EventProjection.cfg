SPECIFICATION FairSpec
CHECK_DEADLOCK FALSE
CONSTANTS
  Hosts <- AllHosts
  Bound <- Bounds
INVARIANTS
  InLogOrder
  NothingLost
  
PROPERTY UnloadCompletes
