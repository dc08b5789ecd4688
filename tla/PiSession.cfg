CONSTANTS
  a1 = a1
  a2 = a2
  k1 = k1
  Agents <- AllAgents
  Children <- OneChild
  NoAgent = none
  SessionOf <- OwnSessions
  MaxTasks = 2
  Setups <- AllSetups
SPECIFICATION FairSpec
CHECK_DEADLOCK FALSE
INVARIANTS
  ClaimBacked
PROPERTIES
  
  ToolAfterStart
  StartReachesHandlers
  EverythingSettles
