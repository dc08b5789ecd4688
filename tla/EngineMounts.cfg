CONSTANTS
  Agents = {a1, a2}
  Packages = {p1, p2}
  Extending = {p1}
SPECIFICATION FairSpec
CHECK_DEADLOCK FALSE
INVARIANTS
  ServedOnce
  ReadyBeforeRelease
  
PROPERTIES
  EveryAgentReleased

