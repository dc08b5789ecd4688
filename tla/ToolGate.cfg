SPECIFICATION Spec
CHECK_DEADLOCK FALSE
CONSTANTS
  N = 2
  c1 = c1
  c2 = c2
  Calls <- TwoCalls
  Setups <- AllSetups
INVARIANTS
  ExecutedKeepsTurn
  TurnIsItsOwn
