SPECIFICATION Spec
CHECK_DEADLOCK FALSE
CONSTANTS
  MaxLogins = 2
  MaxLinks = 3
  MaxPending = 2
INVARIANTS
  LinksAreLive
  NoQuestionOutlivesLogin
  
PROPERTY CalledOffLetsGo
