SPECIFICATION SurfacesSpec
CHECK_DEADLOCK FALSE
CONSTANTS
  N = 2
  Seats <- TwoSeats
  Composer = "composer"
  MaxPolls = 2
  MaxLost = 1
  MaxDrafts = 2
  MaxWidgets = 2
INVARIANTS
  ShownIsLive
PROPERTIES
  
  PageCatchesUp
