CONSTANTS
  Calls = {c1, c2}
  Sessions = {s}
  Names <- PiNames
  Native <- HostTools
  Global = {"bash"}
  Requests <- FewRequests
  MaxRenamings = 1
SPECIFICATION Spec
SYMMETRY CallSymmetry
CHECK_DEADLOCK FALSE
INVARIANTS
  DeniedStaysDenied
