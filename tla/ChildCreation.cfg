CONSTANTS
  Calls = {c1, c2, c3}
  Sessions = {s}
  Names <- PiNames
  Native <- HostTools
  Global = {"bash"}
  Requests <- FewRequests
  MaxRenamings = 2
SPECIFICATION Spec
SYMMETRY CallSymmetry
CHECK_DEADLOCK FALSE
INVARIANTS
  ToolsAsAsked
  DescribedOnce
PROPERTIES
  RetiredOnlyWhenGone
