CONSTANTS
  Bridges = {b1, b2}
  Sessions = {s}
  MaxRecords = 3
  MaxLog = 2
  MaxCrashes = 2
SPECIFICATION Spec
CHECK_DEADLOCK FALSE
INVARIANTS
  RecordsSurvive
  CacheFaithful
  ScanCleans
PROPERTIES
  RetiredOnlyWhenGone
SYMMETRY BridgeSymmetry
