CONSTANTS
  Providers = {p}
  Jobs = {j1, j2, j3}
  MaxCreds = 3
  MaxCrashes = 1
  WritesFail = TRUE
SPECIFICATION StoredSpec
CHECK_DEADLOCK FALSE
INVARIANTS
  RefreshOnce
  
  NeverStuck
PROPERTIES
  AwaitedKeyIsAlive
SYMMETRY JobSymmetry
