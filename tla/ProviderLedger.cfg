SPECIFICATION Spec
CHECK_DEADLOCK FALSE
CONSTANTS
  a1 = a1
  a2 = a2
  b1 = b1
  Instances <- Three
  PackageOf <- TwoPackages
  Registrations <- Overlays
  BuiltinUrl = 3
  HasSettings = FALSE
  MaxRoutes = 3
  MaxGenerations = 2
SYMMETRY Agents
INVARIANTS
  RouteIsCanonical
  NoGhostAdapter
  OwnersAreThere
