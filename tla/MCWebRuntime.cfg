CONSTANTS
  Modules = {m1, m2}
  MaxViews = 3
  MaxDepth = 3
SYMMETRY Symmetries
SPECIFICATION Spec
INVARIANTS
  InstalledIsAlive
  NothingStray
  BackendReachesView
  UsersGoFirst
CHECK_DEADLOCK FALSE
