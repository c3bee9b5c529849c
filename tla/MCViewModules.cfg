CONSTANTS
  Modules = {m, k}
  Models = {x}
  Sockets = {s1, s2}
  Plugins = {p1, p2}
  Nodes = {n1, n2}
  Replicas = {r1, r2}
  None = None
  Nobody = Nobody
  Crash = Crash
  Gone = Gone
SPECIFICATION Spec
SYMMETRY Symmetry
INVARIANTS
  CachesCoherent
  OnlyTheDroppedMislead
CHECK_DEADLOCK FALSE
