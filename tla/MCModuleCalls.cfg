CONSTANTS
  Calls = {c1, c2}
  Modules = {m1}
  Events = {ready}
  MaxId = 1
SPECIFICATION FairDesktopSpec
INVARIANTS
  UnreachableMeansUnsent
PROPERTIES
  DispatchOnlyWhileWaiting
  ImplementsContract
  EveryCallAnswered
CHECK_DEADLOCK FALSE
