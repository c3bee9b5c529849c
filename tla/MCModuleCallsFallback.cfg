CONSTANTS
  Calls = {c1}
  Modules = {}
  Events = {}
  MaxId = 0
SPECIFICATION DesktopSpec
INVARIANTS
  FallbackBoundsOnlyTheWait
CHECK_DEADLOCK FALSE
