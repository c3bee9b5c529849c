CONSTANTS
  Calls = {}
  Modules = {m1, m2}
  Events = {ready, moved}
  MaxId = 3
SYMMETRY Symmetries
SPECIFICATION DesktopSpec
INVARIANTS
  OneSubscriptionPerEvent
  AcceptedIsTracked
  PendingIsListed
CHECK_DEADLOCK FALSE
