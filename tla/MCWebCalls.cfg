CONSTANTS
  MaxCalls = 2
  MaxRestarts = 1
  SlotCalls = {c1}
SPECIFICATION FairBridgeSpec
INVARIANTS
  ExecutedAtMostOnce
  NothingHeldBack
  EveryOutcomeIsTold
PROPERTIES
  ImplementsContract
  EveryCallEnds
CHECK_DEADLOCK FALSE
