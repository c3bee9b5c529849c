CONSTANT MaxSpawns = 2
SPECIFICATION FairSpec
INVARIANTS
  TypeOK
  OneChild
  ReadyIsHeard
PROPERTIES
  KillsOnlyTheUnresponsive
  OrphansEnd
CHECK_DEADLOCK FALSE
