CONSTANTS
  Channels = {c1, c2}
  NoEnd = NoEnd
  Wrapped <- OneWrapped
SPECIFICATION FairSpec
INVARIANTS
  OneHolder
  AnnouncedOnce
PROPERTIES
  ClientRecovers
CHECK_DEADLOCK FALSE
