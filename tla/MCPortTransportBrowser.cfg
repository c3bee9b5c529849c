CONSTANTS
  Channels = {c1, c2}
  NoEnd = NoEnd
  Wrapped <- PageEnds
SPECIFICATION FairSpec
PROPERTIES
  FreshPortIsTaken
CHECK_DEADLOCK FALSE
