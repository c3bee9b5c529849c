CONSTANTS
  MaxPosts = 2
  Devices = {"b"}
  Size <- TwoThenOne
SPECIFICATION FairDeviceSpec
INVARIANTS
  NothingLostOrDoubled
  OrderedUnlessOvertaken
  StreamInOrder
PROPERTIES
  CloseComesLast
  NothingAfterClosed
  CloseIsHeard
  PostsAreHeard
CHECK_DEADLOCK FALSE
