CONSTANTS
  MaxPosts = 2
  Devices = {}
  Size <- TwoThenOne
SPECIFICATION DeviceSpec
INVARIANTS
  Ordered
CHECK_DEADLOCK FALSE
