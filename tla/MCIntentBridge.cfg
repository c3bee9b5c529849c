CONSTANTS
  Bridges = {b1}
  Routers = {m1}
  Engines = {e1, e2}
  Requests = {r1, r2}
  NoRouter = NoRouter
  NoEngine = NoEngine
  NoBridge = NoBridge
  MaxGeneration = 1
  MaxDepth = 4
  MinName = 3
  MaxName = 9
  MaxNesting = 2
  MaxNodes = 2
  MaxString = 2
  MaxKey = 1
  MaxPayloadChars = 3
SPECIFICATION FairSpec
INVARIANTS
  FiresAtMostOnce
  BooksBalance
PROPERTIES
  NoCallAfterAbandon
  AlwaysAsync
  OwnLiveEngine
  ImplementsContract
  EveryRequestEnds
CHECK_DEADLOCK FALSE
