SPECIFICATION Spec
CONSTANTS
  Peers = {p1, p2}
  Feeders = {}
  Payloads = {"h1", "h2"}
  NoEvent = NoEvent
  MaxPosts = 4
  MaxCrashes = 1
  Events <- FileEvents
INVARIANTS
  UniqueIndexes
  FileEventHasData
PROPERTIES
  SuccessorOnly
\* All clients may fall silent.
CHECK_DEADLOCK FALSE
