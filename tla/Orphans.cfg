SPECIFICATION FairSpec
CONSTANTS
  Peers = {p1}
  Feeders = {}
  Payloads = {"h1"}
  NoEvent = NoEvent
  MaxPosts = 2
  MaxCrashes = 0
  Events <- FileEvents
PROPERTIES
  OrphansCollected
\* All clients may fall silent.
CHECK_DEADLOCK FALSE
