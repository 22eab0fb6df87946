SPECIFICATION FairServingSpec
CONSTANTS
  Peers = {p1}
  Feeders = {f1}
  Payloads = {"h1", "h2"}
  NoEvent = NoEvent
  MaxPosts = 3
  MaxCrashes = 0
  Events <- CollectorEvents
  Readers = {r1}
  MaxReads = 1
  Wanted = {"f1"}
INVARIANTS
  CollectorSparesReferenced
  ServedIsTrue
PROPERTIES
  CollectorStops
\* All clients may fall silent.
CHECK_DEADLOCK FALSE
