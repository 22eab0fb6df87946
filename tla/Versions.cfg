SPECIFICATION Spec
CONSTANTS
  Peers = {p1}
  Feeders = {f1}
  Payloads = {"h1"}
  NoEvent = NoEvent
  MaxPosts = 3
  MaxCrashes = 1
  Events <- VersionEvents
INVARIANTS
  TypeOK
  FeedFaithful
  StoredReplyIsTrue
PROPERTIES
  ImplementsArchive
  ImplementsFeed
\* All clients may fall silent.
CHECK_DEADLOCK FALSE
