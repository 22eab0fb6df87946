SPECIFICATION FairSpec
CONSTANTS
  Events <- FeedEvents
  TagHash <- MCTagHash
  Rank <- MCRank
  PubkeyAsTime <- MCPubkeyAsTime
  Epoch = 1
  Wrap = 8
  NoLimit = 99
  Writers = {w1}
  None = None
  SubIds = {"s", "t"}
  Requests <- TwoRequests
  MaxFeed = 2
  MaxReqs = 2
INVARIANTS
  NoMissedEvent
  QuietAfterClose
PROPERTIES
  EventuallyTold
  HangUpEnds
CHECK_DEADLOCK FALSE
