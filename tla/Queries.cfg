SPECIFICATION Spec
CONSTANTS
  Events <- QueryEvents
  TagHash <- MCTagHash
  Rank <- MCRank
  PubkeyAsTime <- MCPubkeyAsTime
  Epoch = 1
  Wrap = 8
  NoLimit = 99
  Requests <- QueryRequests
INVARIANTS
  CandidatesComplete
  PageIsNewest
  CountIsExact
