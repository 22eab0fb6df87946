SPECIFICATION Spec
CONSTANTS
  Users <- MCUsers
  None = None
  Posts <- MCPosts
  Conns = {c1, c2}
  Wrap = 16
  MaxPosts = 4
INVARIANTS
  CountersExact
PROPERTIES
  InvitedByScore
  DoorCloses
