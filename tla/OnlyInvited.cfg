SPECIFICATION Spec
CONSTANTS
  Users <- MCUsers
  None = None
  Posts <- MCPosts
  Conns = {c1}
  Wrap = 16
  MaxPosts = 7
PROPERTIES
  OnlyInvited
