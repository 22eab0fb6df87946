SPECIFICATION Spec
CONSTANTS
  ann = ann
  bob = bob
  None = None
  Users <- MCUsers
  Events <- MCEvents
  Auths <- MCAuths
  Contents <- MCContents
  Options <- MCOptions
  Shared <- MCShared
  Rising <- MCRising
  Judged <- MCJudged
  Windows <- MCWindows
  Limits <- MCLimits
  Minute = 2
  MaxMinutes = 0
  LastTime = 4
  MaxCalls = 4
  MaxCommands = 4
CHECK_DEADLOCK FALSE
INVARIANTS
  RefusedWhenSpent
  PostsBounded
  OneAnswer
PROPERTIES
  TrustIsProved
  UploadIsTheAnnounced
  OnlyAdmitted
