\* A message posted while a stopped turn ends.
CONSTANTS
  api = api
  cli = cli
  drain = drain
  b1 = b1
  e1 = e1
  o1 = o1
  NoProfile = NoProfile
  Profiles <- MCProfiles
  CliProfiles <- MCLive
  LiveProfiles <- MCLive
  Drain = drain
  Background <- MCNobody
  Edits <- MCNobody
  Others <- MCNobody
  MaxPosts = 2
  MaxSteps = 2
  MaxCalls = 1
  MaxSends = 0
  MaxStops = 1
  MaxRestarts = 0
SPECIFICATION Spec
INVARIANTS
  LateMessagesGetTheirTurn
CHECK_DEADLOCK FALSE
