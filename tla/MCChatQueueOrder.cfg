\* Three messages, tool calls, a stop and a restart in one chat.
CONSTANTS
  api = api
  cli = cli
  drain = drain
  b1 = b1
  e1 = e1
  o1 = o1
  NoProfile = NoProfile
  Profiles <- MCProfiles
  CliProfiles <- MCLive
  LiveProfiles <- MCLive
  Drain = drain
  Background <- MCNobody
  Edits <- MCNobody
  Others <- MCNobody
  MaxPosts = 3
  MaxSteps = 2
  MaxCalls = 2
  MaxSends = 1
  MaxStops = 1
  MaxRestarts = 1
SPECIFICATION Spec
INVARIANTS
  NoPostIsForgotten
  ViewIsCurrent
  TranscriptKeepsOrder
  StopReachesTheTurn
CHECK_DEADLOCK FALSE
