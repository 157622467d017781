\* Two messages, a routine's turn, an edit and a streamed reply in one chat.
CONSTANTS
  api = api
  cli = cli
  drain = drain
  b1 = b1
  e1 = e1
  o1 = o1
  NoProfile = NoProfile
  Profiles <- MCProfiles
  CliProfiles <- MCLive
  LiveProfiles <- MCLive
  Drain = drain
  Background <- MCBackground
  Edits <- MCEdits
  Others <- MCOthers
  MaxPosts = 2
  MaxSteps = 1
  MaxCalls = 1
  MaxSends = 1
  MaxStops = 0
  MaxRestarts = 0
SPECIFICATION FairSpec
INVARIANTS
  TypeOK
  StateLivesWhileNeeded
  EditsMeetNoTurn
PROPERTIES
  EverybodyIsServed
CHECK_DEADLOCK FALSE
