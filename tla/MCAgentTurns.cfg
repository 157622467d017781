\* Two pieces of mail; or a chat with its members, six messages and one disturbance.
CONSTANTS
  gardener = gardener
  turn = turn
  patch = patch
  inbox = inbox
  Mail <- MCMail
  Agents <- MCAgents
  To <- MCTo
  Turns <- MCTurns
  Of <- MCOf
  Patches <- MCPatches
  Inbox = inbox
  DeliverLimit = 1
  InboxLimit = 2
  MaxAttempts = 2
  MaxBatches = 2
  MaxFailures = 1
  ada = ada
  bob = bob
  Chair = gardener
  Memberships <- OwnOrGroup
  Mentions <- NobodyOrTwo
  Uses <- TextOrTools
  SendTool = "send"
  ContextSize = 3
  CompactSize = 3
  SummarySize = 2
  AutoCompactMin = 3
  MaxModelSteps = 2
  MaxMessages = 6
  MaxDisturbances = 1
SPECIFICATION TurnsSpec
INVARIANTS
  TurnsTypeOK
  ReadMailIsShown
  NoMailIsForgotten
  SentMailIsDelivered
  ModelsReadWhatTheyShould
  RoundsAreFair
