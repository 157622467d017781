\* Two pieces of mail and a turn of their agent, in batches of one.
CONSTANTS
  gardener = gardener
  turn = turn
  patch = patch
  inbox = inbox
  Mail <- MCMail
  Agents <- MCAgents
  To <- MCTo
  Turns <- MCTurns
  Of <- MCOf
  Patches <- MCNone
  Inbox = inbox
  DeliverLimit = 1
  InboxLimit = 1
  MaxAttempts = 2
  MaxBatches = 2
  MaxFailures = 0
SPECIFICATION Spec
INVARIANT NoMailIsForgotten
CHECK_DEADLOCK FALSE
