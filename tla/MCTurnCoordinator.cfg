\* Each turn is interactive or background.  No symmetry: the run checks liveness.
CONSTANTS
  c1 = c1
  c2 = c2
  t1 = t1
  t2 = t2
  t3 = t3
  w = w
  NoTurn = NoTurn
  Chats <- MCChats
  Turns <- MCTurns
  Settings <- MCSettings
  IdleCallers <- MCIdleCallers
SPECIFICATION FairSpec
INVARIANTS
  MutualExclusion
  TailsMatchCallers
  SlotsAddUp
PROPERTIES
  SlotDiscipline
  ImplementsChatLock
  NobodyWaitsForEver
CHECK_DEADLOCK FALSE
