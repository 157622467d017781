\* Leases, over crashes and late renewals, and slots, over requests and time.
CONSTANTS
  daily = daily
  weekly = weekly
  p1 = p1
  p2 = p2
  nobody = nobody
  Routines <- MCOne
  Procs <- MCProcs
  Period = 2
  Window = 2
  RenewEvery = 1
  Cap = 1
  Delay = 1
  Stalling <- MCLate
  Nobody = nobody
  Horizon = 5
  MaxRuns = 2
  MaxRequests = 2
  MaxCrashes = 1
  MaxFaults = 1
SPECIFICATION MCSpec
INVARIANTS
  ToldOnceAndTruly
  LiveRunsAreNotReaped
  SlotFiresOnce
  MissedSlotsAreNotReplayed
PROPERTIES
  EndedRunsStayEnded
  RunsEnd
CHECK_DEADLOCK FALSE
