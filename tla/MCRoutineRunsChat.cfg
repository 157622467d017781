\* Two processes with due routines of one agent.
CONSTANTS
  daily = daily
  weekly = weekly
  p1 = p1
  p2 = p2
  nobody = nobody
  Routines <- MCTwo
  Procs <- MCProcs
  Period = 2
  Window = 2
  RenewEvery = 1
  Cap = 1
  Delay = 1
  Stalling <- MCProc
  Nobody = nobody
  Horizon = 4
  MaxRuns = 2
  MaxRequests = 0
  MaxCrashes = 0
  MaxFaults = 0
SPECIFICATION Spec
INVARIANTS
  OneTurnPerChat
CHECK_DEADLOCK FALSE
