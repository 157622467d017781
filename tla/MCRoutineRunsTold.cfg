\* A process that stops between the outcome and the notification.
CONSTANTS
  daily = daily
  weekly = weekly
  p1 = p1
  p2 = p2
  nobody = nobody
  Routines <- MCOne
  Procs <- MCProc
  Period = 2
  Window = 2
  RenewEvery = 1
  Cap = 1
  Delay = 1
  Stalling <- MCProc
  Nobody = nobody
  Horizon = 4
  MaxRuns = 2
  MaxRequests = 0
  MaxCrashes = 1
  MaxFaults = 0
SPECIFICATION Spec
INVARIANTS
  FinishedRunsAreTold
CHECK_DEADLOCK FALSE
