CONSTANTS
  bt = bt
  wifi = wifi
  cli = cli
  mgr = mgr
  Clients = {bt, wifi}
  Manager = mgr
  Requests <- MCRequests
  Retries = 1
  ResetEnabled = TRUE
  Boot = TRUE
  MaxRequests = 3
  MaxCrashes = 0
  MaxHangups = 0
SPECIFICATION FairSpec
CHECK_DEADLOCK FALSE
INVARIANT TypeOK
INVARIANT NeverStuck
INVARIANT OpenHolds
PROPERTY RequestsAnswered
