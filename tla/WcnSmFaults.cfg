CONSTANTS
  bt = bt
  wifi = wifi
  cli = cli
  mgr = mgr
  Clients = {bt}
  Manager = mgr
  Requests <- MCRequests
  Retries = 1
  ResetEnabled = TRUE
  Boot = FALSE
  MaxRequests = 2
  MaxCrashes = 1
  MaxHangups = 1
SPECIFICATION FairSpec
CHECK_DEADLOCK FALSE
PROPERTY HangNoticed
