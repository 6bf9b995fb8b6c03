CONSTANTS
  Modems = {"W"}
  ResetEnabled = TRUE
  MaxAsserts = 2
  MaxHangs = 1
  MaxBlocks = 2
  MaxFails = 1
SPECIFICATION FairSpec
CHECK_DEADLOCK FALSE
INVARIANT NoLostWakeup
PROPERTY Recovers
PROPERTY ClientsHearAlive
PROPERTY BlockedThreadWakes
PROPERTY WakeLockReleased
