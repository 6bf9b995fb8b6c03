CONSTANTS
  d1 = d1
  d2 = d2
  Data <- MCData
  NParts = 2
  NSects = 1
  Spurious = {FALSE}
SPECIFICATION FairSpec
INVARIANTS
  NothingForgotten
  CutRequestsLeaveNothing
PROPERTY WokenSaverSaves
PROPERTY CaliCommitIsSaved
