CONSTANTS
  d1 = d1
  d2 = d2
  Parts = {1}
  NSects = 2
  Data <- MCData
  Requests <- MCRequests
  FrameMod = 3
  MaxUnits = 3
  CutTokens = TRUE
  Misreadings <- MCNoToken
SPECIFICATION Spec
INVARIANT AckMeansCommitted
