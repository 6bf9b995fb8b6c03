CONSTANTS
  d1 = d1
  ff = ff
  Data <- MCData
  NParts = 1
  NSects = 1
  FFsector = ff
  JunkSector = ff
  BlankPassesEcc = TRUE
  Spurious = {FALSE}
SPECIFICATION MCSpec
INVARIANT CleanMeansOnDisk
PROPERTY ImplementsStore
