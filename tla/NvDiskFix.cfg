CONSTANTS
  v1 = v1
  v2 = v2
  ff = ff
  junk = junk
  Values <- MCValues
  Blank = ff
  Junk = junk
  BlankPassesEcc = TRUE
SPECIFICATION Spec
INVARIANT ImagePathIsFixed
