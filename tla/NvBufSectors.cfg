CONSTANTS
  d1 = d1
  d2 = d2
  Data <- MCData
  NParts = 1
  NSects = 2
  Spurious = {FALSE}
SPECIFICATION Spec
INVARIANT SavesAreCommitted
