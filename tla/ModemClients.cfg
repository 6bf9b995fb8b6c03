CONSTANTS
  c1 = c1
  c2 = c2
  c3 = c3
  n1 = n1
  n2 = n2
  Slots = 2
  MaxFd = 3
  Clients = {c1, c2, c3}
  MaxOpen = 3
  Notifiers = {n1, n2}
  NegIsSet = {TRUE, FALSE}
SPECIFICATION Spec
SYMMETRY MCSymmetry
CHECK_DEADLOCK FALSE
INVARIANT TypeOK
INVARIANT AllHear
INVARIANT DeadRemoved
INVARIANT NoDangling
INVARIANT OpenListed
INVARIANT StoresInTable
PROPERTY OnlyDeadClosed
