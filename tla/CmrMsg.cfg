CONSTANTS
  own = own
  usr = usr
  Senders = {own, usr}
  Owner = own
  Count = 3
  MaxPosts = 4
SPECIFICATION FairSpec
CHECK_DEADLOCK FALSE
INVARIANTS
  TypeOK
  TokensMatch
  SlotKept
  SyncHolds
  FreedAfterExit
PROPERTIES
  ImplementsQueue
  SyncReturns
