SPECIFICATION FairSpec
CONSTANTS
  a1 = a1
  a2 = a2
  Addresses <- MCAddresses
  Token = 2
  Rate = 1
  Capacity = 4
  IdleCutoff = 4
  MaxClock = 6
  Nil = Nil
INVARIANTS
  TypeOK
  WindowBound
  RefusedOnlyIfBusy
PROPERTIES
  ImplementsTokenBucket
  IdleIsForgotten
