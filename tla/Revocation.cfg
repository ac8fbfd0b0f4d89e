SPECIFICATION FairSpec
CONSTANTS
  q1 = q1
  q2 = q2
  j1 = j1
  Requests <- MCRequests
  Tokens <- MCTokens
  Jtis <- MCJtis
  Nil = Nil
  MaxClock = 3
INVARIANTS
  TypeOK
  RevokedUntilExpired
  AcceptedCameInTime
PROPERTIES
  ExpiredIsPruned
  JudgesAtOnce
