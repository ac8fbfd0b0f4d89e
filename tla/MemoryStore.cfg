SPECIFICATION FairSpec
CONSTANTS
  c1 = c1
  c2 = c2
  c3 = c3
  i1 = i1
  i2 = i2
  r1 = r1
  r2 = r2
  h1 = h1
  h2 = h2
  t1 = t1
  a = a
  b = b
  Ids <- MCIds
  Runs <- MCRuns
  Holdings <- MCHoldings
  Tenants <- MCTenants
  Payloads <- MCPayloads
  Params <- MCParams
  Filters <- MCFilters
  Calls <- MCCalls
  MaxClock = 1
  Nil = Nil
  NotFound = NotFound
INVARIANTS
  TypeOK
  IndexExact
  ReadersSeeExactIndex
  CreateAnswersStored
  AcknowledgedIsVisible
  NobodyWaitsForGood
PROPERTIES
  RecordsImmutable
  ImplementsContract
  EveryCallReturns
