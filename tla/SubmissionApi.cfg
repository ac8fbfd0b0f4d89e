SPECIFICATION Spec
CONSTANTS
  c1 = c1
  c2 = c2
  c3 = c3
  i1 = i1
  i2 = i2
  r1 = r1
  h1 = h1
  h2 = h2
  survey = survey
  other = other
  good = good
  bad = bad
  wrong = wrong
  Ids <- MCIds
  Runs <- MCRuns
  Holdings <- MCHoldings
  Tenants <- MCTenants
  Payloads <- MCPayloads
  Params <- MCParams
  Filters <- MCFilters
  Calls <- MCThreeCalls
  Drivers <- MCDrivers
  Faults = TRUE
  Unfit <- MCUnfit
  UnfitFilters <- MCUnfitFilters
  Grain = 1
  MaxClock = 0
  Incoming <- MCIncoming
  Production = TRUE
  Registered <- MCRegistered
  Verdict <- MCVerdict
  Atoi <- MCAtoi
  Nil = Nil
  NotFound = NotFound
  Failure = Failure
INVARIANTS
  TypeOK
  StoredWasChecked
  ReceiptMatchesRecord
  ShownToItsHolding
  ReceivedIsShown
