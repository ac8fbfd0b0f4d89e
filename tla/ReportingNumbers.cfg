SPECIFICATION Spec
CONSTANTS
  Searches <- MCSearches
  LabelsWith <- MCLabelsWith
  CodeOf <- MCCodeOf
  Returns <- MCReturns
  Template <- MCTemplate
  Registered <- MCRegistered
  Providers <- MCProviders
  Starts <- MCStarts
  Span = 1
INVARIANTS
  NumbersAreNotNegative
