SPECIFICATION Spec
CONSTANTS
  MAX_NESTING_DEPTH = 2
  MaxLen = 22
  Tags <- MCTags
  NameLengths = {0, 2}
  Documents <- MCDocuments
  Arbitrary = Arbitrary
  Index = Index
INVARIANTS
  NeverPanics
  EncodedRoundTrips
  ReencodingIsStable
CHECK_DEADLOCK FALSE
