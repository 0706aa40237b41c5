SPECIFICATION Spec
CONSTANTS
  MaxLen = 34
  Messages <- MCMessages
  Arbitrary = Arbitrary
INVARIANTS
  NeverPanics
  AcceptedIsExact
  EncodedRoundTrips
PROPERTY Returns
CHECK_DEADLOCK FALSE
