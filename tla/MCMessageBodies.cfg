SPECIFICATION Spec
CONSTANTS
  MaxLen = 38
  MaxMsgLen = 30
  Enabled = {"zlib"}
  Messages <- MCMessages
  Arbitrary = Arbitrary
INVARIANTS
  NeverPanics
  AcceptedIsExact
  EncodedRoundTrips
CHECK_DEADLOCK FALSE
