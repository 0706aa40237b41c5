SPECIFICATION Spec
CONSTANTS
  None = None
  Accounts <- MCAccounts
  Frames <- SaslFrames
  MaxRequests = 3
  Checksums = {TRUE}
  Offered <- MCOffered
  BuiltinOffered <- MCBuiltinOffered
  InnerOutcomes <- MCInnerOutcomes
  IdSpace = 2
INVARIANT
  ProtocolErrorCloses
CHECK_DEADLOCK FALSE
