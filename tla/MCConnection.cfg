SPECIFICATION Spec
CONSTANTS
  None = None
  Accounts <- MCAccounts
  Frames <- AllFrames
  MaxRequests = 3
  Checksums = {TRUE, FALSE}
  Offered <- MCOffered
  BuiltinOffered <- MCBuiltinOffered
  InnerOutcomes <- MCInnerOutcomes
  IdSpace = 2
INVARIANTS
  RepliesInOrder
  RepliesExact
  RequestIdsDistinct
  NegotiationAgrees
  ContinueMatchesStart
PROPERTY Implements
CHECK_DEADLOCK FALSE
