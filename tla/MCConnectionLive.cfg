SPECIFICATION FairSpec
CONSTANTS
  None = None
  Accounts <- MCAccounts
  Frames <- FewFrames
  MaxRequests = 3
  Checksums = {TRUE, FALSE}
  Offered <- MCOffered
  BuiltinOffered <- MCBuiltinOffered
  InnerOutcomes <- MCInnerOutcomes
  IdSpace = 2
PROPERTY EverySettled
CHECK_DEADLOCK FALSE
