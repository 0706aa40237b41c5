SPECIFICATION Spec
CONSTANTS
  Clients = {c1, c2}
  Requests <- MCRequests
  Seconds <- MCSeconds
  CounterSpace = 3
  MaxRequests = 2
  MaxFailures = 1
INVARIANTS
  RepliesFit
  ObjectIdsDistinct
PROPERTY Served
CHECK_DEADLOCK FALSE
