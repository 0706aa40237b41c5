SPECIFICATION Spec
CONSTANTS
  Streams <- MCStreams
  max_msg_len = 30
INVARIANTS
  ChunkingInvisible
  CleanEndAtBoundary
  DirectTrailersVerified
PROPERTY SettledOnArrival
CHECK_DEADLOCK FALSE
